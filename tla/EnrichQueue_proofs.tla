-------------------------- MODULE EnrichQueue_proofs --------------------------
(***************************************************************************)
(* Theorems about the enrichment worker, for any rows, addresses, batch    *)
(* size and number of failures, crashes and quota windows.                 *)
(*                                                                         *)
(* The safety properties rest on three facts about the pass under way: its *)
(* rows are claimed (BatchIsClaimed), its unfinished addresses are those   *)
(* of `todo` (TodoFollowsPc), and an address it is done with has a score   *)
(* unless it was answered or the quota ran out (LearnedOrDeferred).        *)
(***************************************************************************)
EXTENDS EnrichQueue, TLAPS

USE RowsAssumption, BoundsAssumption

-----------------------------------------------------------------------------
(* Facts about the operators.                                              *)

LEMMA RemotesTyped ==
  ASSUME NEW S \in SUBSET Rows
  PROVE  RemotesOf(S) \in SUBSET Addrs
BY DEF RemotesOf

LEMMA ReportTyped ==
  ASSUME NEW a \in Addrs, facts \in [Addrs -> Facts]
  PROVE  facts[a].report \in Reports \cup {None} /\ facts[a].base \in BOOLEAN
BY DEF Facts

LEMMA FactsOfTyped ==
  ASSUME NEW r \in Rows, facts \in [Addrs -> Facts]
  PROVE  FactsOf(r) \in Facts
BY DEF FactsOf, Facts, Empty

LEMMA EmptyTyped == Empty \in Facts
BY DEF Empty, Facts

LEMMA SettledValues ==
  ASSUME NEW r
  PROVE  Settled(r) \in {"done", "deferred"}
BY DEF Settled

(* What a lookup does to the facts, the cache and the place of the worker.  *)
LEMMA LearnEffect ==
  ASSUME facts \in [Addrs -> Facts], cache \in [Addrs -> Facts],
         failures \in Nat,
         NEW a \in Addrs, NEW rep \in Reports \cup {None}, Learn(a, rep)
  PROVE  /\ facts' \in [Addrs -> Facts] /\ cache' \in [Addrs -> Facts]
         /\ failures' \in Nat /\ failures' >= failures
         /\ facts'[a].report = rep
         /\ \A b \in Addrs : b # a => facts'[b] = facts[b]
         /\ \A b \in Addrs : cache[b].report # None => cache'[b].report # None
         /\ todo' = todo \ {a}
         /\ pc' = IF todo = {a} THEN "write" ELSE "lookup"
<1>1. PICK base \in BOOLEAN :
        LET known == [base |-> base, report |-> rep] IN
        /\ facts' = [facts EXCEPT ![a] = known]
        /\ \/ /\ cache' = IF known = Empty THEN cache
                          ELSE [cache EXCEPT ![a] = Coalesce(known, cache[a])]
              /\ UNCHANGED failures
           \/ known # Empty /\ Fails /\ UNCHANGED cache
  BY DEF Learn
<1> DEFINE known == [base |-> base, report |-> rep]
<1>2. known \in Facts /\ known.report = rep
  BY DEF Facts
<1>3. Coalesce(known, cache[a]) \in Facts
      /\ (cache[a].report # None => Coalesce(known, cache[a]).report # None)
  BY DEF Facts, Coalesce
<1> HIDE DEF known
<1>4. /\ facts' = [facts EXCEPT ![a] = known]
      /\ \/ cache' = cache /\ failures' = failures
         \/ cache' = [cache EXCEPT ![a] = Coalesce(known, cache[a])] /\ failures' = failures
         \/ cache' = cache /\ Fails
  BY <1>1 DEF known
<1>5. failures' \in Nat /\ failures' >= failures
  BY <1>4 DEF Fails
<1>6. /\ facts' \in [Addrs -> Facts] /\ facts'[a].report = rep
      /\ \A b \in Addrs : b # a => facts'[b] = facts[b]
  BY <1>2, <1>4
<1>7. /\ cache' \in [Addrs -> Facts]
      /\ \A b \in Addrs : cache[b].report # None => cache'[b].report # None
  BY <1>3, <1>4
<1> QED
  BY <1>5, <1>6, <1>7 DEF Learn

(* The four outcomes of a lookup have this in common.                       *)
LEMMA LookupEffect ==
  ASSUME TypeOK, NEW a \in Addrs, Lookup(a)
  PROVE  /\ facts' \in [Addrs -> Facts] /\ cache' \in [Addrs -> Facts]
         /\ failures' \in Nat /\ failures' >= failures
         /\ quotaOut' \in BOOLEAN /\ answered' \in SUBSET Rows
         /\ \A b \in Addrs : b # a => facts'[b] = facts[b]
         /\ \A b \in Addrs : cache[b].report # None => cache'[b].report # None
         /\ todo' = todo \ {a} /\ a \in todo
         /\ pc = "lookup" /\ pc' = IF todo = {a} THEN "write" ELSE "lookup"
         /\ UNCHANGED <<status, written, rowCats, batch, catsTodo, announced, windows, crashes>>
         /\ answered \subseteq answered' /\ (quotaOut => quotaOut')
         /\ \A r \in batch \cap Blocked :
              Remote[r] = a /\ facts'[a].report = None => quotaOut' \/ r \in answered'
<1>1. facts \in [Addrs -> Facts] /\ cache \in [Addrs -> Facts] /\ failures \in Nat
  BY DEF TypeOK
<1>2. facts[a].report \in Reports \cup {None}
  BY <1>1, ReportTyped
<1>3. CASE SkipThreat(a)
  <2>1. /\ Learn(a, facts[a].report) /\ InLookup(a) /\ UNCHANGED <<quotaOut, answered>>
        /\ ~Wanted(a) \/ facts[a].report # None
    BY <1>3 DEF SkipThreat
  <2>2. \A r \in batch \cap Blocked : Remote[r] = a => facts[a].report # None
    BY <2>1 DEF Wanted
  <2> HIDE DEF Learn
  <2> QED
    BY <1>1, <1>2, <2>1, <2>2, LearnEffect DEF InLookup, TypeOK
<1>4. CASE \E rep \in Reports : ThreatFound(a, rep)
  <2>1. PICK rep \in Reports : ThreatFound(a, rep)
    BY <1>4
  <2>2. Learn(a, rep) /\ InLookup(a) /\ UNCHANGED <<quotaOut, answered>> /\ rep # None
    BY <2>1 DEF ThreatFound
  <2> QED
    BY <1>1, <2>2, LearnEffect DEF InLookup, TypeOK
<1>5. CASE ThreatNothing(a)
  <2>1. /\ Learn(a, facts[a].report) /\ InLookup(a) /\ UNCHANGED quotaOut
        /\ answered' = answered \cup {r \in batch : Remote[r] = a}
    BY <1>5 DEF ThreatNothing
  <2> QED
    BY <1>1, <1>2, <2>1, LearnEffect DEF InLookup, TypeOK
<1>6. CASE ThreatExhausted(a)
  <2>1. /\ Learn(a, facts[a].report) /\ InLookup(a) /\ UNCHANGED answered
        /\ quotaOut' = TRUE
    BY <1>6 DEF ThreatExhausted
  <2> QED
    BY <1>1, <1>2, <2>1, LearnEffect DEF InLookup, TypeOK
<1> QED
  BY <1>3, <1>4, <1>5, <1>6 DEF Lookup

-----------------------------------------------------------------------------
(* The types.                                                              *)

LEMMA TypeInit == Init => TypeOK
<1> SUFFICES ASSUME Init PROVE TypeOK
  OBVIOUS
<1>1. /\ written \in [Rows -> Facts] /\ cache \in [Addrs -> Facts]
      /\ facts \in [Addrs -> Facts]
  BY EmptyTyped DEF Init
<1>2. /\ status \in [Rows -> {"absent", "pending", "claimed", "done", "deferred"}]
      /\ rowCats \in [Rows -> Reports \cup {None}]
  BY DEF Init
<1> QED
  BY <1>1, <1>2 DEF Init, TypeOK

LEMMA TypeStep == TypeOK /\ [Next]_vars => TypeOK'
<1> SUFFICES ASSUME TypeOK, [Next]_vars
             PROVE  TypeOK'
  OBVIOUS
<1> USE DEF TypeOK, table, memory, bounds, Working
<1>1. CASE \E r \in Rows : Insert(r)
  BY <1>1 DEF Insert
<1>2. CASE Boot
  BY <1>2 DEF Boot, Released, Fails
<1>3. CASE Pass \/ Announce \/ Wake
  BY <1>3, RemotesTyped DEF Pass, Announce, Wake, Announceable
<1>4. CASE Reopen
  BY <1>4 DEF Reopen
<1>5. ASSUME NEW S \in SUBSET Rows, Claim(S)
      PROVE  TypeOK'
  <2>1. RemotesOf(S) \in SUBSET Addrs
    BY RemotesTyped
  <2>2. facts' \in [Addrs -> Facts] /\ failures' \in Nat
    BY <1>5, EmptyTyped DEF Claim, Fails
  <2> QED
    BY <1>5, <2>1, <2>2 DEF Claim, Taken
<1>6. CASE ClaimNothing
  BY <1>6 DEF ClaimNothing, Fails
<1>7. CASE \E a \in Addrs : Lookup(a)
  <2>1. PICK a \in Addrs : Lookup(a)
    BY <1>7
  <2> HIDE DEF TypeOK
  <2>2. TypeOK
    OBVIOUS
  <2> QED
    BY <2>1, <2>2, LookupEffect DEF TypeOK
<1>8. CASE WriteBack
  <2>1. written' \in [Rows -> Facts]
    BY <1>8, FactsOfTyped DEF WriteBack, Columns
  <2>2. status' \in [Rows -> {"absent", "pending", "claimed", "done", "deferred"}]
    BY <1>8, SettledValues DEF WriteBack
  <2>3. catsTodo' \in SUBSET Rows
    BY <1>8 DEF WriteBack, NeedCats
  <2> QED
    BY <1>8, <2>1, <2>2, <2>3 DEF WriteBack
<1>9. CASE WriteFails
  BY <1>9 DEF WriteFails, Fails
<1>10. ASSUME NEW r \in Rows, WriteCats(r)
       PROVE  TypeOK'
  <2>1. FactsOf(r).report \in Reports \cup {None}
    BY FactsOfTyped DEF Facts
  <2> QED
    BY <1>10, <2>1 DEF WriteCats
<1>11. CASE Crash
  <2>1. facts' \in [Addrs -> Facts]
    BY <1>11, EmptyTyped DEF Crash
  <2>2. /\ UNCHANGED <<status, written, rowCats, cache, answered, windows, failures>>
        /\ crashes' \in Nat /\ pc' = "boot" /\ quotaOut' = FALSE
        /\ batch' = {} /\ todo' = {} /\ catsTodo' = {} /\ announced' = {}
    BY <1>11 DEF Crash
  <2> QED
    BY <2>1, <2>2
<1>12. CASE UNCHANGED vars
  BY <1>12 DEF vars
<1> QED
  BY <1>1, <1>2, <1>3, <1>4, <1>5, <1>6, <1>7, <1>8, <1>9, <1>10, <1>11, <1>12
  DEF Next, Worker

(* Rows, cached facts and the state of the pass always have their types;   *)
(* in particular the status of a row is one of 0, 1, 3 and 4, and never 2  *)
(* (`failed`), which the code declares and does not write.                  *)
THEOREM Typing == Spec => []TypeOK
BY TypeInit, TypeStep, PTL DEF Spec

-----------------------------------------------------------------------------
(* The pass under way.                                                     *)

TodoFollowsPc ==
  /\ pc = "write" => todo = {}
  /\ pc = "lookup" => todo # {}

LearnedOrDeferred ==
  pc \in {"lookup", "write"} =>
    \A r \in batch \cap Blocked :
      Remote[r] # NoAddr /\ Remote[r] \notin todo /\ facts[Remote[r]].report = None
      => quotaOut \/ r \in answered

PassInv == BatchIsClaimed /\ TodoFollowsPc /\ LearnedOrDeferred

LEMMA PassInit == Init => PassInv
BY DEF Init, PassInv, BatchIsClaimed, TodoFollowsPc, LearnedOrDeferred

LEMMA PassStep == TypeOK /\ PassInv /\ [Next]_vars => PassInv'
<1> SUFFICES ASSUME TypeOK, PassInv, [Next]_vars
             PROVE  PassInv'
  OBVIOUS
<1> USE DEF PassInv, BatchIsClaimed, TodoFollowsPc, LearnedOrDeferred,
            table, memory, bounds
<1>1. CASE \E r \in Rows : Insert(r)
  BY <1>1 DEF Insert, TypeOK
<1>2. CASE Boot \/ Pass \/ Reopen \/ ClaimNothing
  BY <1>2 DEF Boot, Pass, Reopen, ClaimNothing
<1>3. ASSUME NEW S \in SUBSET Rows, Claim(S)
      PROVE  PassInv'
  <2>1. \A r \in S : status'[r] = "claimed"
    BY <1>3 DEF Claim, Taken
  <2>2. \A r \in S : Remote[r] # NoAddr => Remote[r] \in RemotesOf(S)
    BY DEF RemotesOf
  <2> QED
    BY <1>3, <2>1, <2>2 DEF Claim
<1>4. CASE \E a \in Addrs : Lookup(a)
  <2>1. PICK a \in Addrs : Lookup(a)
    BY <1>4
  <2>2. BatchIsClaimed' /\ TodoFollowsPc'
    BY <2>1, LookupEffect
  <2>3. LearnedOrDeferred'
    BY <2>1, LookupEffect DEF TypeOK
  <2> QED
    BY <2>2, <2>3
<1>5. CASE WriteBack \/ WriteFails \/ Announce \/ Wake
  BY <1>5 DEF WriteBack, WriteFails, Announce, Wake
<1>6. CASE \E r \in Rows : WriteCats(r)
  BY <1>6 DEF WriteCats
<1>7. CASE Crash
  BY <1>7 DEF Crash
<1>8. CASE UNCHANGED vars
  BY <1>8 DEF vars
<1> QED
  BY <1>1, <1>2, <1>3, <1>4, <1>5, <1>6, <1>7, <1>8 DEF Next, Worker

(* Nobody moves a row of the batch between the claim and the write-back,   *)
(* which is what makes an UPDATE by key without a look at the status right *)
(* (worker.rs:486-513).                                                    *)
THEOREM BatchStaysClaimed == Spec => []BatchIsClaimed
<1>1. PassInv => BatchIsClaimed
  BY DEF PassInv
<1> QED
  BY <1>1, PassInit, PassStep, Typing, PTL DEF Spec

LEMMA PassInvariance == Spec => [](TypeOK /\ PassInv)
BY PassInit, PassStep, Typing, PTL DEF Spec

-----------------------------------------------------------------------------
(* Which rows wait for quota, and which are finished without a score.      *)

(* The steps that touch neither the status of a row nor what was written.   *)
Bystander ==
  \/ Pass \/ ClaimNothing \/ Announce \/ Wake \/ WriteFails \/ Crash
  \/ \E a \in Addrs : Lookup(a)
  \/ \E r \in Rows : WriteCats(r)
  \/ UNCHANGED vars

LEMMA BystanderKeepsRows ==
  TypeOK /\ Bystander => UNCHANGED <<status, written>> /\ answered \subseteq answered'
<1> SUFFICES ASSUME TypeOK, Bystander
             PROVE  UNCHANGED <<status, written>> /\ answered \subseteq answered'
  OBVIOUS
<1>1. CASE \E a \in Addrs : Lookup(a)
  <2>1. PICK a \in Addrs : Lookup(a)
    BY <1>1
  <2>2. UNCHANGED status /\ answered \subseteq answered'
    BY <2>1, LookupEffect
  <2>3. UNCHANGED written
    BY <2>1, LookupEffect
  <2> QED
    BY <2>2, <2>3
<1>2. CASE ~ \E a \in Addrs : Lookup(a)
  BY <1>2 DEF Bystander, table, vars, Pass, ClaimNothing, Announce, Wake,
              WriteFails, Crash, WriteCats
<1> QED
  BY <1>1, <1>2

LEMMA NextCases ==
  ASSUME [Next]_vars
  PROVE  \/ Bystander \/ Boot \/ Reopen \/ WriteBack
         \/ \E r \in Rows : Insert(r)
         \/ \E S \in SUBSET Rows : Claim(S)
BY DEF Next, Worker, Bystander

LEMMA DeferredStep ==
  TypeOK /\ DeferredAwaitsScore /\ [Next]_vars => DeferredAwaitsScore'
<1> SUFFICES ASSUME TypeOK, DeferredAwaitsScore, [Next]_vars,
                    NEW r \in Rows, status'[r] = "deferred"
             PROVE  r \in Blocked /\ Remote[r] # NoAddr /\ written'[r].report = None
  BY DEF DeferredAwaitsScore, RowsIn
<1>1. CASE status[r] = "deferred" /\ written'[r] = written[r]
  BY <1>1 DEF DeferredAwaitsScore, RowsIn
<1>2. CASE WriteBack /\ r \in batch
  <2>1. Defers(r)
    BY <1>2 DEF WriteBack, Settled, TypeOK
  <2>2. written'[r] = facts[Remote[r]]
    BY <1>2, <2>1 DEF WriteBack, Columns, FactsOf, Defers
  <2> QED
    BY <2>1, <2>2 DEF Defers
<1>3. CASE WriteBack /\ r \notin batch
  <2>1. status'[r] = status[r] /\ written'[r] = written[r]
    BY <1>3 DEF WriteBack, Columns
  <2> QED
    BY <1>1, <2>1
<1>4. CASE Bystander
  BY <1>1, <1>4, BystanderKeepsRows
<1>5. CASE Boot \/ Reopen \/ (\E q \in Rows : Insert(q))
           \/ (\E S \in SUBSET Rows : Claim(S))
  <2>1. status[r] = "deferred"
    BY <1>5 DEF Boot, Released, Reopen, Insert, Claim, Taken, TypeOK
  <2>2. written'[r] = written[r]
    BY <1>5 DEF Boot, Reopen, Insert, Claim
  <2> QED
    BY <1>1, <2>1, <2>2
<1> QED
  BY <1>2, <1>3, <1>4, <1>5, NextCases

(* Only a blocked row with a remote address and without a score is put off *)
(* until there is quota again (worker.rs:456-459).                         *)
THEOREM DeferredRowsAwaitAScore == Spec => []DeferredAwaitsScore
<1>1. Init => DeferredAwaitsScore
  BY DEF Init, DeferredAwaitsScore, RowsIn
<1> QED
  BY <1>1, DeferredStep, Typing, PTL DEF Spec

LEMMA ScorelessStep ==
  TypeOK /\ PassInv /\ ScorelessWasAnswered /\ [Next]_vars => ScorelessWasAnswered'
<1> SUFFICES ASSUME TypeOK, PassInv, ScorelessWasAnswered, [Next]_vars,
                    NEW r \in Blocked, status'[r] = "done", Remote[r] # NoAddr,
                    written'[r].report = None
             PROVE  r \in answered'
  BY DEF ScorelessWasAnswered
<1>1. r \in Rows /\ Remote[r] \in Addrs
  OBVIOUS
<1>2. CASE status[r] = "done" /\ written'[r] = written[r] /\ answered \subseteq answered'
  BY <1>2 DEF ScorelessWasAnswered
<1>3. CASE WriteBack /\ r \in batch
  <2>1. ~Defers(r)
    BY <1>1, <1>3 DEF WriteBack, Settled
  <2>2. facts[Remote[r]].report = None
    BY <1>1, <1>3 DEF WriteBack, Columns, FactsOf
  <2>3. ~quotaOut
    BY <2>1, <2>2 DEF Defers
  <2>4. pc = "write" /\ todo = {} /\ answered' = answered
    BY <1>3 DEF WriteBack, PassInv, TodoFollowsPc
  <2> QED
    BY <1>3, <2>2, <2>3, <2>4 DEF PassInv, LearnedOrDeferred
<1>4. CASE WriteBack /\ r \notin batch
  <2>1. status'[r] = status[r] /\ written'[r] = written[r] /\ answered' = answered
    BY <1>1, <1>4 DEF WriteBack, Columns
  <2> QED
    BY <1>2, <2>1
<1>5. CASE Bystander
  BY <1>2, <1>5, BystanderKeepsRows
<1>6. CASE Boot \/ Reopen \/ (\E q \in Rows : Insert(q))
           \/ (\E S \in SUBSET Rows : Claim(S))
  <2>1. status[r] = "done"
    BY <1>1, <1>6 DEF Boot, Released, Reopen, Insert, Claim, Taken, TypeOK
  <2>2. written'[r] = written[r] /\ answered' = answered
    BY <1>6 DEF Boot, Reopen, Insert, Claim
  <2> QED
    BY <1>2, <2>1, <2>2
<1> QED
  BY <1>3, <1>4, <1>5, <1>6, NextCases

(* An exhausted quota never closes a row: a blocked row finished without a *)
(* score was asked about and answered (worker.rs:445-459).                 *)
THEOREM ScorelessRowsWereAnswered == Spec => []ScorelessWasAnswered
<1>1. Init => ScorelessWasAnswered
  BY DEF Init, ScorelessWasAnswered
<1> QED
  BY <1>1, ScorelessStep, PassInvariance, PTL DEF Spec

-----------------------------------------------------------------------------
(* What comes back into the queue, and what the cache keeps.               *)

SpinFree ==
  \A r \in Rows :
    status[r] \notin {"absent", "pending"} /\ status'[r] = "pending"
    => pc = "boot" \/ (status[r] = "deferred" /\ windows' # windows)

LEMMA SpinFreeStep == TypeOK /\ [Next]_vars => SpinFree
<1> SUFFICES ASSUME TypeOK, [Next]_vars, NEW r \in Rows,
                    status[r] \notin {"absent", "pending"}, status'[r] = "pending"
             PROVE  pc = "boot" \/ (status[r] = "deferred" /\ windows' # windows)
  BY DEF SpinFree
<1>1. CASE Bystander
  BY <1>1, BystanderKeepsRows
<1>2. CASE Boot
  BY <1>2 DEF Boot
<1>3. CASE Reopen
  BY <1>3 DEF Reopen, TypeOK
<1>4. CASE WriteBack
  BY <1>4, SettledValues DEF WriteBack
<1>5. CASE (\E q \in Rows : Insert(q)) \/ (\E S \in SUBSET Rows : Claim(S))
  BY <1>5 DEF Insert, Claim, Taken, TypeOK
<1> QED
  BY <1>1, <1>2, <1>3, <1>4, <1>5, NextCases

(* No pass puts a row back into the queue: only the start of a process and *)
(* a new quota window do (worker.rs:448-455, migrations/0011).             *)
THEOREM NoRowSpins == Spec => NoSpin
<1>1. TypeOK /\ [Next]_vars => [SpinFree]_vars
  BY SpinFreeStep
<1> QED
  BY <1>1, Typing, PTL DEF Spec, NoSpin, SpinFree

Remembers ==
  \A a \in Addrs : cache[a].report # None => cache'[a].report # None

LEMMA RemembersStep == TypeOK /\ [Next]_vars => Remembers
<1> SUFFICES ASSUME TypeOK, [Next]_vars
             PROVE  Remembers
  OBVIOUS
<1>1. CASE \E a \in Addrs : Lookup(a)
  BY <1>1, LookupEffect DEF Remembers
<1>2. CASE ~ \E a \in Addrs : Lookup(a)
  <2>1. cache' = cache
    BY <1>2 DEF Next, Worker, vars, table, Boot, Pass, Reopen, Claim, ClaimNothing,
                WriteBack, WriteFails, WriteCats, Announce, Wake, Crash, Insert
  <2> QED
    BY <2>1 DEF Remembers
<1> QED
  BY <1>1, <1>2

(* The address cache never loses a score, not even when a pass could not   *)
(* read it and stores what it found anew (worker.rs:264-303).              *)
THEOREM TheCacheRemembers == Spec => CacheNeverForgets
<1>1. TypeOK /\ [Next]_vars => [Remembers]_vars
  BY RemembersStep
<1> QED
  BY <1>1, Typing, PTL DEF Spec, CacheNeverForgets, Remembers

-----------------------------------------------------------------------------
(* What has been announced is on record.                                   *)

AnnounceInv ==
  /\ pc \in {"lookup", "write", "cats", "announce"} => announced = {}
  /\ pc \in {"cats", "announce"} \/ announced # {} =>
       \A r \in batch : written[r] = FactsOf(r)

LEMMA AnnounceStep == TypeOK /\ AnnounceInv /\ [Next]_vars => AnnounceInv'
<1> SUFFICES ASSUME TypeOK, AnnounceInv, [Next]_vars
             PROVE  AnnounceInv'
  OBVIOUS
<1> USE DEF AnnounceInv, table, memory, bounds
<1>1. CASE \E r \in Rows : Insert(r)
  BY <1>1 DEF Insert, FactsOf
<1>2. CASE Boot \/ Pass \/ Reopen \/ ClaimNothing \/ WriteFails \/ Announce \/ Wake
  BY <1>2 DEF Boot, Pass, Reopen, ClaimNothing, WriteFails, Announce, Wake, FactsOf
<1>3. CASE \E S \in SUBSET Rows : Claim(S)
  BY <1>3 DEF Claim
<1>4. CASE \E a \in Addrs : Lookup(a)
  BY <1>4, LookupEffect
<1>5. CASE WriteBack
  BY <1>5 DEF WriteBack, Columns, FactsOf, TypeOK
<1>6. CASE \E r \in Rows : WriteCats(r)
  BY <1>6 DEF WriteCats, FactsOf
<1>7. CASE Crash
  BY <1>7 DEF Crash
<1>8. CASE UNCHANGED vars
  BY <1>8 DEF vars, FactsOf
<1> QED
  BY <1>1, <1>2, <1>3, <1>4, <1>5, <1>6, <1>7, <1>8 DEF Next, Worker

(* An address is announced to the streams only after every row of the pass *)
(* carries what is announced (worker.rs:382-384).                          *)
THEOREM AnnouncementsAreOnRecord == Spec => []AnnouncedIsOnRecord
<1>1. Init => AnnounceInv
  BY DEF Init, AnnounceInv
<1>2. AnnounceInv => AnnouncedIsOnRecord
  BY DEF AnnounceInv, AnnouncedIsOnRecord
<1> QED
  BY <1>1, <1>2, AnnounceStep, Typing, PTL DEF Spec

-----------------------------------------------------------------------------
(* What a worker at rest has left behind: nothing.                         *)

(* As long as no statement failed, the claimed rows are those of the batch  *)
(* on its way to write_back; those of a process that died wait for the      *)
(* start of the next one.                                                   *)
HeldByBatch ==
  failures = 0 =>
    /\ pc \in {"lookup", "write"} => RowsIn("claimed") \subseteq batch
    /\ pc \notin {"lookup", "write", "boot"} => RowsIn("claimed") = {}

LEMMA HeldStep == TypeOK /\ HeldByBatch /\ [Next]_vars => HeldByBatch'
<1> SUFFICES ASSUME TypeOK, HeldByBatch, [Next]_vars, failures' = 0
             PROVE  /\ pc' \in {"lookup", "write"} => RowsIn("claimed")' \subseteq batch'
                    /\ pc' \notin {"lookup", "write", "boot"} => RowsIn("claimed")' = {}
  BY DEF HeldByBatch
<1> USE DEF HeldByBatch, RowsIn, table, memory, bounds
<1>1. CASE \E r \in Rows : Insert(r)
  BY <1>1 DEF Insert, TypeOK
<1>2. CASE Boot
  BY <1>2 DEF Boot, Released, Fails, TypeOK
<1>3. CASE Pass \/ Announce \/ Wake
  BY <1>3 DEF Pass, Announce, Wake
<1>4. CASE Reopen
  BY <1>4 DEF Reopen, TypeOK
<1>5. CASE \E S \in SUBSET Rows : Claim(S)
  BY <1>5 DEF Claim, Taken, Fails, TypeOK
<1>6. CASE ClaimNothing
  BY <1>6 DEF ClaimNothing, Fails, TypeOK
<1>7. CASE WriteFails
  BY <1>7 DEF WriteFails, Fails, TypeOK
<1>8. CASE \E a \in Addrs : Lookup(a)
  <2>1. PICK a \in Addrs : Lookup(a)
    BY <1>8
  <2>2. pc = "lookup" /\ pc' \in {"lookup", "write"} /\ UNCHANGED <<status, batch>>
    BY <2>1, LookupEffect
  <2>3. failures = 0
    BY <2>1, LookupEffect DEF TypeOK
  <2> QED
    BY <2>2, <2>3
<1>9. CASE WriteBack
  <2>1. /\ pc = "write" /\ pc' \in {"announce", "cats"} /\ failures = 0
        /\ status' = [r \in Rows |-> IF r \in batch THEN Settled(r) ELSE status[r]]
    BY <1>9 DEF WriteBack
  <2>2. \A r \in Rows : status'[r] # "claimed"
    BY <2>1, SettledValues
  <2> QED
    BY <2>1, <2>2
<1>10. CASE \E r \in Rows : WriteCats(r)
  BY <1>10 DEF WriteCats
<1>11. CASE Crash
  BY <1>11 DEF Crash
<1>12. CASE UNCHANGED vars
  BY <1>12 DEF vars
<1> QED
  BY <1>1, <1>2, <1>3, <1>4, <1>5, <1>6, <1>7, <1>8, <1>9, <1>10, <1>11, <1>12
  DEF Next, Worker

(* Categories still to be written belong to the batch that was just written *)
(* back, and no finished row is without its own except those.               *)
CatsInv ==
  /\ pc = "cats" => catsTodo \subseteq batch
  /\ CatsFollowUndisturbed

(* A step after which nothing has gone wrong began with nothing wrong.      *)
LEMMA StillUndisturbed ==
  ASSUME NEW f \in Nat, NEW c \in Nat, NEW g \in Nat, g >= f, g + c = 0
  PROVE  f + c = 0
OBVIOUS

(* The steps that leave every finished row, its categories and the rows     *)
(* that wait for theirs as they are.                                        *)
LEMMA CatsBystander ==
  ASSUME TypeOK, CatsInv,
         \/ pc' = pc /\ batch' = batch /\ catsTodo' = catsTodo
         \/ pc # "cats" /\ pc' # "cats",
         written' = written, rowCats' = rowCats,
         \A r \in Rows : status'[r] = "done" => status[r] = "done",
         failures' + crashes' = 0 => failures + crashes = 0
  PROVE  CatsInv'
BY DEF CatsInv, CatsFollowUndisturbed, CategoriesFollowScore, CatsInStep, RowsIn

LEMMA CatsStep == TypeOK /\ AnnounceInv /\ CatsInv /\ [Next]_vars => CatsInv'
<1> SUFFICES ASSUME TypeOK, AnnounceInv, CatsInv, [Next]_vars
             PROVE  CatsInv'
  OBVIOUS
<1> USE DEF table, memory, bounds
<1>1. CASE \E r \in Rows : Insert(r)
  <2>1. \A r \in Rows : status'[r] = "done" => status[r] = "done"
    BY <1>1 DEF Insert, TypeOK
  <2>2. failures' + crashes' = 0 => failures + crashes = 0
    BY <1>1 DEF Insert
  <2>3. /\ pc' = pc /\ batch' = batch /\ catsTodo' = catsTodo
        /\ written' = written /\ rowCats' = rowCats
    BY <1>1 DEF Insert
  <2> QED
    BY <2>1, <2>2, <2>3, CatsBystander
<1>2. CASE Boot \/ Pass \/ Reopen \/ ClaimNothing \/ Announce \/ Wake
           \/ \E S \in SUBSET Rows : Claim(S)
  <2>1. \A r \in Rows : status'[r] = "done" => status[r] = "done"
    BY <1>2 DEF Boot, Released, Pass, Reopen, ClaimNothing, Announce, Wake, Claim,
                Taken, TypeOK
  <2>2. failures' + crashes' = 0 => failures + crashes = 0
    <3>1. crashes' = crashes /\ failures' \in {failures, failures + 1}
      BY <1>2 DEF Boot, Pass, Reopen, ClaimNothing, Announce, Wake, Claim, Fails
    <3>2. failures \in Nat /\ crashes \in Nat
      BY DEF TypeOK
    <3>3. failures' \in Nat /\ failures' >= failures
      BY <3>1, <3>2
    <3> QED
      BY <3>1, <3>2, <3>3, StillUndisturbed
  <2>3. pc # "cats" /\ pc' # "cats" /\ UNCHANGED <<written, rowCats>>
    BY <1>2 DEF Boot, Pass, Reopen, ClaimNothing, Announce, Wake, Claim
  <2> QED
    BY <2>1, <2>2, <2>3, CatsBystander
<1>3. CASE \E a \in Addrs : Lookup(a)
  <2>1. PICK a \in Addrs : Lookup(a)
    BY <1>3
  <2>2. pc # "cats" /\ pc' # "cats" /\ UNCHANGED <<status, written, rowCats, crashes>>
    BY <2>1, LookupEffect
  <2>3. failures' \in Nat /\ failures' >= failures
    BY <2>1, LookupEffect
  <2>4. failures' + crashes' = 0 => failures + crashes = 0
    <3>1. failures \in Nat /\ crashes \in Nat
      BY DEF TypeOK
    <3> QED
      BY <2>2, <2>3, <3>1, StillUndisturbed
  <2> QED
    BY <2>2, <2>4, CatsBystander
<1>4. CASE WriteBack
  <2>1. /\ pc = "write" /\ catsTodo' = NeedCats
        /\ pc' = IF NeedCats = {} THEN "announce" ELSE "cats"
        /\ UNCHANGED <<rowCats, batch, facts, failures, crashes>>
    BY <1>4 DEF WriteBack
  <2>2. catsTodo' \subseteq batch'
    BY <2>1 DEF NeedCats
  <2>3. ASSUME failures' + crashes' = 0, NEW r \in Rows, status'[r] = "done"
        PROVE  CatsInStep(r)'
    <3>1. CASE r \in batch
      <4>1. written'[r] = FactsOf(r)
        BY <1>4, <3>1 DEF WriteBack, Columns
      <4>2. FactsOf(r).report \in WithCats => pc' = "cats" /\ r \in catsTodo'
        BY <2>1, <3>1 DEF NeedCats
      <4> QED
        BY <4>1, <4>2 DEF CatsInStep
    <3>2. CASE r \notin batch
      <4>1. status[r] = "done" /\ written'[r] = written[r]
        BY <1>4, <2>3, <3>2 DEF WriteBack, Columns
      <4>2. CatsInStep(r)
        BY <2>1, <2>3, <4>1
        DEF CatsInv, CatsFollowUndisturbed, CategoriesFollowScore, RowsIn
      <4> QED
        BY <2>1, <4>1, <4>2 DEF CatsInStep
    <3> QED
      BY <3>1, <3>2
  <2> QED
    BY <2>2, <2>3 DEF CatsInv, CatsFollowUndisturbed, CategoriesFollowScore, RowsIn
<1>5. CASE WriteFails \/ Crash
  <2>1. pc' # "cats" /\ ~(failures' + crashes' = 0)
    BY <1>5 DEF WriteFails, Crash, Fails, TypeOK
  <2> QED
    BY <2>1 DEF CatsInv, CatsFollowUndisturbed
<1>6. ASSUME NEW r \in Rows, WriteCats(r)
      PROVE  CatsInv'
  <2>1. /\ pc = "cats" /\ r \in catsTodo /\ r \in batch
        /\ rowCats' = [rowCats EXCEPT ![r] = FactsOf(r).report]
        /\ catsTodo' = catsTodo \ {r}
        /\ pc' = IF catsTodo = {r} THEN "announce" ELSE "cats"
        /\ UNCHANGED <<status, written, batch, failures, crashes>>
    BY <1>6 DEF WriteCats, CatsInv
  <2>2. rowCats'[r] = written'[r].report
    BY <2>1 DEF AnnounceInv, TypeOK
  <2>3. ASSUME NEW q \in Rows, q # r, CatsInStep(q)
        PROVE  CatsInStep(q)'
    <3>1. rowCats'[q] = rowCats[q] /\ written'[q] = written[q]
      BY <2>1, <2>3 DEF TypeOK
    <3>2. q \in catsTodo => pc' = "cats" /\ q \in catsTodo'
      BY <2>1, <2>3
    <3> QED
      BY <2>3, <3>1, <3>2 DEF CatsInStep
  <2>4. catsTodo' \subseteq batch'
    BY <2>1 DEF CatsInv
  <2>5. CatsFollowUndisturbed'
    BY <2>1, <2>2, <2>3
    DEF CatsInv, CatsFollowUndisturbed, CategoriesFollowScore, CatsInStep, RowsIn
  <2> QED
    BY <2>4, <2>5 DEF CatsInv
<1>7. CASE UNCHANGED vars
  <2>1. UNCHANGED <<pc, batch, catsTodo, status, written, rowCats, failures, crashes>>
    BY <1>7 DEF vars
  <2> QED
    BY <2>1, CatsBystander
<1> QED
  BY <1>1, <1>2, <1>3, <1>4, <1>5, <1>6, <1>7 DEF Next, Worker

(* As long as no statement failed, a worker that rests holds no row, and    *)
(* as long as nothing crashed either, every finished row has the categories *)
(* of its score: a row the worker has let go of is complete                 *)
(* (worker.rs:116-127, 415-428, 515-523, 635-640).                          *)
THEOREM NothingLeftBehind == Spec => []NothingIsLeftBehind
<1>1. Init => HeldByBatch /\ CatsInv /\ AnnounceInv
  BY DEF Init, HeldByBatch, CatsInv, CatsFollowUndisturbed, CategoriesFollowScore,
         RowsIn, AnnounceInv
<1>2. HeldByBatch /\ CatsInv => NothingIsLeftBehind
  BY DEF HeldByBatch, CatsInv, NothingIsLeftBehind, HeldOnlyAtWork
<1> QED
  BY <1>1, <1>2, HeldStep, CatsStep, AnnounceStep, Typing, PTL DEF Spec

-----------------------------------------------------------------------------
(* The table is the queue RowQueue promises.                               *)

LEMMA QueueInit == Init => Queue!Init
BY DEF Init, Queue!Init

LEMMA QueueStep == TypeOK /\ PassInv /\ [Next]_vars => [Queue!Next]_status
<1> SUFFICES ASSUME TypeOK, PassInv, [Next]_vars
             PROVE  [Queue!Next]_status
  OBVIOUS
<1> USE DEF Queue!RowsIn, Queue!Move
<1>1. CASE Bystander
  BY <1>1, BystanderKeepsRows
<1>2. ASSUME NEW r \in Rows, Insert(r)
      PROVE  Queue!Next
  <2>1. Queue!Add({r})
    BY <1>2 DEF Insert, Queue!Add, TypeOK
  <2> QED
    BY <2>1 DEF Queue!Next
<1>3. CASE Boot
  <2>1. CASE status' = Released
    BY <2>1 DEF Released, Queue!Next, Queue!Release
  <2> QED
    BY <1>3, <2>1 DEF Boot
<1>4. CASE Reopen
  BY <1>4 DEF Reopen, Queue!Next, Queue!Reopen
<1>5. ASSUME NEW S \in SUBSET Rows, Claim(S)
      PROVE  Queue!Next
  <2>1. S \subseteq Queue!RowsIn("pending")
    BY <1>5 DEF Claim, Claimable, RowsIn
  <2>2. Queue!Take(S)
    BY <1>5, <2>1 DEF Claim, Taken, Queue!Take
  <2> QED
    BY <2>2 DEF Queue!Next
<1>6. CASE WriteBack
  <2> DEFINE later == {r \in batch : Defers(r)}
  <2>1. batch \in SUBSET Rows /\ later \in SUBSET batch
    BY DEF TypeOK
  <2>2. batch \subseteq Queue!RowsIn("claimed")
    BY <1>6, <2>1 DEF WriteBack, PassInv, BatchIsClaimed
  <2>3. status' = [r \in Rows |-> IF r \in later THEN "deferred"
                                  ELSE IF r \in batch THEN "done" ELSE status[r]]
    BY <1>6 DEF WriteBack, Settled
  <2> HIDE DEF later
  <2>4. Queue!Settle(batch, later)
    BY <2>1, <2>2, <2>3 DEF Queue!Settle
  <2> QED
    BY <2>1, <2>4 DEF Queue!Next
<1> QED
  BY <1>1, <1>2, <1>3, <1>4, <1>5, <1>6, NextCases

(* Seen from `enrich_status` alone, the worker with its crashes, failures  *)
(* and quota windows takes only the steps the table promises as a queue.   *)
THEOREM WorkerImplementsQueue == Spec => IsRowQueue
BY QueueInit, QueueStep, PassInvariance, PTL DEF Spec, IsRowQueue, Queue!Spec

-----------------------------------------------------------------------------
(* The properties the runs check, from the theorems above.                  *)

(* From the claim to the announcement the batch is the worker's             *)
(* (worker.rs:146-166, 382-513).                                            *)
THEOREM TheBatchHolds == Spec => []BatchHolds
BY BatchStaysClaimed, AnnouncementsAreOnRecord, PTL DEF BatchHolds

(* Rows are deferred, and finished without a score, for the right reason    *)
(* (worker.rs:445-462).                                                     *)
THEOREM RowsAreSettledRightly == Spec => []RowsSettleRightly
BY DeferredRowsAwaitAScore, ScorelessRowsWereAnswered, PTL DEF RowsSettleRightly

(* No pass puts a row back or loses a score (worker.rs:264-303, 448-455).   *)
THEOREM NoPassUndoesAnother == Spec => NothingIsUndone
BY NoRowSpins, TheCacheRemembers DEF NothingIsUndone
=============================================================================
