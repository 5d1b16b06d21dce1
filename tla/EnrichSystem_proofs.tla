-------------------------- MODULE EnrichSystem_proofs --------------------------
(***************************************************************************)
(* Theorems about the worker with the real client, for any constants.  The *)
(* composition takes only steps of EnrichQueue, so what EnrichQueue_proofs *)
(* shows of an arbitrary threat source holds of this one.                  *)
(*                                                                         *)
(* That deferred rows come back with the quota, and only with news of it,  *)
(* needs both halves: PartsInv types them together, QuotaInv says which    *)
(* reset times the client can know, WaitInv that no deferred row is older  *)
(* than the window the queue was last reopened for.                        *)
(***************************************************************************)
EXTENDS EnrichSystem, TLAPS

QP == INSTANCE EnrichQueue_proofs
AP == INSTANCE AbuseIpDb_proofs WITH MaxRestarts <- MaxCrashes

USE SystemAssumption, PartsAssumption

(* Every row whose address EnrichQueue holds answered was really served.    *)
AnsweredWasServed == answered \subseteq served

-----------------------------------------------------------------------------
(* A reply that leaves the row without a score is no 429.                   *)
LEMMA NothingIsNoLimit ==
  ASSUME NEW rep, A!Outcome(rep) = "NotFound"
  PROVE  rep.code # "limited"
BY DEF A!Outcome

(* A request names its address: the lookup that is answered is in `todo`.   *)
LEMMA AnsweredIsLookup ==
  ASSUME NEW rep, LookupAnswered(rep)
  PROVE  /\ Q!Lookup(asking) /\ asking \in todo
         /\ AnsweredWasServed => AnsweredWasServed'
<1>1. CASE A!Outcome(rep) = "Found" /\ \E p \in Reports : Q!ThreatFound(asking, p)
  BY <1>1 DEF AnsweredWasServed, Q!Lookup, Q!ThreatFound, Q!InLookup, LookupAnswered
<1>2. CASE A!Outcome(rep) = "NotFound" /\ Q!ThreatNothing(asking)
  <2>1. served' = served \cup RowsOf(asking)
    BY <1>2, NothingIsNoLimit DEF LookupAnswered
  <2> QED
    BY <1>2, <2>1 DEF AnsweredWasServed, Q!Lookup, Q!ThreatNothing, Q!InLookup, RowsOf
<1>3. CASE A!Outcome(rep) = "QuotaExhausted" /\ Q!ThreatExhausted(asking)
  BY <1>3 DEF AnsweredWasServed, Q!Lookup, Q!ThreatExhausted, Q!InLookup, LookupAnswered
<1> QED
  BY <1>1, <1>2, <1>3 DEF LookupAnswered

(* Every step of the system is a step of the queue or leaves it alone, and *)
(* a row the queue holds answered has been served.                         *)
LEMMA SystemStep ==
  ASSUME Q!TypeOK, [Next]_vars
  PROVE  /\ [Q!Next]_(Q!vars)
         /\ AnsweredWasServed => AnsweredWasServed'
<1> DEFINE Goal == /\ [Q!Next]_(Q!vars)
                   /\ AnsweredWasServed => AnsweredWasServed'
<1>1. ASSUME UNCHANGED queueVars, served \subseteq served'
      PROVE  Goal
  BY <1>1 DEF AnsweredWasServed, queueVars, Q!vars, Q!table, Q!memory, Q!bounds
<1>2. CASE TopReopens \/ TopPasses \/ TopCannotReopen
  BY <1>2 DEF AnsweredWasServed, TopReopens, TopPasses, TopCannotReopen, Q!Next, Q!Worker,
              Q!Reopen, Q!Pass, history
<1>3. ASSUME NEW a \in Addrs, SkipThreat(a) \/ LookupRefused(a)
      PROVE  Goal
  <2>1. Q!Lookup(a) /\ UNCHANGED <<answered, served>>
    BY <1>3 DEF SkipThreat, LookupRefused, Q!Lookup, Q!SkipThreat, Q!ThreatExhausted, history
  <2> QED
    BY <2>1 DEF AnsweredWasServed, Q!Next, Q!Worker
<1>4. ASSUME NEW a \in Addrs, LookupDisabled(a)
      PROVE  Goal
  BY <1>4 DEF AnsweredWasServed, LookupDisabled, Q!Lookup, Q!ThreatNothing, RowsOf, Q!Next, Q!Worker
<1>5. ASSUME NEW a \in Addrs, LookupAsks(a)
      PROVE  Goal
  BY <1>1, <1>5 DEF LookupAsks, history
<1>6. ASSUME NEW rep \in flight, LookupAnswered(rep)
      PROVE  Goal
  <2>1. asking \in Addrs
    BY <1>6, AnsweredIsLookup DEF Q!TypeOK
  <2> QED
    BY <1>6, <2>1, AnsweredIsLookup DEF Q!Next, Q!Worker
<1>7. CASE WriteBack
  BY <1>7 DEF AnsweredWasServed, WriteBack, Q!WriteBack, Q!Next, Q!Worker
<1>8. CASE QueueStep
  <2>1. UNCHANGED <<answered, served>>
    BY <1>8 DEF QueueStep, history, Q!Boot, Q!ClaimNothing, Q!WriteFails, Q!Announce,
                Q!Wake, Q!Claim, Q!WriteCats, Q!Insert
  <2>2. Q!Next
    BY <1>8 DEF QueueStep, Q!Next, Q!Worker
  <2> QED
    BY <2>1, <2>2 DEF AnsweredWasServed
<1>9. CASE \E k \in Keys \cup {NoKey} : ChangeKey(k)
  BY <1>1, <1>9 DEF ChangeKey, history
<1>10. CASE Crash
  BY <1>10 DEF AnsweredWasServed, Crash, Q!Crash, Q!Next, history
<1>11. CASE Tick
  BY <1>1, <1>11 DEF Tick, history
<1>12. CASE UNCHANGED vars
  BY <1>1, <1>12 DEF vars, history
<1> QED
  BY <1>2, <1>3, <1>4, <1>5, <1>6, <1>7, <1>8, <1>9, <1>10, <1>11, <1>12
  DEF Next, LookupStep

(* The two instances of the queue are one: what is proved of one is proved *)
(* of the other.                                                           *)
LEMMA SameInit == Q!Init => QP!Init
BY DEF Q!Init, QP!Init, Q!Empty, QP!Empty

LEMMA SameTypes == Q!TypeOK <=> QP!TypeOK
BY DEF Q!TypeOK, QP!TypeOK, Q!Facts, QP!Facts, Q!Working, QP!Working

LEMMA SameNext == [Q!Next]_(Q!vars) => [QP!Next]_(QP!vars)
<1>1. /\ Q!Boot => QP!Boot
      /\ Q!Pass => QP!Pass
      /\ Q!Reopen => QP!Reopen
  BY DEF Q!Boot, QP!Boot, Q!Pass, QP!Pass, Q!Reopen, QP!Reopen,
     Q!Released, QP!Released, Q!Fails, QP!Fails, Q!table, QP!table,
     Q!memory, QP!memory, Q!bounds, QP!bounds
<1>2. \A S : Q!Claim(S) => QP!Claim(S)
  <2>1. Q!Claimable = QP!Claimable
    BY DEF Q!Claimable, QP!Claimable, Q!RowsIn, QP!RowsIn,
           Q!Cardinality, QP!Cardinality
  <2>2. Q!Fails <=> QP!Fails
    BY DEF Q!Fails, QP!Fails
  <2> QED
    BY <2>1, <2>2 DEF Q!Claim, QP!Claim, Q!Taken, QP!Taken,
                      Q!RemotesOf, QP!RemotesOf, Q!Empty, QP!Empty
<1>3. Q!ClaimNothing => QP!ClaimNothing
  BY DEF Q!ClaimNothing, QP!ClaimNothing, Q!RowsIn, QP!RowsIn, Q!Fails,
     QP!Fails, Q!table, QP!table, Q!memory, QP!memory, Q!bounds, QP!bounds
<1>4. \A a : Q!Lookup(a) => QP!Lookup(a)
  <2>1. Q!Empty = QP!Empty /\ (Q!Fails <=> QP!Fails)
        /\ \A new, old : Q!Coalesce(new, old) = QP!Coalesce(new, old)
    BY DEF Q!Empty, QP!Empty, Q!Fails, QP!Fails, Q!Coalesce, QP!Coalesce
  <2>2. \A a, rep : Q!Learn(a, rep) => QP!Learn(a, rep)
    BY <2>1 DEF Q!Learn, QP!Learn
  <2>3. \A a : (Q!Wanted(a) <=> QP!Wanted(a)) /\ (Q!InLookup(a) <=> QP!InLookup(a))
    BY DEF Q!Wanted, QP!Wanted, Q!InLookup, QP!InLookup
  <2> QED
    BY <2>2, <2>3
    DEF Q!Lookup, QP!Lookup, Q!SkipThreat, QP!SkipThreat, Q!ThreatFound,
        QP!ThreatFound, Q!ThreatNothing, QP!ThreatNothing,
        Q!ThreatExhausted, QP!ThreatExhausted
<1>5. Q!WriteBack => QP!WriteBack
  BY DEF Q!WriteBack, QP!WriteBack, Q!Columns, QP!Columns, Q!NeedCats,
     QP!NeedCats, Q!Settled, QP!Settled, Q!Defers, QP!Defers, Q!FactsOf,
     QP!FactsOf, Q!Empty, QP!Empty, Q!bounds, QP!bounds
<1>6. /\ Q!WriteFails => QP!WriteFails
      /\ \A r : Q!WriteCats(r) => QP!WriteCats(r)
  BY DEF Q!WriteFails, QP!WriteFails, Q!WriteCats, QP!WriteCats,
     Q!FactsOf, QP!FactsOf, Q!Empty, QP!Empty, Q!Fails, QP!Fails, Q!table,
     QP!table, Q!memory, QP!memory, Q!bounds, QP!bounds
<1>7. Q!Announce => QP!Announce
  BY DEF Q!Announce, QP!Announce, Q!Announceable, QP!Announceable,
     Q!RemotesOf, QP!RemotesOf, Q!Empty, QP!Empty, Q!table, QP!table,
     Q!memory, QP!memory, Q!bounds, QP!bounds
<1>8. /\ Q!Wake => QP!Wake
      /\ Q!Crash => QP!Crash
      /\ \A r : Q!Insert(r) => QP!Insert(r)
  BY DEF Q!Wake, QP!Wake, Q!Crash, QP!Crash, Q!Insert, QP!Insert, Q!Empty,
     QP!Empty, Q!table, QP!table, Q!memory, QP!memory, Q!bounds, QP!bounds
<1>9. Q!vars = QP!vars /\ Q!vars' = QP!vars'
  BY DEF Q!vars, QP!vars, Q!table, QP!table, Q!memory, QP!memory,
     Q!bounds, QP!bounds
<1> QED
  BY <1>1, <1>2, <1>3, <1>4, <1>5, <1>6, <1>7, <1>8, <1>9
  DEF Q!Next, QP!Next, Q!Worker, QP!Worker

LEMMA QueueTypes == Spec => []Q!TypeOK
<1>1. Init => Q!TypeOK
  BY SameInit, SameTypes, QP!TypeInit DEF Init
<1>2. Q!TypeOK /\ [Next]_vars => Q!TypeOK'
  <2> SUFFICES ASSUME Q!TypeOK, [Next]_vars
               PROVE  Q!TypeOK'
    OBVIOUS
  <2>1. QP!TypeOK'
    BY SystemStep, SameNext, SameTypes, QP!TypeStep
  <2> QED
    BY <2>1 DEF Q!TypeOK, QP!TypeOK, Q!Facts, QP!Facts, Q!Working, QP!Working
<1> QED
  BY <1>1, <1>2, PTL DEF Spec

(* The worker with its real client is a behaviour of the queue with an     *)
(* arbitrary threat source.                                                *)
THEOREM SystemImplementsQueue == Spec => IsEnrichQueue
<1>1. Init => Q!Init
  BY DEF Init
<1>2. Q!TypeOK /\ [Next]_vars => [Q!Next]_(Q!vars)
  BY SystemStep
<1> QED
  BY <1>1, <1>2, QueueTypes, PTL DEF Spec, IsEnrichQueue, Q!Spec

(* Whatever the quota, the key and the failures do, a blocked row is       *)
(* finished without a score only after the service was asked and had none, *)
(* or while it was switched off (worker.rs:445-459, abuseipdb.rs:119-128). *)
THEOREM OnlyAnswersClose == Spec => []OnlyAnAnswerCloses
<1>1. Init => Q!Init /\ QP!Init /\ AnsweredWasServed
  BY SameInit DEF Init, Q!Init, AnsweredWasServed
<1>2. Q!TypeOK /\ [Next]_vars => [QP!Next]_(QP!vars)
  BY SystemStep, SameNext
<1>3. Q!TypeOK /\ AnsweredWasServed /\ [Next]_vars => AnsweredWasServed'
  BY SystemStep
<1>4. QP!Spec => []QP!ScorelessWasAnswered
  BY QP!ScorelessRowsWereAnswered
<1>5. QP!ScorelessWasAnswered /\ AnsweredWasServed => OnlyAnAnswerCloses
  BY DEF QP!ScorelessWasAnswered, AnsweredWasServed, OnlyAnAnswerCloses
<1> QED
  BY <1>1, <1>2, <1>3, <1>4, <1>5, QueueTypes, PTL DEF Spec, QP!Spec

-----------------------------------------------------------------------------
(* The client in the system.                                               *)

(* The two instances of the client are one as well.                         *)
LEMMA SameClientOps ==
  /\ A!Never = AP!Never /\ A!Absent = AP!Absent /\ A!Unknown = AP!Unknown
  /\ \A k : A!Fresh(k) = AP!Fresh(k)
  /\ \A t : A!NextMidnight(t) = AP!NextMidnight(t)
  /\ \A c, t : A!ClearAfterReset(c, t) = AP!ClearAfterReset(c, t)
  /\ \A c, t : A!Refuses(c, t) <=> AP!Refuses(c, t)
  /\ \A rep, t : A!PauseEnd(rep, t) = AP!PauseEnd(rep, t)
  /\ \A c, rep, t : A!Absorb(c, rep, t) = AP!Absorb(c, rep, t)
<1>1. A!Never = AP!Never /\ A!Absent = AP!Absent /\ A!Unknown = AP!Unknown
  BY DEF A!Never, AP!Never, A!Absent, AP!Absent, A!Unknown, AP!Unknown
<1>2. \A k : A!Fresh(k) = AP!Fresh(k)
  BY <1>1 DEF A!Fresh, AP!Fresh
<1>3. \A t : A!NextMidnight(t) = AP!NextMidnight(t)
  BY DEF A!NextMidnight, AP!NextMidnight
<1>4. \A c, t : A!ClearAfterReset(c, t) = AP!ClearAfterReset(c, t)
  BY <1>1, <1>2 DEF A!ClearAfterReset, AP!ClearAfterReset, A!LaterOf, AP!LaterOf
<1>5. \A c, t : A!Refuses(c, t) <=> AP!Refuses(c, t)
  BY <1>4 DEF A!Refuses, AP!Refuses, A!Paused, AP!Paused
<1>6. \A rep, t : A!PauseEnd(rep, t) = AP!PauseEnd(rep, t)
  BY <1>1 DEF A!PauseEnd, AP!PauseEnd
<1>7. \A c, rep, t : A!Absorb(c, rep, t) = AP!Absorb(c, rep, t)
  <2>1. \A c, rep, t : A!AbsorbHeaders(c, rep, t) = AP!AbsorbHeaders(c, rep, t)
    BY <1>1, <1>3 DEF A!AbsorbHeaders, AP!AbsorbHeaders
  <2> QED
    BY <1>6, <2>1 DEF A!Absorb, AP!Absorb
<1> QED
  BY <1>1, <1>2, <1>3, <1>4, <1>5, <1>6, <1>7

(* The steps of the two clients are the same steps.                         *)
LEMMA SameClientStep == [A!Next]_(A!vars) => [AP!Next]_(AP!vars)
<1>1. A!AnyAsk => AP!AnyAsk
  <2>1. A!Reply = AP!Reply
    BY SameClientOps DEF A!Reply, AP!Reply
  <2>2. \A rep, k : A!LeftAfter(rep, k) = AP!LeftAfter(rep, k)
    BY DEF A!LeftAfter, AP!LeftAfter
  <2>3. \A rep, n : A!Truthful(rep, n) <=> AP!Truthful(rep, n)
    BY SameClientOps DEF A!Truthful, AP!Truthful
  <2>4. \A c : A!WithinBound(c) <=> AP!WithinBound(c)
    BY DEF A!WithinBound, AP!WithinBound
  <2>5. \A rep : A!Ask(rep) => AP!Ask(rep)
    BY SameClientOps, <2>2, <2>3, <2>4 DEF A!Ask, AP!Ask
  <2> QED
    BY <2>1, <2>5 DEF A!AnyAsk, AP!AnyAsk
<1>2. A!AnyReceive => AP!AnyReceive
  <2>1. \A c, rep : A!Guesses(c, rep) <=> AP!Guesses(c, rep)
    BY SameClientOps DEF A!Guesses, AP!Guesses
  <2>2. \A rep : A!Receive(rep) => AP!Receive(rep)
    BY SameClientOps, <2>1 DEF A!Receive, AP!Receive
  <2> QED
    BY <2>2 DEF A!AnyReceive, AP!AnyReceive
<1>3. \A k : A!SetApiKey(k) => AP!SetApiKey(k)
  BY SameClientOps DEF A!SetApiKey, AP!SetApiKey
<1>4. A!Restart => AP!Restart
  BY SameClientOps DEF A!Restart, AP!Restart
<1>5. A!Tick => AP!Tick
  BY DEF A!Tick, AP!Tick
<1>6. A!vars = AP!vars /\ A!vars' = AP!vars'
  BY DEF A!vars, AP!vars
<1> QED
  BY <1>1, <1>2, <1>3, <1>4, <1>5, <1>6 DEF A!Next, AP!Next

LEMMA SameClientInit == A!Init => AP!Init
BY SameClientOps DEF A!Init, AP!Init

(* Every step of the system is a step of the client, or leaves it alone, or *)
(* is the crash that starts another with the key of that moment.            *)
LEMMA ClientStep ==
  ASSUME AP!TypeInv, configured \in Keys \cup {NoKey}, [Next]_vars
  PROVE  [A!Next]_(A!vars) \/ Crash
<1> DEFINE Goal == [A!Next]_(A!vars) \/ Crash
<1>0. client \in AP!ClientType /\ now \in Nat
  BY DEF AP!TypeInv, AP!TypeOK, AP!ClientType
<1>1. UNCHANGED clientVars => Goal
  BY DEF clientVars, A!vars
<1>2. ASSUME NEW k \in Keys \cup {NoKey}, TakeKey(k)
      PROVE  Goal
  BY <1>1, <1>2 DEF TakeKey, A!Next
<1>3. CASE TopReopens \/ TopPasses
  BY <1>2, <1>3 DEF TopReopens, TopPasses
<1>4. CASE TopCannotReopen
  BY <1>1, <1>4 DEF TopCannotReopen, A!Next
<1>5. ASSUME NEW a \in Addrs, SkipThreat(a) \/ LookupDisabled(a)
      PROVE  Goal
  BY <1>1, <1>5 DEF SkipThreat, LookupDisabled
<1>6. ASSUME NEW a \in Addrs, LookupRefused(a)
      PROVE  Goal
  <2>1. AP!Refuses(client, now) /\ client' = AP!ClearAfterReset(client, now)
    BY <1>6, SameClientOps DEF LookupRefused
  <2>2. client' = client
    BY <1>0, <2>1, AP!RefusedUncleared
  <2>3. UNCHANGED clientVars
    BY <1>6, <2>2 DEF LookupRefused, clientVars
  <2> QED
    BY <1>1, <2>3
<1>7. ASSUME NEW a \in Addrs, LookupAsks(a)
      PROVE  Goal
  BY <1>7 DEF LookupAsks, A!Next
<1>8. ASSUME NEW rep \in flight, LookupAnswered(rep)
      PROVE  Goal
  BY <1>8 DEF LookupAnswered, A!Next, A!AnyReceive
<1>9. CASE WriteBack \/ QueueStep \/ \E k \in Keys \cup {NoKey} : ChangeKey(k)
  BY <1>1, <1>9 DEF WriteBack, QueueStep, ChangeKey
<1>10. CASE Tick
  BY <1>10 DEF Tick, A!Next
<1>11. CASE UNCHANGED vars
  BY <1>1, <1>11 DEF vars
<1> QED
  BY <1>3, <1>4, <1>5, <1>6, <1>7, <1>8, <1>9, <1>10, <1>11 DEF Next, LookupStep

\* What is typed, beside the queue: the client, the key the operator entered,
\* and the request under way, which belongs to the lookup.
PartsInv ==
  /\ AP!TypeInv
  /\ restarts = crashes
  /\ configured \in Keys \cup {NoKey}
  /\ reopenedFor \in Nat
  /\ asking \in Addrs \cup {NoAddr}
  /\ flight # {} => client.key # NoKey /\ pc = "lookup" /\ asking \in todo
  /\ deferredAt \in [Rows -> Nat]
  /\ served \subseteq Rows /\ news \in BOOLEAN /\ heardAt \in Nat
  /\ faults \in 0..MaxFaults /\ keyChanges \in 0..MaxKeyChanges

LEMMA PartsInit == Init => PartsInv
<1> SUFFICES ASSUME Init PROVE PartsInv
  OBVIOUS
<1>1. AP!TypeInv
  BY SameClientInit, AP!TypeInvInit DEF Init
<1>2. /\ restarts = crashes /\ flight = {} /\ A!Never \in Nat
      /\ configured \in Keys \cup {NoKey}
  BY <1>1 DEF Init, A!Init, Q!Init, AP!TypeInv, AP!TypeOK, A!Never
<1>3. /\ reopenedFor \in Nat /\ asking \in Addrs \cup {NoAddr}
      /\ deferredAt \in [Rows -> Nat]
      /\ served \subseteq Rows /\ news \in BOOLEAN /\ heardAt \in Nat
  BY <1>2 DEF Init
<1>4. faults \in 0..MaxFaults /\ keyChanges \in 0..MaxKeyChanges
  BY DEF Init
<1> QED
  BY <1>1, <1>2, <1>3, <1>4 DEF PartsInv

LEMMA OnlyCrashRestarts ==
  ASSUME [Next]_vars, ~Crash
  PROVE  restarts' = restarts /\ crashes' = crashes
<1>1. CASE TopReopens \/ TopPasses \/ TopCannotReopen
  BY <1>1 DEF TopReopens, TopPasses, TopCannotReopen, TakeKey, A!SetApiKey, clientVars,
              Q!Reopen, Q!Pass, Q!bounds
<1>2. ASSUME NEW a \in Addrs,
             SkipThreat(a) \/ LookupDisabled(a) \/ LookupRefused(a) \/ LookupAsks(a)
      PROVE  restarts' = restarts /\ crashes' = crashes
  BY <1>2 DEF SkipThreat, LookupDisabled, LookupRefused, LookupAsks, A!AnyAsk, A!Ask,
              clientVars, queueVars, Q!SkipThreat, Q!ThreatNothing, Q!ThreatExhausted,
              Q!InLookup
<1>3. ASSUME NEW rep \in flight, LookupAnswered(rep)
      PROVE  restarts' = restarts /\ crashes' = crashes
  BY <1>3 DEF LookupAnswered, A!Receive, Q!ThreatFound, Q!ThreatNothing,
              Q!ThreatExhausted, Q!InLookup
<1>4. CASE QueueStep
  BY <1>4 DEF QueueStep, clientVars, Q!Boot, Q!ClaimNothing, Q!WriteFails, Q!Announce,
              Q!Wake, Q!Claim, Q!WriteCats, Q!Insert, Q!bounds
<1>5. CASE WriteBack \/ Tick \/ (\E k \in Keys \cup {NoKey} : ChangeKey(k))
           \/ UNCHANGED vars
  BY <1>5 DEF WriteBack, Tick, ChangeKey, vars, clientVars, queueVars, Q!WriteBack,
              Q!bounds, A!Tick
<1> QED
  BY <1>1, <1>2, <1>3, <1>4, <1>5 DEF Next, LookupStep

LEMMA ClientTypes ==
  ASSUME PartsInv, [Next]_vars
  PROVE  AP!TypeInv' /\ restarts' = crashes'
<1>1. CASE Crash
  <2>1. client' \in AP!ClientType /\ client'.remaining # 0
    BY <1>1, SameClientOps, AP!FreshFields DEF Crash, PartsInv
  <2>2. /\ crashes < MaxCrashes /\ crashes' = crashes + 1 /\ restarts' = restarts + 1
        /\ flight' = {} /\ guessed' = FALSE /\ UNCHANGED <<now, left, promised>>
    BY <1>1 DEF Crash, Q!Crash
  <2>3. restarts \in 0..MaxCrashes /\ MaxCrashes \in Nat /\ restarts = crashes
    BY DEF PartsInv, AP!TypeInv, AP!TypeOK, Q!BoundsAssumption
  <2>4. restarts' \in 0..MaxCrashes /\ promised' \in [until : Nat, by : 0..restarts']
    BY <2>2, <2>3 DEF PartsInv, AP!TypeInv, AP!TypeOK
  <2> QED
    BY <2>1, <2>2, <2>3, <2>4
    DEF PartsInv, AP!TypeInv, AP!TypeOK, AP!FlightOK, AP!ExhaustionEnds, AP!ClientType
<1>2. CASE ~Crash
  <2>1. [AP!Next]_(AP!vars)
    BY <1>2, ClientStep, SameClientStep DEF PartsInv
  <2>2. AP!TypeInv'
    BY <2>1, AP!TypeInvStep DEF PartsInv
  <2>3. restarts' = restarts /\ crashes' = crashes
    BY <1>2, OnlyCrashRestarts
  <2> QED
    BY <2>2, <2>3 DEF PartsInv
<1> QED
  BY <1>1, <1>2

(* The rest of the types: the request under way belongs to the lookup that  *)
(* the worker waits for.                                                    *)
LEMMA PartsStep == Q!TypeOK /\ PartsInv /\ [Next]_vars => PartsInv'
<1> SUFFICES ASSUME Q!TypeOK, PartsInv, [Next]_vars PROVE PartsInv'
  OBVIOUS
<1> DEFINE Rest ==
  /\ configured \in Keys \cup {NoKey}
  /\ reopenedFor \in Nat
  /\ asking \in Addrs \cup {NoAddr}
  /\ flight # {} => client.key # NoKey /\ pc = "lookup" /\ asking \in todo
  /\ deferredAt \in [Rows -> Nat]
  /\ served \subseteq Rows /\ news \in BOOLEAN /\ heardAt \in Nat
  /\ faults \in 0..MaxFaults /\ keyChanges \in 0..MaxKeyChanges
<1>0. AP!TypeInv' /\ restarts' = crashes'
  BY ClientTypes
<1>a. /\ Rest /\ now \in Nat /\ client' \in AP!ClientType
      /\ \A rep \in flight : rep.sentAt \in Nat
  BY <1>0 DEF PartsInv, AP!TypeInv, AP!TypeOK, AP!FlightOK, AP!ReplyType, AP!ClientType
<1>b. client'.resetAt \in Nat
  BY <1>a DEF AP!ClientType
<1> USE DEF history, counters
<1>1. ASSUME NEW k \in Keys \cup {NoKey}, TakeKey(k), pc = "top"
      PROVE  flight' = {} /\ faults' \in 0..MaxFaults
  BY <1>1, <1>a DEF TakeKey, clientVars, A!SetApiKey
<1>2. CASE TopReopens
  <2>1. flight' = {} /\ faults' \in 0..MaxFaults
    BY <1>1, <1>2 DEF TopReopens, Q!Reopen
  <2> QED
    BY <1>0, <1>a, <1>b, <1>2, <2>1 DEF TopReopens, PartsInv
<1>3. CASE TopPasses
  <2>1. flight' = {} /\ faults' \in 0..MaxFaults
    BY <1>1, <1>3 DEF TopPasses, Q!Pass
  <2> QED
    BY <1>0, <1>a, <1>3, <2>1 DEF TopPasses, PartsInv
<1>4. CASE TopCannotReopen
  <2>1. flight' = {} /\ faults' \in 0..MaxFaults
    BY <1>4, <1>a DEF TopCannotReopen, Q!Pass, A!SetApiKey, clientVars
  <2> QED
    BY <1>0, <1>a, <1>4, <2>1 DEF TopCannotReopen, PartsInv
<1>5. ASSUME NEW a \in Addrs, SkipThreat(a) \/ LookupRefused(a)
      PROVE  PartsInv'
  <2>1. flight' = {} /\ UNCHANGED <<configured, reopenedFor, asking, history, counters>>
    BY <1>5 DEF SkipThreat, LookupRefused, clientVars
  <2> QED
    BY <1>0, <1>a, <2>1 DEF PartsInv
<1>6. ASSUME NEW a \in Addrs, LookupDisabled(a)
      PROVE  PartsInv'
  <2>1. flight' = {}
    BY <1>6, <1>a DEF LookupDisabled, clientVars
  <2>2. served' \subseteq Rows
    BY <1>6, <1>a DEF LookupDisabled, RowsOf, Q!TypeOK
  <2> QED
    BY <1>0, <1>a, <1>6, <2>1, <2>2 DEF LookupDisabled, PartsInv
<1>7. ASSUME NEW a \in Addrs, LookupAsks(a)
      PROVE  PartsInv'
  <2>1. client'.key # NoKey
    <3>1. PICK rep \in A!Reply : A!Ask(rep)
      BY <1>7 DEF LookupAsks, A!AnyAsk
    <3>2. client' = AP!ClearAfterReset(client, now) /\ client.key # NoKey
      BY <3>1, SameClientOps DEF A!Ask
    <3>3. client \in AP!ClientType
      BY DEF PartsInv, AP!TypeInv, AP!TypeOK, AP!ClientType
    <3> QED
      BY <1>a, <3>2, <3>3, AP!ClearType
  <2>2. /\ asking' = a /\ a \in todo /\ pc = "lookup"
        /\ UNCHANGED <<queueVars, configured, reopenedFor, history, counters>>
    BY <1>7 DEF LookupAsks
  <2>3. UNCHANGED <<pc, todo>>
    BY <2>2 DEF queueVars
  <2> QED
    BY <1>0, <1>a, <2>1, <2>2, <2>3 DEF PartsInv
<1>8. ASSUME NEW rep \in flight, LookupAnswered(rep)
      PROVE  PartsInv'
  <2>1. flight' = {} /\ heardAt' \in Nat /\ news' = TRUE /\ asking' = NoAddr
    BY <1>8, <1>a DEF LookupAnswered, A!Receive
  <2>2. served' \subseteq Rows
    BY <1>8, <1>a DEF LookupAnswered, RowsOf, Q!TypeOK
  <2> QED
    BY <1>0, <1>a, <1>8, <2>1, <2>2 DEF LookupAnswered, PartsInv
<1>9. CASE WriteBack
  <2>1. flight' = {}
    BY <1>9, <1>a DEF WriteBack, Q!WriteBack, clientVars
  <2>2. deferredAt' \in [Rows -> Nat]
    BY <1>9, <1>a DEF WriteBack
  <2> QED
    BY <1>0, <1>a, <1>9, <2>1, <2>2 DEF WriteBack, PartsInv
<1>10. CASE QueueStep
  <2>1. \/ pc # "lookup"
        \/ UNCHANGED <<pc, todo>>
    BY <1>10 DEF QueueStep, Q!Boot, Q!ClaimNothing, Q!WriteFails, Q!Announce, Q!Wake,
                 Q!Claim, Q!WriteCats, Q!Insert, Q!memory
  <2>2. UNCHANGED <<client, flight, configured, reopenedFor, asking, history, counters>>
    BY <1>10 DEF QueueStep, clientVars
  <2> QED
    BY <1>0, <1>a, <2>1, <2>2 DEF PartsInv
<1>11. ASSUME NEW k \in Keys \cup {NoKey}, ChangeKey(k)
       PROVE  PartsInv'
  <2>1. UNCHANGED <<client, flight, pc, todo, reopenedFor, asking, history, faults>>
    BY <1>11 DEF ChangeKey, queueVars, clientVars
  <2>2. configured' \in Keys \cup {NoKey} /\ keyChanges' \in 0..MaxKeyChanges
    BY <1>11, <1>a DEF ChangeKey
  <2> QED
    BY <1>0, <1>a, <2>1, <2>2 DEF PartsInv
<1>12. CASE Crash
  <2>1. /\ flight' = {} /\ reopenedFor' \in Nat /\ asking' = NoAddr
        /\ UNCHANGED <<configured, history, counters>>
    BY <1>12 DEF Crash, A!Never
  <2> QED
    BY <1>0, <1>a, <2>1 DEF PartsInv
<1>13. CASE Tick
  <2>1. UNCHANGED <<client, flight, pc, todo, configured, reopenedFor, asking, history, counters>>
    BY <1>13 DEF Tick, A!Tick, queueVars
  <2> QED
    BY <1>0, <1>a, <2>1 DEF PartsInv
<1>14. CASE UNCHANGED vars
  <2>1. UNCHANGED <<client, flight, pc, todo, configured, reopenedFor, asking, history, counters>>
    BY <1>14 DEF vars, clientVars, queueVars
  <2> QED
    BY <1>0, <1>a, <2>1 DEF PartsInv
<1> QED
  BY <1>2, <1>3, <1>4, <1>5, <1>6, <1>7, <1>8, <1>9, <1>10, <1>11, <1>12, <1>13, <1>14
  DEF Next, LookupStep

-----------------------------------------------------------------------------
(* What the client knows of the quota, and when rows are reopened for it.   *)

\* A reset time lies at most a day ahead, and is the next midnight unless it is
\* the end of a pause; a reply under way names no other.  Without a key nothing
\* is known.
QuotaInv ==
  /\ client.resetAt <= now + Day
  /\ \/ client.resetAt = client.pausedUntil
     \/ client.resetAt <= now
     \/ client.resetAt = AP!NextMidnight(now)
  /\ client.key = NoKey => client.remaining <= 0
  /\ \A rep \in flight :
       /\ rep.sentAt <= now /\ now <= rep.sentAt + 1
       /\ rep.reset # AP!Absent => rep.reset = AP!NextMidnight(rep.sentAt)
       /\ rep.retry \in {AP!Absent, Hour, Day}

(* What is known of a client that knows nothing.                            *)
LEMMA FreshQuota ==
  ASSUME NEW k \in Keys \cup {NoKey}, now \in Nat, client' = AP!Fresh(k),
         now' = now, flight' = {}
  PROVE  QuotaInv'
<1>1. client'.resetAt = 0 /\ client'.pausedUntil = 0 /\ client'.remaining = -1
  BY DEF AP!Fresh, AP!Never, AP!Unknown
<1> QED
  BY <1>1 DEF QuotaInv

(* A reply leaves a reset time of its day, or the end of its pause.         *)
LEMMA AbsorbedReset ==
  ASSUME NEW c \in AP!ClientType, NEW rep \in AP!ReplyType, NEW t \in Nat
  PROVE  LET d == AP!Absorb(c, rep, t) IN
         /\ rep.code = "limited" => d.resetAt = AP!PauseEnd(rep, t)
                                    /\ d.pausedUntil = AP!PauseEnd(rep, t)
         /\ rep.code # "limited" =>
              /\ d.pausedUntil = c.pausedUntil
              /\ d.resetAt \in {c.resetAt, AP!NextMidnight(t), rep.reset} \ {AP!Absent}
<1>1. c.resetAt # AP!Absent /\ AP!NextMidnight(t) # AP!Absent
  BY AP!MidnightLater DEF AP!ClientType, AP!Absent
<1>2. ASSUME rep.code # "limited"
      PROVE  AP!Absorb(c, rep, t).resetAt
               \in {c.resetAt, AP!NextMidnight(t), rep.reset} \ {AP!Absent}
  <2>1. AP!Absorb(c, rep, t) = AP!AbsorbHeaders(c, rep, t)
    BY <1>2 DEF AP!Absorb
  <2> QED
    BY <1>1, <2>1 DEF AP!AbsorbHeaders, AP!ClientType
<1> QED
  BY <1>2, AP!AbsorbFields

LEMMA QuotaStep ==
  PartsInv /\ QuotaInv /\ [Next]_vars => QuotaInv'
<1> SUFFICES ASSUME PartsInv, QuotaInv, [Next]_vars PROVE QuotaInv'
  OBVIOUS
<1>0. /\ client \in AP!ClientType /\ now \in Nat /\ flight \subseteq AP!ReplyType
      /\ Day \in Nat \ {0} /\ Hour \in Nat \ {0} /\ Hour <= Day
  BY DEF PartsInv, AP!TypeInv, AP!TypeOK, AP!FlightOK, AP!ClientType, A!ConstantsAssumption
<1>1. client.resetAt \in Nat /\ client.pausedUntil \in Nat /\ client.remaining \in Int
      /\ client.key \in Keys \cup {NoKey}
  BY <1>0 DEF AP!ClientType
<1>2. AP!NextMidnight(now) \in Nat /\ AP!NextMidnight(now) > now
      /\ AP!NextMidnight(now) <= now + Day
  BY <1>0, AP!MidnightLater, AP!MidnightSoon
<1>3. CASE Crash
  <2>1. client' = AP!Fresh(configured) /\ now' = now /\ flight' = {}
        /\ configured \in Keys \cup {NoKey}
    BY <1>3, SameClientOps DEF Crash, PartsInv
  <2> QED
    BY <1>0, <2>1, FreshQuota
<1>4. CASE UNCHANGED AP!vars
  BY <1>4 DEF AP!vars, QuotaInv
<1>5. ASSUME NEW rep \in AP!Reply, AP!Ask(rep)
      PROVE  QuotaInv'
  <2>1. client' = client \/ client' = AP!Fresh(client.key)
    BY <1>5 DEF AP!Ask, AP!ClearAfterReset
  <2>2. flight' = {rep} /\ now' = now
    BY <1>5 DEF AP!Ask
  <2>3. /\ rep.sentAt = now
        /\ rep.reset # AP!Absent => rep.reset = AP!NextMidnight(now)
        /\ rep.retry \in {AP!Absent, Hour, Day}
    BY DEF AP!Reply
  <2>4. CASE client' = client
    BY <1>0, <2>2, <2>3, <2>4 DEF QuotaInv
  <2>5. CASE client' = AP!Fresh(client.key)
    <3>1. client'.resetAt = 0 /\ client'.pausedUntil = 0 /\ client'.remaining = -1
      BY <2>5 DEF AP!Fresh, AP!Never, AP!Unknown
    <3> QED
      BY <1>0, <2>2, <2>3, <3>1 DEF QuotaInv
  <2> QED
    BY <2>1, <2>4, <2>5
<1>6. ASSUME NEW rep \in flight, AP!Receive(rep)
      PROVE  QuotaInv'
  <2>1. /\ client' = AP!Absorb(client, rep, now) /\ flight' = {} /\ now' = now
        /\ rep \in AP!ReplyType
    BY <1>0, <1>6 DEF AP!Receive
  <2>2. client'.key = client.key /\ client.key # NoKey
    BY <1>0, <2>1, AP!AbsorbFields DEF PartsInv
  <2>3. rep.reset # AP!Absent =>
          /\ rep.reset \in Nat
          /\ rep.reset = AP!NextMidnight(now) \/ rep.reset = now
    <3>1. rep.sentAt \in Nat /\ (rep.sentAt = now \/ rep.sentAt + 1 = now)
      BY <1>0, <2>1 DEF QuotaInv, AP!ReplyType
    <3>2. CASE rep.sentAt = now
      BY <1>2, <3>2 DEF QuotaInv
    <3>3. CASE rep.sentAt + 1 = now
      <4>1. AP!NextMidnight(rep.sentAt) = now
            \/ AP!NextMidnight(rep.sentAt) = AP!NextMidnight(now)
        BY <3>1, <3>3, AP!MidnightStep
      <4> QED
        BY <1>0, <1>2, <4>1 DEF QuotaInv
    <3> QED
      BY <3>1, <3>2, <3>3
  <2>4. CASE rep.code = "limited"
    <3>1. client'.resetAt = AP!PauseEnd(rep, now) /\ client'.pausedUntil = AP!PauseEnd(rep, now)
      BY <1>0, <2>1, <2>4, AbsorbedReset
    <3>2. AP!PauseEnd(rep, now) <= now + Day
      <4>1. AP!PauseEnd(rep, now) \in {rep.reset, now + rep.retry, now + Hour}
            /\ (AP!PauseEnd(rep, now) = rep.reset => rep.reset # AP!Absent)
        BY <1>0, <2>1, AP!PauseEndReal DEF AP!PauseEnd, AP!Absent
      <4>2. CASE AP!PauseEnd(rep, now) = rep.reset
        BY <1>0, <1>2, <2>3, <4>1, <4>2
      <4>3. CASE AP!PauseEnd(rep, now) = now + rep.retry
        BY <1>0, <4>3 DEF QuotaInv, AP!Absent
      <4>4. CASE AP!PauseEnd(rep, now) = now + Hour
        BY <1>0, <4>4
      <4> QED
        BY <4>1, <4>2, <4>3, <4>4
    <3> QED
      BY <2>1, <2>2, <3>1, <3>2 DEF QuotaInv
  <2>5. CASE rep.code # "limited"
    <3>1. /\ client'.pausedUntil = client.pausedUntil
          /\ client'.resetAt \in {client.resetAt, AP!NextMidnight(now), rep.reset} \ {AP!Absent}
      BY <1>0, <2>1, <2>5, AbsorbedReset
    <3>2. /\ client'.resetAt <= now + Day
          /\ \/ client'.resetAt = client'.pausedUntil
             \/ client'.resetAt <= now
             \/ client'.resetAt = AP!NextMidnight(now)
      BY <1>0, <1>1, <1>2, <2>3, <3>1 DEF QuotaInv
    <3> QED
      BY <2>1, <2>2, <3>2 DEF QuotaInv
  <2> QED
    BY <2>4, <2>5
<1>7. ASSUME NEW k \in Keys \cup {NoKey}, AP!SetApiKey(k)
      PROVE  QuotaInv'
  <2>1. client' = AP!Fresh(k) /\ now' = now /\ flight' = {}
    BY <1>7 DEF AP!SetApiKey
  <2> QED
    BY <1>0, <2>1, FreshQuota
<1>8. CASE AP!Tick
  <2>1. now' = now + 1 /\ client' = client /\ flight' = flight
        /\ \A rep \in flight : rep.sentAt = now
    BY <1>8 DEF AP!Tick
  <2>2. AP!NextMidnight(now) = now + 1 \/ AP!NextMidnight(now) = AP!NextMidnight(now + 1)
    BY <1>0, AP!MidnightStep
  <2>3. /\ client.resetAt <= now + 1 + Day
        /\ \/ client.resetAt = client.pausedUntil
           \/ client.resetAt <= now + 1
           \/ client.resetAt = AP!NextMidnight(now + 1)
    BY <1>0, <1>1, <1>2, <2>2 DEF QuotaInv
  <2>4. \A rep \in flight : rep.sentAt <= now + 1 /\ now + 1 <= rep.sentAt + 1
    BY <1>0, <2>1
  <2> QED
    BY <2>1, <2>3, <2>4 DEF QuotaInv
<1>9. CASE AP!Restart
  <2>1. client' = AP!Fresh(client.key) /\ now' = now /\ flight' = {}
    BY <1>9 DEF AP!Restart
  <2> QED
    BY <1>0, <1>1, <2>1, FreshQuota
<1>10. [AP!Next]_(AP!vars) \/ Crash
  BY ClientStep, SameClientStep DEF PartsInv
<1> QED
  BY <1>3, <1>4, <1>5, <1>6, <1>7, <1>8, <1>9, <1>10 DEF AP!Next, AP!AnyAsk, AP!AnyReceive

\* Rows deferred since the last reopening lie less than a day before the time it
\* was for; and a pass that did not reopen them had no reason to.
WaitInv ==
  /\ reopenedFor <= now + Day
  /\ \A r \in Q!RowsIn("deferred") : reopenedFor <= deferredAt[r] + Day
  /\ pc = "claim" /\ faults = 0 => Q!RowsIn("deferred") = {} \/ ~MayReopen(client)

(* A step that defers no row and leaves the loop where it does not look at  *)
(* deferred rows.                                                           *)
LEMMA WaitBystander ==
  ASSUME PartsInv, WaitInv,
         reopenedFor' = reopenedFor, deferredAt' = deferredAt,
         now' \in {now, now + 1},
         \A r \in Rows : status'[r] = "deferred" => status[r] = "deferred",
         \/ pc' # "claim"
         \/ pc' = pc /\ faults' = faults /\ client' = client
  PROVE  WaitInv'
<1>1. now \in Nat /\ Day \in Nat
  BY DEF PartsInv, AP!TypeInv, AP!TypeOK, A!ConstantsAssumption
<1>2. reopenedFor' <= now' + Day
  BY <1>1 DEF WaitInv, PartsInv
<1>3. Q!RowsIn("deferred")' \subseteq Q!RowsIn("deferred")
  BY DEF Q!RowsIn
<1>4. \A r \in Q!RowsIn("deferred")' : reopenedFor' <= deferredAt'[r] + Day
  BY <1>3 DEF WaitInv
<1>5. pc' = "claim" /\ faults' = 0 => Q!RowsIn("deferred")' = {} \/ ~MayReopen(client')
  BY <1>3 DEF WaitInv
<1>6. MayReopen(client)' <=> MayReopen(client')
  BY DEF MayReopen, A!QuotaKnown, A!Never
<1> QED
  BY <1>2, <1>4, <1>5, <1>6 DEF WaitInv

LEMMA WaitStep ==
  Q!TypeOK /\ PartsInv /\ QuotaInv /\ WaitInv /\ [Next]_vars => WaitInv'
<1> SUFFICES ASSUME Q!TypeOK, PartsInv, QuotaInv, WaitInv, [Next]_vars PROVE WaitInv'
  OBVIOUS
<1> USE DEF history, counters
<1>0. /\ now \in Nat /\ Day \in Nat \ {0} /\ faults \in Nat /\ reopenedFor \in Nat
      /\ client.resetAt \in Nat /\ client.resetAt <= now + Day
  BY DEF PartsInv, QuotaInv, AP!TypeInv, AP!TypeOK, A!ConstantsAssumption
<1>1. ASSUME NEW k \in Keys \cup {NoKey}, TakeKey(k)
      PROVE  now' = now /\ (client' = client \/ client' = A!Fresh(k))
  BY <1>1 DEF TakeKey, clientVars, A!SetApiKey
<1>2. CASE TopReopens
  <2>1. PICK k \in Keys \cup {NoKey} :
          /\ TakeKey(k) /\ MayReopen(client') /\ reopenedFor' = client'.resetAt
          /\ Q!Reopen
    BY <1>2 DEF TopReopens
  <2>2. client' = client /\ now' = now
    BY <1>1, <2>1 DEF A!Fresh, MayReopen
  <2>3. Q!RowsIn("deferred")' = {}
    BY <2>1 DEF Q!RowsIn, Q!Reopen, Q!TypeOK
  <2>4. reopenedFor' <= now' + Day
    BY <1>0, <2>1, <2>2
  <2> QED
    BY <2>3, <2>4 DEF WaitInv
<1>3. CASE TopPasses
  <2>1. PICK k \in Keys \cup {NoKey} : TakeKey(k) /\ ~MayReopen(client')
    BY <1>3 DEF TopPasses
  <2>2. now' = now /\ UNCHANGED <<status, reopenedFor, deferredAt>>
    BY <1>1, <1>3, <2>1 DEF TopPasses, Q!Pass, Q!table
  <2>3. MayReopen(client)' <=> MayReopen(client')
    BY <2>2 DEF MayReopen, A!QuotaKnown, A!Never
  <2> QED
    BY <2>1, <2>2, <2>3 DEF WaitInv, Q!RowsIn
<1>4. CASE TopCannotReopen
  <2>1. now' = now /\ UNCHANGED <<status, reopenedFor, deferredAt>>
    BY <1>4 DEF TopCannotReopen, Q!Pass, Q!table, clientVars, A!SetApiKey
  <2>2. faults' = faults + 1
    BY <1>4 DEF TopCannotReopen
  <2>3. ~(faults' = 0)
    BY <1>0, <2>2
  <2> QED
    BY <2>1, <2>3 DEF WaitInv, Q!RowsIn
<1>5. CASE LookupStep
  <2>1. UNCHANGED <<status, reopenedFor, deferredAt, now>> /\ pc' # "claim"
    <3>1. ASSUME NEW a \in Addrs,
                 SkipThreat(a) \/ LookupDisabled(a) \/ LookupRefused(a) \/ LookupAsks(a)
          PROVE  UNCHANGED <<status, reopenedFor, deferredAt, now>> /\ pc' # "claim"
      BY <3>1 DEF SkipThreat, LookupDisabled, LookupRefused, LookupAsks, A!AnyAsk, A!Ask,
                  clientVars, queueVars, Q!SkipThreat, Q!ThreatNothing, Q!ThreatExhausted,
                  Q!InLookup, Q!Learn
    <3>2. ASSUME NEW rep \in flight, LookupAnswered(rep)
          PROVE  UNCHANGED <<status, reopenedFor, deferredAt, now>> /\ pc' # "claim"
      BY <3>2 DEF LookupAnswered, A!Receive, Q!ThreatFound, Q!ThreatNothing,
                  Q!ThreatExhausted, Q!InLookup, Q!Learn
    <3> QED
      BY <1>5, <3>1, <3>2 DEF LookupStep
  <2> QED
    BY <2>1, WaitBystander
<1>6. CASE WriteBack
  <2>1. now' = now /\ reopenedFor' = reopenedFor /\ pc' # "claim"
    BY <1>6 DEF WriteBack, Q!WriteBack, clientVars
  <2>2. ASSUME NEW r \in Rows, status'[r] = "deferred"
        PROVE  reopenedFor <= deferredAt'[r] + Day
    <3>1. CASE r \in batch /\ Q!Defers(r)
      <4>1. deferredAt'[r] = now
        BY <1>6, <3>1 DEF WriteBack
      <4> QED
        BY <1>0, <4>1 DEF WaitInv
    <3>2. CASE ~(r \in batch /\ Q!Defers(r))
      <4>1. status[r] = "deferred" /\ deferredAt'[r] = deferredAt[r]
        BY <1>6, <2>2, <3>2 DEF WriteBack, Q!WriteBack, Q!Settled
      <4> QED
        BY <4>1 DEF WaitInv, Q!RowsIn
    <3> QED
      BY <3>1, <3>2
  <2> QED
    BY <1>0, <2>1, <2>2 DEF WaitInv, Q!RowsIn
<1>7. CASE QueueStep
  <2>1. \A r \in Rows : status'[r] = "deferred" => status[r] = "deferred"
    BY <1>7 DEF QueueStep, Q!Boot, Q!Released, Q!ClaimNothing, Q!WriteFails, Q!Announce,
                Q!Wake, Q!Claim, Q!Taken, Q!WriteCats, Q!Insert, Q!table, Q!TypeOK
  <2>2. UNCHANGED <<client, now, reopenedFor, deferredAt, faults>>
    BY <1>7 DEF QueueStep, clientVars
  <2>3. pc' # "claim" \/ pc' = pc
    BY <1>7 DEF QueueStep, Q!Boot, Q!ClaimNothing, Q!WriteFails, Q!Announce,
                Q!Wake, Q!Claim, Q!WriteCats, Q!Insert
  <2> QED
    BY <2>1, <2>2, <2>3, WaitBystander
<1>8. ASSUME NEW k \in Keys \cup {NoKey}, ChangeKey(k)
      PROVE  WaitInv'
  <2>1. UNCHANGED <<client, now, reopenedFor, deferredAt, faults, status, pc>>
    BY <1>8 DEF ChangeKey, queueVars, clientVars
  <2> QED
    BY <2>1, WaitBystander
<1>9. CASE Crash
  <2>1. UNCHANGED <<status, deferredAt, now>> /\ reopenedFor' = 0 /\ pc' = "boot"
    BY <1>9 DEF Crash, Q!Crash, Q!table, A!Never
  <2>2. deferredAt \in [Rows -> Nat]
    BY DEF PartsInv
  <2> QED
    BY <1>0, <2>1, <2>2 DEF WaitInv, Q!RowsIn
<1>10. CASE Tick
  <2>1. now' = now + 1
        /\ UNCHANGED <<client, reopenedFor, deferredAt, faults, status, pc>>
    BY <1>10 DEF Tick, A!Tick, queueVars
  <2> QED
    BY <2>1, WaitBystander
<1>11. CASE UNCHANGED vars
  <2>1. UNCHANGED <<client, now, reopenedFor, deferredAt, faults, status, pc>>
    BY <1>11 DEF vars, queueVars, clientVars
  <2> QED
    BY <2>1, WaitBystander
<1> QED
  BY <1>2, <1>3, <1>4, <1>5, <1>6, <1>7, <1>8, <1>9, <1>10, <1>11 DEF Next

(* Without a reopening there is news only if the reset time is another.     *)
NewsInv == ~news => client.resetAt \in {A!Never, reopenedFor}

LEMMA NewsStep ==
  NewsInv /\ [Next]_vars => NewsInv' /\ (TopReopens => news)
<1> SUFFICES ASSUME NewsInv, [Next]_vars PROVE NewsInv' /\ (TopReopens => news)
  OBVIOUS
<1> USE DEF NewsInv, history, counters
<1>0. \A k : A!Fresh(k).resetAt = A!Never
  BY DEF A!Fresh
<1>1. ASSUME NEW k \in Keys \cup {NoKey}, TakeKey(k)
      PROVE  client' = client \/ client'.resetAt = A!Never
  BY <1>0, <1>1 DEF TakeKey, clientVars, A!SetApiKey
<1>2. CASE TopReopens
  <2>1. PICK k \in Keys \cup {NoKey} :
          TakeKey(k) /\ MayReopen(client') /\ reopenedFor' = client'.resetAt
    BY <1>2 DEF TopReopens
  <2>2. client' = client
    BY <1>1, <2>1 DEF MayReopen
  <2> QED
    BY <2>1, <2>2 DEF MayReopen
<1>3. ASSUME ~TopReopens PROVE NewsInv'
  <2>1. CASE TopPasses
    BY <1>1, <1>3, <2>1 DEF TopPasses
  <2>2. CASE TopCannotReopen
    BY <1>0, <1>3, <2>2 DEF TopCannotReopen, clientVars, A!SetApiKey
  <2>3. ASSUME NEW a \in Addrs,
               SkipThreat(a) \/ LookupDisabled(a) \/ LookupRefused(a) \/ LookupAsks(a)
        PROVE  NewsInv'
    <3>1. client' = client \/ client'.resetAt = A!Never
      BY <1>0, <2>3 DEF SkipThreat, LookupDisabled, LookupRefused, LookupAsks, A!AnyAsk,
                        A!Ask, A!ClearAfterReset, clientVars
    <3>2. UNCHANGED <<news, reopenedFor>>
      BY <2>3 DEF SkipThreat, LookupDisabled, LookupRefused, LookupAsks
    <3> QED
      BY <3>1, <3>2
  <2>4. ASSUME NEW rep \in flight, LookupAnswered(rep)
        PROVE  NewsInv'
    BY <2>4 DEF LookupAnswered
  <2>5. CASE QueueStep \/ WriteBack \/ (\E k \in Keys \cup {NoKey} : ChangeKey(k))
    BY <2>5 DEF QueueStep, WriteBack, ChangeKey, clientVars
  <2>6. CASE Crash
    BY <1>0, <2>6 DEF Crash
  <2>7. CASE Tick
    BY <2>7 DEF Tick, A!Tick
  <2>8. CASE UNCHANGED vars
    BY <2>8 DEF vars, clientVars
  <2> QED
    BY <1>3, <2>1, <2>2, <2>3, <2>4, <2>5, <2>6, <2>7, <2>8 DEF Next, LookupStep
<1> QED
  BY <1>2, <1>3

(* What the invariants are for.                                             *)
LEMMA NoWindowPassed ==
  PartsInv /\ QuotaInv /\ WaitInv => NoWindowPassesOver
<1> SUFFICES ASSUME PartsInv, QuotaInv, WaitInv, pc = "claim", faults = 0, QuotaInForce,
                    NEW r \in Q!RowsIn("deferred")
             PROVE  A!NextMidnight(deferredAt[r]) > now
  BY DEF NoWindowPassesOver
<1>1. /\ client.resetAt \in Nat /\ client.remaining \in Int /\ now \in Nat
      /\ client.pausedUntil \in Nat
      /\ deferredAt[r] \in Nat
  BY DEF PartsInv, AP!TypeInv, AP!TypeOK, Q!RowsIn
<1>2. client.key # NoKey
  BY <1>1 DEF QuotaInv, QuotaInForce
<1>3. client.resetAt = AP!NextMidnight(now)
  BY <1>1 DEF QuotaInv, QuotaInForce
<1>4. reopenedFor = client.resetAt
  BY <1>1, <1>2 DEF WaitInv, MayReopen, A!QuotaKnown, QuotaInForce, A!Never
<1>5. AP!NextMidnight(now) <= deferredAt[r] + Day
  BY <1>3, <1>4 DEF WaitInv
<1> QED
  BY <1>1, <1>5, AP!SameDay, SameClientOps

-----------------------------------------------------------------------------
(* Whatever the service, the operator and the crashes do, the worker and    *)
(* the client keep their types, and a request under way belongs to the      *)
(* address the worker waits for.                                            *)
THEOREM Typing == Spec => []TypeOK
<1>1. Q!TypeOK /\ PartsInv => TypeOK
  <2>1. AP!TypeOK => A!TypeOK
    BY DEF AP!TypeOK, A!TypeOK
  <2> QED
    BY <2>1 DEF PartsInv, AP!TypeInv, TypeOK
<1> QED
  BY <1>1, PartsInit, PartsStep, QueueTypes, PTL DEF Spec

(* Rows deferred on an earlier day are in the queue again once the worker   *)
(* has passed the top of its loop knowing of quota that is in force: the    *)
(* reset time of today has never been reopened for before today             *)
(* (worker.rs:447-448, 603-627).                                            *)
THEOREM NoWindowIsPassedOver == Spec => []NoWindowPassesOver
<1>1. Init => QuotaInv /\ WaitInv
  <2> SUFFICES ASSUME Init PROVE QuotaInv /\ WaitInv
    OBVIOUS
  <2>1. PICK k \in Keys \cup {NoKey} : client = A!Fresh(k)
    BY DEF Init, A!Init
  <2>2. client.resetAt = 0 /\ client.remaining = -1 /\ now = 1 /\ flight = {}
        /\ reopenedFor = 0 /\ pc = "boot" /\ Day \in Nat
    BY <2>1 DEF Init, A!Init, Q!Init, A!Fresh, A!Never, A!Unknown, A!ConstantsAssumption
  <2>3. \A r \in Rows : status[r] # "deferred"
    BY DEF Init, Q!Init
  <2> QED
    BY <2>2, <2>3 DEF QuotaInv, WaitInv, Q!RowsIn
<1>2. PartsInv /\ QuotaInv /\ [Next]_vars => QuotaInv'
  BY QuotaStep
<1>3. Q!TypeOK /\ PartsInv /\ QuotaInv /\ WaitInv /\ [Next]_vars => WaitInv'
  BY WaitStep
<1>4. PartsInv /\ QuotaInv /\ WaitInv => NoWindowPassesOver
  BY NoWindowPassed
<1> QED
  BY <1>1, <1>2, <1>3, <1>4, PartsInit, PartsStep, QueueTypes, PTL DEF Spec

(* Deferred rows are reopened only after a reply was read since the last    *)
(* time: no pass reopens what it, or the one before, has deferred with      *)
(* nothing learned in between (worker.rs:603-627).                          *)
THEOREM ReopeningNeedsNews == Spec => ReopenNeedsNews
<1>1. Init => NewsInv
  BY DEF Init, A!Init, A!Fresh, NewsInv
<1>2. NewsInv /\ [Next]_vars => NewsInv' /\ [TopReopens => news]_vars
  BY NewsStep
<1> QED
  BY <1>1, <1>2, PTL DEF Spec, ReopenNeedsNews
=============================================================================
