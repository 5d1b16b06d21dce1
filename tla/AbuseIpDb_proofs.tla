---------------------------- MODULE AbuseIpDb_proofs ----------------------------
(***************************************************************************)
(* What is proved of the AbuseIPDB client, for every set of keys, every    *)
(* length of a day and of a pause, and every quota:                        *)
(*   Typing             its counters keep their types                      *)
(*   ExhaustionHasAnEnd a zero always comes with the time it ends          *)
(*   PauseIsRespected   within one process a pause is kept                 *)
(*   RefusalsJustified  no lookup is refused that the service would grant, *)
(*                      while the zero in force has an end it named        *)
(***************************************************************************)
EXTENDS AbuseIpDb, TLAPS

ClientType == [key : Keys \cup {NoKey}, remaining : Int, resetAt : Nat, pausedUntil : Nat]

ReplyType == [code : {"ok", "limited", "failed"}, remaining : {Absent} \cup Nat,
              reset : {Absent} \cup (Nat \ {0}), retry : {Absent} \cup (Nat \ {0}),
              sentAt : Nat]

-----------------------------------------------------------------------------
(* Arithmetic of midnights.                                                *)

(* Multiples of a day lie at least a day apart (next_utc_midnight).         *)
LEMMA DaysApart ==
  ASSUME NEW p \in Int, NEW q \in Int, p < q
  PROVE  Day * p + Day <= Day * q
<1>1. p + 1 <= q
  OBVIOUS
<1>2. Day * (p + 1) <= Day * q
  BY <1>1, ConstantsAssumption
<1>3. Day * (p + 1) = Day * p + Day
  BY ConstantsAssumption
<1> QED
  BY <1>2, <1>3, ConstantsAssumption

(* An instant is in one place of one day only (next_utc_midnight).          *)
LEMMA DayUnique ==
  ASSUME NEW p \in Int, NEW q \in Int,
         NEW r \in 0..(Day - 1), NEW s \in 0..(Day - 1),
         Day * p + r = Day * q + s
  PROVE  p = q /\ r = s
<1>0. Day * p \in Int /\ Day * q \in Int
  BY ConstantsAssumption
<1>1. CASE p < q
  BY <1>0, <1>1, DaysApart, ConstantsAssumption
<1>2. CASE q < p
  BY <1>0, <1>2, DaysApart, ConstantsAssumption
<1>3. CASE p = q
  BY <1>0, <1>3, ConstantsAssumption
<1> QED
  BY <1>1, <1>2, <1>3

(* Every instant lies in a day (next_utc_midnight).                         *)
LEMMA DayOfInstant ==
  ASSUME NEW t \in Nat
  PROVE  t = Day * (t \div Day) + (t % Day) /\ t % Day \in 0..(Day - 1) /\ t \div Day \in Nat
  BY ConstantsAssumption

(* The next midnight lies in the future (next_utc_midnight).                *)
LEMMA MidnightLater ==
  ASSUME NEW t \in Nat
  PROVE  NextMidnight(t) \in Nat /\ NextMidnight(t) > t
  BY ConstantsAssumption DEF NextMidnight

(* A tick either reaches the next midnight or leaves it where it was: the   *)
(* service refills exactly when next_utc_midnight() moves on.               *)
LEMMA MidnightStep ==
  ASSUME NEW t \in Nat
  PROVE  /\ (t + 1) % Day # 0 => NextMidnight(t + 1) = NextMidnight(t)
         /\ (t + 1) % Day = 0 => NextMidnight(t) = t + 1
<1> DEFINE q == t \div Day         r == t % Day
           p == (t + 1) \div Day   s == (t + 1) % Day
<1>1. t = Day * q + r /\ r \in 0..(Day - 1) /\ q \in Nat
  BY DayOfInstant
<1>2. t + 1 = Day * p + s /\ s \in 0..(Day - 1) /\ p \in Nat
  BY DayOfInstant
<1> HIDE DEF q, r, p, s
<1>3. Day * q \in Int /\ Day * p \in Int
  BY <1>1, <1>2, ConstantsAssumption
<1>4. CASE s # 0
  <2>1. Day * p + (s - 1) = Day * q + r /\ s - 1 \in 0..(Day - 1)
    BY <1>1, <1>2, <1>3, <1>4, ConstantsAssumption
  <2>2. p = q
    BY <2>1, <1>1, <1>2, DayUnique
  <2> QED
    BY <2>2, <1>4 DEF NextMidnight, p, q, s
<1>5. CASE s = 0
  <2>1. Day * (p - 1) = Day * p - Day
    BY <1>2, ConstantsAssumption
  <2>2. Day * (p - 1) + (Day - 1) = Day * q + r
    BY <1>1, <1>2, <1>3, <1>5, <2>1, ConstantsAssumption
  <2>3. p - 1 = q
    BY <2>2, <1>1, <1>2, DayUnique, ConstantsAssumption
  <2>4. (q + 1) * Day = Day * p
    BY <2>3, <1>1, <1>2, ConstantsAssumption
  <2> QED
    BY <2>4, <1>2, <1>3, <1>5 DEF NextMidnight, p, q, s
<1> QED
  BY <1>4, <1>5

(* The next midnight is at most a day away (next_utc_midnight).             *)
LEMMA MidnightSoon ==
  ASSUME NEW t \in Nat
  PROVE  NextMidnight(t) <= t + Day
<1> DEFINE q == t \div Day   r == t % Day
<1>1. t = Day * q + r /\ r \in 0..(Day - 1) /\ q \in Nat
  BY DayOfInstant
<1>2. NextMidnight(t) = (q + 1) * Day
  BY DEF NextMidnight
<1> HIDE DEF q, r
<1>3. (q + 1) * Day = Day * q + Day /\ Day * q \in Int
  BY <1>1, ConstantsAssumption
<1> QED
  BY <1>1, <1>2, <1>3, ConstantsAssumption

(* Less than a day before a midnight to come it is the same day.            *)
LEMMA SameDay ==
  ASSUME NEW s \in Nat, NEW t \in Nat, NextMidnight(t) <= s + Day
  PROVE  NextMidnight(s) > t
<1> DEFINE p == s \div Day   v == s % Day
           q == t \div Day   r == t % Day
<1>1. /\ s = Day * p + v /\ v \in 0..(Day - 1) /\ p \in Nat
      /\ t = Day * q + r /\ r \in 0..(Day - 1) /\ q \in Nat
  BY DayOfInstant
<1>2. NextMidnight(t) = (q + 1) * Day /\ NextMidnight(s) = (p + 1) * Day
  BY DEF NextMidnight
<1> HIDE DEF p, q, r, v
<1>3. /\ (q + 1) * Day = Day * q + Day /\ Day * q \in Int
      /\ (p + 1) * Day = Day * p + Day /\ Day * p \in Int
  BY <1>1, ConstantsAssumption
<1>4. ~(p < q)
  BY <1>1, <1>2, <1>3, DaysApart, ConstantsAssumption
<1>5. Day * q <= Day * p
  BY <1>1, <1>3, <1>4, DaysApart, ConstantsAssumption
<1> QED
  BY <1>1, <1>2, <1>3, <1>5, ConstantsAssumption

-----------------------------------------------------------------------------
(* The operators on the counters.                                          *)

(* clear_after_reset() gives back a client: the same, or one that knows     *)
(* nothing but its key.                                                     *)
LEMMA ClearType ==
  ASSUME NEW c \in ClientType, NEW t \in Nat
  PROVE  /\ ClearAfterReset(c, t) \in ClientType
         /\ ClearAfterReset(c, t).key = c.key
  BY DEF ClearAfterReset, Fresh, ClientType, Unknown, Never, LaterOf

(* A lookup that is refused has not been cleared: the two never happen at   *)
(* once (lookup, abuseipdb.rs:124-128).                                     *)
LEMMA RefusedUncleared ==
  ASSUME NEW c \in ClientType, NEW t \in Nat, Refuses(c, t)
  PROVE  ClearAfterReset(c, t) = c
  BY DEF Refuses, ClearAfterReset, Paused, Fresh, ClientType, Unknown, Never, LaterOf

(* A lookup that goes through leaves no pause and no zero behind.           *)
LEMMA AskedUnpaused ==
  ASSUME NEW c \in ClientType, NEW t \in Nat, ~Refuses(c, t)
  PROVE  /\ c.pausedUntil <= t
         /\ ClearAfterReset(c, t).pausedUntil <= t
         /\ ClearAfterReset(c, t).remaining # 0
  BY DEF Refuses, ClearAfterReset, Paused, Fresh, ClientType, Unknown, Never, LaterOf

(* Any reply that names a time names one after the epoch.                   *)
LEMMA ReplyTyped ==
  ASSUME NEW rep \in Reply, now \in Nat
  PROVE  rep \in ReplyType
<1>1. NextMidnight(now) \in Nat \ {0}
  BY MidnightLater
<1> QED
  BY <1>1, ConstantsAssumption DEF Reply, ReplyType, Absent

(* The end of a pause is a real time, never the sentinel for "unknown".     *)
LEMMA PauseEndReal ==
  ASSUME NEW rep \in ReplyType, NEW t \in Nat
  PROVE  PauseEnd(rep, t) \in Nat \ {0}
  BY ConstantsAssumption DEF PauseEnd, ReplyType, Absent

(* What lookup() does to the counters when it reads a reply, field by       *)
(* field.  The last line is the rule that a zero gets an end.               *)
LEMMA AbsorbFields ==
  ASSUME NEW c \in ClientType, NEW rep \in ReplyType, NEW t \in Nat
  PROVE  /\ Absorb(c, rep, t) \in ClientType
         /\ Absorb(c, rep, t).key = c.key
         /\ Absorb(c, rep, t).remaining =
              IF rep.remaining = Absent THEN c.remaining ELSE rep.remaining
         /\ rep.code = "limited" =>
              /\ Absorb(c, rep, t).resetAt = PauseEnd(rep, t)
              /\ Absorb(c, rep, t).pausedUntil = PauseEnd(rep, t)
         /\ rep.code # "limited" =>
              /\ Absorb(c, rep, t).pausedUntil = c.pausedUntil
              /\ rep.reset # Absent => Absorb(c, rep, t).resetAt = rep.reset
         /\ Absorb(c, rep, t).remaining = 0 => Absorb(c, rep, t).resetAt # Never
<1> DEFINE rem   == IF rep.remaining = Absent THEN c.remaining ELSE rep.remaining
           named == IF rep.reset = Absent THEN c.resetAt ELSE rep.reset
           reset == IF rem = 0 /\ named = Never THEN NextMidnight(t) ELSE named
           read  == [c EXCEPT !.remaining = rem, !.resetAt = reset]
<1>1. NextMidnight(t) \in Nat \ {0}
  BY MidnightLater
<1> DEFINE end == PauseEnd(rep, t)
<1>2. end \in Nat \ {0}
  BY PauseEndReal
<1>3. rem \in Int /\ named \in Nat
  BY DEF ClientType, ReplyType, Absent
<1>4. /\ reset \in Nat
      /\ rem = 0 => reset # Never
      /\ rep.reset # Absent => reset = rep.reset
  BY <1>1, <1>3 DEF Never, ReplyType, Absent
<1>5. AbsorbHeaders(c, rep, t) = read
  BY DEF AbsorbHeaders
<1> HIDE DEF rem, named, reset
<1>6. /\ read \in ClientType /\ read.key = c.key /\ read.remaining = rem
      /\ read.resetAt = reset /\ read.pausedUntil = c.pausedUntil
  BY <1>3, <1>4 DEF ClientType
<1> HIDE DEF read
<1>7. CASE rep.code = "limited"
  <2> DEFINE put == [read EXCEPT !.resetAt = end, !.pausedUntil = end]
  <2>1. Absorb(c, rep, t) = put
    BY <1>5, <1>7 DEF Absorb
  <2> HIDE DEF end
  <2>2. /\ put \in ClientType /\ put.key = read.key
        /\ put.remaining = read.remaining
        /\ put.resetAt = end /\ put.pausedUntil = end
    BY <1>2, <1>6 DEF ClientType
  <2> QED
    BY <2>1, <2>2, <1>2, <1>6, <1>7 DEF rem, Never, end
<1>8. CASE rep.code # "limited"
  <2>1. Absorb(c, rep, t) = read
    BY <1>5, <1>8 DEF Absorb
  <2> QED
    BY <2>1, <1>4, <1>6, <1>8 DEF rem
<1> QED
  BY <1>7, <1>8

-----------------------------------------------------------------------------
(* Types, and the end of a zero.                                           *)

FlightOK == flight \subseteq ReplyType
TypeInv  == TypeOK /\ FlightOK /\ ExhaustionEnds

(* The external service refills and counts in whole requests.               *)
LEMMA LeftTyped ==
  ASSUME left \in [Keys -> Nat], NEW k \in Keys, NEW rep \in ReplyType,
         NEW n \in LeftAfter(rep, k)
  PROVE  n \in Nat
  BY DEF LeftAfter, ReplyType

(* A new client knows nothing: neither a pause nor a quota.                 *)
LEMMA FreshFields ==
  ASSUME NEW k \in Keys \cup {NoKey}
  PROVE  /\ Fresh(k) \in ClientType /\ Fresh(k).key = k /\ Fresh(k).remaining # 0
         /\ Fresh(k).resetAt = Never /\ Fresh(k).pausedUntil = Never
  BY DEF Fresh, ClientType, Unknown, Never

(* Reading a reply leaves a client, and a zero with its end.                *)
LEMMA ReceiveKeeps ==
  ASSUME client \in ClientType, now \in Nat, NEW rep \in ReplyType, Receive(rep)
  PROVE  client' \in ClientType /\ (client'.remaining = 0 => client'.resetAt # Never)
<1>1. client' = Absorb(client, rep, now)
  BY DEF Receive
<1> QED
  BY <1>1, AbsorbFields

(* The inductive step behind Typing and ExhaustionHasAnEnd: only reading a  *)
(* reply can bring a zero, and it brings its end with it.                   *)
LEMMA TypeInvStep == TypeInv /\ [Next]_vars => TypeInv'
<1> SUFFICES ASSUME TypeInv, [Next]_vars
             PROVE  TypeInv'
  OBVIOUS
<1> USE DEF TypeInv, TypeOK, FlightOK, ExhaustionEnds
<1>0. client \in ClientType /\ now \in Nat /\ restarts \in Nat /\ restarts \in 0..restarts
  BY ConstantsAssumption DEF ClientType
<1>1. ASSUME NEW rep \in Reply, Ask(rep)
      PROVE  TypeInv'
  <2>1. rep \in ReplyType
    BY ReplyTyped
  <2>2. client.key \in Keys
    BY <1>0, <1>1 DEF Ask, ClientType
  <2>3. left' \in [Keys -> Nat]
    BY <1>1, <2>1, <2>2, LeftTyped DEF Ask
  <2>4. client' \in ClientType /\ client'.remaining # 0
    BY <1>0, <1>1, ClearType, AskedUnpaused DEF Ask
  <2>5. flight' = {rep} /\ UNCHANGED <<now, promised, guessed, restarts>>
    BY <1>1 DEF Ask
  <2> QED
    BY <1>0, <2>1, <2>3, <2>4, <2>5 DEF ClientType, ReplyType
<1>2. ASSUME NEW rep \in flight, Receive(rep)
      PROVE  TypeInv'
  <2>1. rep \in ReplyType
    OBVIOUS
  <2>2. client' \in ClientType /\ (client'.remaining = 0 => client'.resetAt # Never)
    BY <1>0, <1>2, <2>1, ReceiveKeeps
  <2>3. promised' \in [until : Nat, by : 0..restarts]
    BY <1>0, <1>2, <2>1, PauseEndReal DEF Receive
  <2>4. flight' = {} /\ UNCHANGED <<now, left, restarts>> /\ guessed' \in BOOLEAN
    BY <1>2 DEF Receive, Guesses
  <2> QED
    BY <1>0, <2>2, <2>3, <2>4 DEF ClientType
<1>3. ASSUME NEW k \in Keys \cup {NoKey}, SetApiKey(k)
      PROVE  TypeInv'
  <2>1. client' \in ClientType /\ client'.remaining # 0
    BY <1>3, FreshFields DEF SetApiKey
  <2>2. promised' \in [until : Nat, by : 0..restarts] /\ guessed' \in BOOLEAN
    BY <1>0, <1>3 DEF SetApiKey, Never
  <2>3. UNCHANGED <<now, flight, left, restarts>>
    BY <1>3 DEF SetApiKey
  <2> QED
    BY <1>0, <2>1, <2>2, <2>3 DEF ClientType
<1>4. CASE Restart
  <2>1. client' \in ClientType /\ client'.remaining # 0
    BY <1>0, <1>4, FreshFields DEF Restart, ClientType
  <2>2. promised' \in [until : Nat, by : 0..restarts'] /\ restarts' \in 0..MaxRestarts
    BY <1>4, ConstantsAssumption DEF Restart
  <2>3. flight' = {} /\ guessed' \in BOOLEAN /\ UNCHANGED <<now, left>>
    BY <1>4 DEF Restart
  <2> QED
    BY <1>0, <2>1, <2>2, <2>3 DEF ClientType
<1>5. CASE Tick
  BY <1>0, <1>5, ConstantsAssumption DEF Tick
<1>6. CASE UNCHANGED vars
  BY <1>6 DEF vars
<1> QED
  BY <1>1, <1>2, <1>3, <1>4, <1>5, <1>6 DEF Next, AnyAsk, AnyReceive

(* A client starts out knowing nothing.                                     *)
LEMMA TypeInvInit == Init => TypeInv
<1> SUFFICES ASSUME Init
             PROVE  TypeInv
  OBVIOUS
<1> USE DEF Init
<1>1. client \in ClientType /\ client.remaining # 0
  BY FreshFields
<1>2. promised \in [until : Nat, by : 0..restarts] /\ restarts \in 0..MaxRestarts
  BY ConstantsAssumption DEF Never
<1>3. now \in Nat /\ left \in [Keys -> Nat] /\ guessed \in BOOLEAN
  BY ConstantsAssumption
<1> QED
  BY <1>1, <1>2, <1>3 DEF TypeInv, TypeOK, FlightOK, ExhaustionEnds, ClientType

LEMMA TypeInvariance == Spec => []TypeInv
<1> QED
  BY TypeInvInit, TypeInvStep, PTL DEF Spec

(* The counters of the client keep their types, whatever the service says.  *)
THEOREM Typing == Spec => []TypeOK
  BY TypeInvariance, PTL DEF TypeInv

(* A zero never stands without the time it ends: no lookup is blocked by a  *)
(* quota that nothing would ever renew (abuseipdb.rs:167-173).              *)
THEOREM ExhaustionHasAnEnd == Spec => []ExhaustionEnds
  BY TypeInvariance, PTL DEF TypeInv

-----------------------------------------------------------------------------
(* The pause.                                                              *)

PauseInv ==
  promised.by = restarts => promised.until <= now \/ promised.until <= client.pausedUntil

Respected == AnyAsk /\ promised.by = restarts => promised.until <= now

(* One process remembers what it was asked to wait for: only reading a 429  *)
(* moves the promise, and it moves the pause with it; what another process  *)
(* was told does not count.                                                 *)
LEMMA PauseStep ==
  ASSUME TypeInv, PauseInv, [Next]_vars
  PROVE  PauseInv' /\ Respected
<1> USE DEF PauseInv, Respected
<1>0. /\ client \in ClientType /\ now \in Nat /\ restarts \in Nat
      /\ promised \in [until : Nat, by : 0..restarts]
  BY ConstantsAssumption DEF TypeInv, TypeOK, ClientType
<1>1. ASSUME NEW rep \in Reply, Ask(rep)
      PROVE  (promised.by = restarts => promised.until <= now) /\ PauseInv'
  <2>1. client.pausedUntil <= now /\ client.pausedUntil \in Nat
    BY <1>0, <1>1, AskedUnpaused DEF Ask, ClientType
  <2> QED
    BY <1>0, <1>1, <2>1 DEF Ask
<1>2. ASSUME NEW rep \in flight, Receive(rep)
      PROVE  PauseInv'
  <2>1. rep \in ReplyType
    BY DEF TypeInv, FlightOK
  <2>2. CASE rep.code = "limited"
    <3>1. client'.pausedUntil = PauseEnd(rep, now)
      BY <1>0, <1>2, <2>1, <2>2, AbsorbFields DEF Receive
    <3>2. promised'.until = PauseEnd(rep, now) /\ PauseEnd(rep, now) \in Nat
      BY <1>0, <1>2, <2>1, <2>2, PauseEndReal DEF Receive
    <3> QED
      BY <3>1, <3>2
  <2>3. CASE rep.code # "limited"
    <3>1. client'.pausedUntil = client.pausedUntil
      BY <1>0, <1>2, <2>1, <2>3, AbsorbFields DEF Receive
    <3>2. UNCHANGED <<promised, now, restarts>>
      BY <1>2, <2>3 DEF Receive
    <3> QED
      BY <3>1, <3>2
  <2> QED
    BY <2>2, <2>3
<1>3. ASSUME NEW k \in Keys \cup {NoKey}, SetApiKey(k)
      PROVE  PauseInv'
  BY <1>0, <1>3 DEF SetApiKey, Never
<1>4. ASSUME Restart
      PROVE  PauseInv'
  BY <1>0, <1>4 DEF Restart
<1>5. ASSUME Tick
      PROVE  PauseInv'
  BY <1>0, <1>5 DEF Tick, ClientType
<1>6. ASSUME UNCHANGED vars
      PROVE  PauseInv'
  BY <1>6 DEF vars
<1>7. PauseInv'
  BY <1>1, <1>2, <1>3, <1>4, <1>5, <1>6 DEF Next, AnyAsk, AnyReceive
<1> QED
  BY <1>1, <1>7 DEF AnyAsk

(* After a 429 the process that read it sends nothing before the time it    *)
(* was told, as long as the key stays (abuseipdb.rs:56-62, 175-186).  A new *)
(* process knows nothing of it.                                             *)
THEOREM PauseIsRespected == Spec => RespectsPause
<1>1. Init => PauseInv
  BY DEF Init, PauseInv, Never
<1>2. TypeInv /\ PauseInv /\ [Next]_vars => PauseInv'
  BY PauseStep
<1>3. TypeInv /\ PauseInv /\ [Next]_vars =>
        [AnyAsk /\ promised.by = restarts => promised.until <= now]_vars
  BY PauseStep DEF Respected
<1> QED
  BY <1>1, <1>2, <1>3, TypeInvariance, PTL DEF Spec, RespectsPause

-----------------------------------------------------------------------------
(* Refusals.                                                               *)

\* A reply under way says what the service still grants, until midnight.
FlightTrue ==
  \A rep \in flight :
    /\ client.key \in Keys /\ client.remaining # 0 /\ client.pausedUntil <= now
    /\ rep.sentAt <= now /\ now <= rep.sentAt + 1
    /\ rep.reset # Absent => rep.reset = NextMidnight(rep.sentAt)
    /\ client.resetAt <= NextMidnight(rep.sentAt)
    /\ rep.remaining # Absent /\ NextMidnight(rep.sentAt) > now
         => left[client.key] = rep.remaining

\* What is remembered beyond the next midnight is the end of a pause.
ResetSoon ==
  client.resetAt = client.pausedUntil \/ client.resetAt <= NextMidnight(now)

\* A remembered zero is a pause, or a guess, or it is true until it ends.
ZeroTrue ==
  client.remaining = 0 /\ client.key # NoKey /\ ~guessed =>
    \/ client.pausedUntil = client.resetAt
    \/ client.resetAt > now => left[client.key] = 0

RefusalInv == FlightTrue /\ ResetSoon /\ ZeroTrue

(* The next midnight never moves back (next_utc_midnight).                  *)
LEMMA MidnightMonotone ==
  ASSUME NEW t \in Nat
  PROVE  NextMidnight(t) <= NextMidnight(t + 1)
  BY MidnightStep, MidnightLater

(* What the invariant is for: a refusal outside a pause rests on a zero     *)
(* that is still true.                                                      *)
LEMMA RefusalInvImplies == TypeInv /\ RefusalInv => RefusalIsJustified
<1> SUFFICES ASSUME TypeInv, RefusalInv, client.key # NoKey,
                    Refuses(client, now), ~Paused(client, now), ~guessed
             PROVE  left[client.key] = 0
  BY DEF RefusalIsJustified
<1>0. client \in ClientType /\ now \in Nat
  BY DEF TypeInv, TypeOK, ClientType
<1>1. ClearAfterReset(client, now) = client
  BY <1>0, RefusedUncleared
<1>2. client.remaining = 0
  BY <1>1 DEF Refuses
<1>3. client.resetAt # Never
  BY <1>2 DEF TypeInv, ExhaustionEnds
<1>4. client.pausedUntil <= now
  BY <1>0 DEF Paused, ClientType
<1>5. client.resetAt > now
  <2> SUFFICES ASSUME client.resetAt <= now
               PROVE  FALSE
    BY <1>0 DEF ClientType
  <2>1. ClearAfterReset(client, now) = Fresh(client.key)
    BY <1>0, <1>3, <1>4 DEF ClearAfterReset, LaterOf, ClientType, Never
  <2> QED
    BY <1>0, <1>1, <1>2, <2>1, FreshFields DEF ClientType
<1> QED
  BY <1>0, <1>2, <1>4, <1>5 DEF RefusalInv, ZeroTrue, ClientType

(* A lookup that goes through knows of no reset beyond the next midnight:   *)
(* a longer one is the end of a pause, and that is over and forgotten.      *)
LEMMA AskedResetSoon ==
  ASSUME client \in ClientType, now \in Nat, ResetSoon, ~Refuses(client, now)
  PROVE  ClearAfterReset(client, now).resetAt <= NextMidnight(now)
<1>1. NextMidnight(now) \in Nat
  BY MidnightLater
<1> QED
  BY <1>1, FreshFields, AskedUnpaused
  DEF ResetSoon, ClearAfterReset, Fresh, ClientType, LaterOf, Never

(* The inductive step.  Ask finds no pause and no zero; Receive takes over  *)
(* what the reply said; at the tick that refills the keys, both the zero    *)
(* and the reply run out of their day.                                      *)
LEMMA RefusalInvStep ==
  ASSUME TypeInv, RefusalInv, [Next]_vars
  PROVE  RefusalInv'
<1> USE DEF RefusalInv
<1>0. client \in ClientType /\ now \in Nat /\ left \in [Keys -> Nat]
  BY DEF TypeInv, TypeOK, ClientType
<1>1. ASSUME NEW rep \in Reply, Ask(rep)
      PROVE  RefusalInv'
  <2>1. rep \in ReplyType
    BY <1>0, ReplyTyped
  <2>2. /\ client'.key = client.key /\ client'.key \in Keys
        /\ client'.remaining # 0 /\ client'.pausedUntil <= now
    BY <1>0, <1>1, ClearType, AskedUnpaused DEF Ask, ClientType
  <2>3. PICK n \in LeftAfter(rep, client.key) :
          Truthful(rep, n) /\ left' = [left EXCEPT ![client.key] = n]
    BY <1>1 DEF Ask
  <2>4. left'[client.key] = n
    BY <1>0, <2>2, <2>3
  <2>5. rep.remaining # Absent => left'[client.key] = rep.remaining
    BY <2>3, <2>4 DEF Truthful
  <2>6. rep.sentAt = now /\ (rep.reset # Absent => rep.reset = NextMidnight(now))
    BY DEF Reply
  <2>7. flight' = {rep} /\ now' = now
    BY <1>1 DEF Ask
  <2>8. client'.resetAt <= NextMidnight(now)
    BY <1>0, <1>1, AskedResetSoon DEF Ask
  <2>9. FlightTrue'
    BY <1>0, <2>2, <2>5, <2>6, <2>7, <2>8 DEF FlightTrue
  <2> QED
    BY <2>2, <2>7, <2>8, <2>9 DEF ZeroTrue, ResetSoon
<1>2. ASSUME NEW rep \in flight, Receive(rep)
      PROVE  RefusalInv'
  <2>1. rep \in ReplyType /\ flight' = {} /\ UNCHANGED <<now, left>>
    BY <1>2 DEF Receive, TypeInv, FlightOK
  <2>2. client' = Absorb(client, rep, now) /\ guessed' = Guesses(client, rep)
    BY <1>2 DEF Receive
  <2>3. CASE rep.code = "limited"
    BY <1>0, <2>1, <2>2, <2>3, AbsorbFields DEF FlightTrue, ResetSoon, ZeroTrue
  <2>4. CASE rep.code # "limited"
    <3> DEFINE last == NextMidnight(rep.sentAt)
    <3>1. rep.sentAt \in Nat /\ (now = rep.sentAt \/ now = rep.sentAt + 1)
      BY <1>0, <2>1 DEF FlightTrue, ReplyType
    <3>2. last <= NextMidnight(now) /\ last \in Nat /\ NextMidnight(now) \in Nat
      BY <1>0, <3>1, MidnightMonotone, MidnightLater
    <3>3. now < last \/ now = last
      BY <1>0, <3>1, MidnightLater
    <3>4. client.resetAt <= last /\ client.resetAt \in Nat
      BY <1>0 DEF FlightTrue, ClientType
    <3>5. client'.resetAt \in {client.resetAt, last, NextMidnight(now)}
      BY <1>0, <2>1, <2>2, <2>4 DEF Absorb, AbsorbHeaders, ClientType, FlightTrue
    <3>6. ResetSoon'
      BY <1>0, <2>1, <3>2, <3>4, <3>5 DEF ResetSoon
    <3>7. ZeroTrue'
      <4> SUFFICES ASSUME client'.remaining = 0, ~guessed', client'.resetAt > now
                   PROVE  left[client'.key] = 0
        BY <2>1 DEF ZeroTrue
      <4>1. client.remaining # 0 /\ client'.key = client.key
        BY <1>0, <2>1, <2>2, AbsorbFields DEF FlightTrue
      <4>2. rep.remaining = 0
        BY <1>0, <2>1, <2>2, <4>1, AbsorbFields DEF ReplyType
      <4>3. client'.resetAt \in {client.resetAt, last}
        <5>1. ~Guesses(client, rep)
          BY <2>2
        <5>2. CASE rep.reset # Absent
          BY <1>0, <2>1, <2>2, <2>4, <5>2, AbsorbFields DEF FlightTrue
        <5>3. CASE rep.reset = Absent
          <6>1. client.resetAt # Never
            BY <2>4, <4>2, <5>1, <5>3 DEF Guesses
          <6> QED
            BY <1>0, <2>2, <2>4, <5>3, <6>1 DEF Absorb, AbsorbHeaders, ClientType
        <5> QED
          BY <5>2, <5>3
      <4>4. now < last
        BY <1>0, <3>2, <3>3, <3>4, <4>3
      <4> QED
        BY <4>1, <4>2, <4>4 DEF FlightTrue, Absent
    <3> QED
      BY <2>1, <3>6, <3>7 DEF FlightTrue
  <2> QED
    BY <2>3, <2>4
<1>3. ASSUME NEW k \in Keys \cup {NoKey}, SetApiKey(k)
      PROVE  RefusalInv'
  BY <1>3, FreshFields DEF SetApiKey, FlightTrue, ResetSoon, ZeroTrue
<1>4. ASSUME Restart
      PROVE  RefusalInv'
  BY <1>0, <1>4, FreshFields DEF Restart, FlightTrue, ResetSoon, ZeroTrue, ClientType
<1>5. ASSUME Tick
      PROVE  RefusalInv'
  <2>1. now' = now + 1 /\ client' = client /\ flight' = flight /\ guessed' = guessed
    BY <1>5 DEF Tick
  <2>2. NextMidnight(now) <= NextMidnight(now') /\ NextMidnight(now) \in Nat
    BY <1>0, <2>1, MidnightMonotone, MidnightLater
  <2>3. left' # left => NextMidnight(now) = now'
    BY <1>0, <1>5, <2>1, MidnightStep DEF Tick
  <2>4. FlightTrue'
    <3> SUFFICES ASSUME NEW rep \in flight
                 PROVE  /\ client.key \in Keys /\ client.remaining # 0
                        /\ client.pausedUntil <= now'
                        /\ rep.sentAt <= now' /\ now' <= rep.sentAt + 1
                        /\ rep.reset # Absent => rep.reset = NextMidnight(rep.sentAt)
                        /\ client.resetAt <= NextMidnight(rep.sentAt)
                        /\ rep.remaining # Absent /\ NextMidnight(rep.sentAt) > now'
                             => left'[client.key] = rep.remaining
      BY <2>1 DEF FlightTrue
    <3>1. rep.sentAt = now
      BY <1>5 DEF Tick
    <3>2. NextMidnight(now) > now' => left' = left /\ NextMidnight(now) > now
      BY <1>0, <2>1, <2>2, <2>3
    <3> QED
      BY <1>0, <2>1, <3>1, <3>2 DEF FlightTrue, ClientType
  <2>5. ZeroTrue'
    <3> SUFFICES ASSUME client.key # NoKey, client.remaining = 0, ~guessed,
                        client.pausedUntil # client.resetAt, client.resetAt > now'
                 PROVE  left'[client.key] = 0
      BY <2>1 DEF ZeroTrue
    <3>1. client.resetAt \in Nat
      BY <1>0 DEF ClientType
    <3>2. client.resetAt <= NextMidnight(now)
      BY DEF ResetSoon
    <3>3. left' = left /\ client.resetAt > now
      BY <1>0, <2>1, <2>2, <2>3, <3>1, <3>2
    <3> QED
      BY <3>3 DEF ZeroTrue
  <2>6. ResetSoon'
    <3>1. NextMidnight(now') \in Nat
      BY <1>0, <2>1, MidnightLater
    <3> QED
      BY <1>0, <2>1, <2>2, <3>1 DEF ResetSoon, ClientType
  <2> QED
    BY <2>4, <2>5, <2>6
<1>6. ASSUME UNCHANGED vars
      PROVE  RefusalInv'
  BY <1>6 DEF vars, FlightTrue, ResetSoon, ZeroTrue
<1> QED
  BY <1>1, <1>2, <1>3, <1>4, <1>5, <1>6 DEF Next, AnyAsk, AnyReceive

(* No lookup is refused, outside a pause the service asked for, that the    *)
(* service would have granted (abuseipdb.rs:119-128), unless the client had *)
(* to guess when its zero ends: if every reply names the reset time it      *)
(* never has to.                                                            *)
THEOREM RefusalsJustified == Spec => []RefusalIsJustified
<1>1. Init => RefusalInv
  BY FreshFields DEF Init, RefusalInv, FlightTrue, ResetSoon, ZeroTrue
<1>2. TypeInv /\ RefusalInv /\ [Next]_vars => RefusalInv'
  BY RefusalInvStep
<1> QED
  BY <1>1, <1>2, RefusalInvImplies, TypeInvariance, PTL DEF Spec

(* Both together: what the client believes of the quota costs no lookup     *)
(* (abuseipdb.rs:119-173).                                                  *)
THEOREM QuotaStaysHonest == Spec => []QuotaIsHonest
BY ExhaustionHasAnEnd, RefusalsJustified, PTL DEF QuotaIsHonest
=============================================================================
