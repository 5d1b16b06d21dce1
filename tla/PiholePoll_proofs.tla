--------------------------- MODULE PiholePoll_proofs ---------------------------
(***************************************************************************)
(* Theorems about the Pi-hole task, for any Pi-holes, delays, limits and   *)
(* any number of queries, faults and changes.                              *)
(*                                                                         *)
(* Why nothing is missed: a list that is being delivered holds every query *)
(* since `since` that was there when it was asked for (ListComplete), those *)
(* that came later came within the delay of the fetch, and the delay fits  *)
(* into the overlap.  Why nothing comes twice: what lies above the cursor  *)
(* has not been pushed in the present setup (AboveIsNew).                  *)
(***************************************************************************)
EXTENDS PiholePoll, FiniteSetTheorems, WellFoundedInduction, TLAPS

USE PollAssumption

-----------------------------------------------------------------------------
(* Types, and what the prover needs to know beside them.                   *)

TypeInv ==
  /\ now \in Nat
  /\ queries \in [Hosts -> Seq(Nat)]
  /\ config \in Hosts \cup {Off} /\ current \in Hosts \cup {Off}
  /\ since \in Int /\ cursor \in Nat
  /\ pc \in {"top", "asked", "answered"}
  /\ pc \in {"asked", "answered"} => current # Off
  /\ waited \in 0..MaxDelay
  /\ reply \in [kind : {"none", "list", "error"}, ids : SUBSET Nat]
  /\ stored \in [Hosts -> [1..MaxQueries -> Nat]]
  /\ refused \in [Hosts -> SUBSET Nat]
  /\ wantedFrom \in Int
  /\ setups \in [Hosts -> Nat]
  /\ misled \in BOOLEAN /\ overflowed \in BOOLEAN

\* Everything known lies in the past and inside the Pi-hole's list.
PastInv ==
  /\ since <= now
  /\ \A h \in Hosts : Len(queries[h]) <= MaxQueries
  /\ \A h \in Hosts : \A i \in Ids(h) : queries[h][i] <= now
  /\ current # Off => cursor <= Len(queries[current])
  /\ pc = "answered" => reply.ids \subseteq Ids(current)

\* A list under way lacks only queries younger than its request, and none below
\* one it holds.
ListComplete ==
  pc = "answered" /\ ~misled /\ ~overflowed =>
    \A i \in Ids(current) : queries[current][i] >= since =>
      /\ i \in reply.ids \/ queries[current][i] >= now - waited
      /\ \A k \in reply.ids : i <= k => i \in reply.ids

\* Above the cursor nothing has been pushed since the client was built.
AboveIsNew ==
  \A h \in Hosts : \A i \in 1..MaxQueries :
    /\ stored[h][i] <= setups[h]
    /\ h = current /\ i > cursor => stored[h][i] < setups[h]

(* A Pi-hole only appends, and what it appends is of now.                   *)
LEMMA QueryEffect ==
  ASSUME TypeInv, NEW h \in Hosts, Query(h)
  PROVE  /\ queries' \in [Hosts -> Seq(Nat)]
         /\ \A g \in Hosts : g # h => queries'[g] = queries[g]
         /\ Len(queries'[h]) = Len(queries[h]) + 1
         /\ Len(queries'[h]) <= MaxQueries
         /\ \A i \in Ids(h) : queries'[h][i] = queries[h][i]
         /\ queries'[h][Len(queries[h]) + 1] = now
<1>1. queries[h] \in Seq(Nat) /\ now \in Nat
  BY DEF TypeInv
<1>2. queries'[h] = Append(queries[h], now)
  BY DEF TypeInv, Query
<1>3. /\ Append(queries[h], now) \in Seq(Nat)
      /\ Len(Append(queries[h], now)) = Len(queries[h]) + 1
      /\ \A i \in DOMAIN queries[h] : Append(queries[h], now)[i] = queries[h][i]
      /\ Append(queries[h], now)[Len(queries[h]) + 1] = now
  BY <1>1
<1>4. queries' \in [Hosts -> Seq(Nat)]
  BY <1>2, <1>3 DEF TypeInv, Query
<1>5. \A g \in Hosts : g # h => queries'[g] = queries[g]
  BY DEF TypeInv, Query
<1>6. Len(queries[h]) < MaxQueries /\ Len(queries[h]) \in Nat
  BY <1>1 DEF Query
<1> QED
  BY <1>2, <1>3, <1>4, <1>5, <1>6 DEF Ids

(* What the delivery of a list changes.                                     *)
LEMMA DeliverEffect ==
  ASSUME TypeInv, PastInv, NEW full \in SUBSET Fresh, Deliver(full)
  PROVE  /\ current \in Hosts
         /\ cursor' \in Nat /\ cursor' \in {cursor} \cup reply.ids
         /\ \A i \in {cursor} \cup reply.ids : i <= cursor'
         /\ stored' \in [Hosts -> [1..MaxQueries -> Nat]]
         /\ refused' \in [Hosts -> SUBSET Nat]
         /\ \A h \in Hosts : h # current => stored'[h] = stored[h]
         /\ \A i \in 1..MaxQueries :
              /\ i \in Fresh \ full => stored'[current][i] = stored[current][i] + 1
              /\ i \notin Fresh \ full => stored'[current][i] = stored[current][i]
         /\ refused'[current] = refused[current] \cup full
<1>1. current \in Hosts
  BY DEF TypeInv, Deliver
<1>2. reply.ids \subseteq Nat /\ full \subseteq Nat
  BY DEF TypeInv, Fresh
<1>3. cursor' \in {cursor} \cup reply.ids /\ \A i \in {cursor} \cup reply.ids : i <= cursor'
  BY DEF Deliver
<1>4. stored[current] \in [1..MaxQueries -> Nat] /\ stored \in [Hosts -> [1..MaxQueries -> Nat]]
  BY <1>1 DEF TypeInv
<1>5. stored' = [stored EXCEPT ![current] =
                   [i \in 1..MaxQueries |->
                      stored[current][i] + (IF i \in Fresh \ full THEN 1 ELSE 0)]]
  BY <1>4 DEF Deliver
<1>6. [i \in 1..MaxQueries |-> stored[current][i] + (IF i \in Fresh \ full THEN 1 ELSE 0)]
        \in [1..MaxQueries -> Nat]
  BY <1>4
<1>7. refused \in [Hosts -> SUBSET Nat]
      /\ refused' = [refused EXCEPT ![current] = refused[current] \cup full]
  BY <1>1 DEF TypeInv, Deliver
<1>8. ASSUME NEW i \in 1..MaxQueries
      PROVE  /\ i \in Fresh \ full => stored'[current][i] = stored[current][i] + 1
             /\ i \notin Fresh \ full => stored'[current][i] = stored[current][i]
  <2>1. stored'[current][i] = stored[current][i] + (IF i \in Fresh \ full THEN 1 ELSE 0)
    BY <1>1, <1>4, <1>5
  <2>2. CASE i \in Fresh \ full
    BY <2>1, <2>2
  <2>3. CASE i \notin Fresh \ full
    BY <2>1, <2>3, <1>4
  <2> QED
    BY <2>2, <2>3
<1> QED
  BY <1>1, <1>2, <1>3, <1>4, <1>5, <1>6, <1>7, <1>8 DEF TypeInv

(* The cases of a step, once for all proofs.                                *)
LEMMA NextCases ==
  ASSUME [Next]_vars, NEW P,
         (\E h \in Hosts : Query(h)) => P, Tick => P, NotConfigured => P,
         Setup => P, KeepClient => P, AnswerList => P, AnswerError => P,
         FetchFails => P, (\E full \in SUBSET Fresh : Deliver(full)) => P,
         (\E c \in Hosts \cup {Off} : Configure(c)) => P, Restart => P,
         UNCHANGED vars => P
  PROVE  P
BY DEF Next, Poll

LEMMA TypeInit == Init => TypeInv
<1> SUFFICES ASSUME Init PROVE TypeInv
  OBVIOUS
<1>1. [i \in 1..MaxQueries |-> 0] \in [1..MaxQueries -> Nat]
  OBVIOUS
<1>2. stored \in [Hosts -> [1..MaxQueries -> Nat]]
  BY <1>1 DEF Init
<1>3. queries \in [Hosts -> Seq(Nat)]
  BY DEF Init
<1>4. refused \in [Hosts -> SUBSET Nat] /\ setups \in [Hosts -> Nat]
  BY DEF Init
<1>5. reply \in [kind : {"none", "list", "error"}, ids : SUBSET Nat]
  BY DEF Init, Nothing
<1>6. since \in Int /\ wantedFrom \in Int /\ now \in Nat /\ waited \in 0..MaxDelay
  BY DEF Init
<1> QED
  BY <1>2, <1>3, <1>4, <1>5, <1>6 DEF Init, TypeInv

LEMMA TypeStep == TypeInv /\ PastInv /\ [Next]_vars => TypeInv'
<1> SUFFICES ASSUME TypeInv, PastInv, [Next]_vars PROVE TypeInv'
  OBVIOUS
<1> USE DEF settings, poller, history, vars
<1>1. ASSUME NEW h \in Hosts, Query(h) PROVE TypeInv'
  BY <1>1, QueryEffect DEF Query, TypeInv
<1>2. CASE Tick
  <2>1. now' \in Nat /\ waited' \in 0..MaxDelay
    BY <1>2 DEF Tick, TypeInv
  <2> QED
    BY <1>2, <2>1 DEF Tick, TypeInv
<1>3. CASE NotConfigured
  BY <1>3 DEF NotConfigured, Faulty, TypeInv
<1>4. CASE Setup
  <2>1. config \in Hosts /\ setups' \in [Hosts -> Nat]
    BY <1>4 DEF Setup, TypeInv
  <2>2. now - FirstSpan \in Int /\ 0 \in 0..MaxDelay /\ cursor' \in Nat
    BY <1>4 DEF Setup, CursorFor, TypeInv
  <2> QED
    BY <1>4, <2>1, <2>2 DEF Setup, TypeInv
<1>5. CASE KeepClient
  BY <1>5 DEF KeepClient, TypeInv
<1>6. CASE AnswerList
  <2>1. Listed \in SUBSET Nat
    BY <1>6 DEF AnswerList, Listed, InSpan, Ids, TypeInv
  <2>2. (Listed # InSpan) \in BOOLEAN /\ overflowed' \in BOOLEAN
    BY <1>6 DEF AnswerList, TypeInv
  <2> QED
    BY <1>6, <2>1, <2>2 DEF AnswerList, TypeInv
<1>7. CASE AnswerError
  BY <1>7 DEF AnswerError, Faulty, TypeInv
<1>8. CASE FetchFails
  <2>1. /\ UNCHANGED <<now, queries, settings, current, since, cursor, reply, stored, history>>
        /\ pc' = "top" /\ waited' = 0
    BY <1>8 DEF FetchFails, SinceAfterError
  <2>2. 0 \in 0..MaxDelay
    OBVIOUS
  <2> QED
    BY <2>1, <2>2 DEF TypeInv
<1>9. ASSUME NEW full \in SUBSET Fresh, Deliver(full) PROVE TypeInv'
  <2>1. /\ cursor' \in Nat
        /\ stored' \in [Hosts -> [1..MaxQueries -> Nat]]
        /\ refused' \in [Hosts -> SUBSET Nat]
    BY <1>9, DeliverEffect
  <2> QED
    BY <1>9, <2>1 DEF Deliver, Nothing, TypeInv
<1>10. ASSUME NEW c \in Hosts \cup {Off}, Configure(c) PROVE TypeInv'
  BY <1>10 DEF Configure, TypeInv
<1>11. CASE Restart
  BY <1>11 DEF Restart, Nothing, TypeInv
<1>12. CASE UNCHANGED vars
  BY <1>12 DEF TypeInv
<1> QED
  BY <1>1, <1>2, <1>3, <1>4, <1>5, <1>6, <1>7, <1>8, <1>9, <1>10, <1>11, <1>12, NextCases

LEMMA PastInit == Init => PastInv
BY DEF Init, PastInv, Ids

LEMMA PastStep == TypeInv /\ PastInv /\ [Next]_vars => PastInv'
<1> SUFFICES ASSUME TypeInv, PastInv, [Next]_vars PROVE PastInv'
  OBVIOUS
<1> USE DEF settings, poller, history, vars
<1>1. ASSUME NEW h \in Hosts, Query(h) PROVE PastInv'
  <2>1. now' = now /\ since' = since /\ current' = current /\ cursor' = cursor
        /\ pc' = pc /\ reply' = reply
    BY <1>1 DEF Query
  <2>2. \A g \in Hosts : Len(queries[g]) \in Nat /\ Ids(g) = 1..Len(queries[g])
    BY DEF TypeInv, Ids
  <2>3. Ids(h)' = 1..(Len(queries[h]) + 1)
    BY <1>1, QueryEffect, <2>2 DEF Ids
  <2>4. \A g \in Hosts : g # h => Ids(g)' = Ids(g)
    BY <1>1, QueryEffect DEF Ids
  <2>5. \A g \in Hosts : \A i \in Ids(g)' : queries'[g][i] <= now'
    <3> SUFFICES ASSUME NEW g \in Hosts, NEW i \in Ids(g)' PROVE queries'[g][i] <= now
      BY <2>1
    <3>1. CASE g # h
      BY <3>1, <2>4, <1>1, QueryEffect DEF PastInv
    <3>2. CASE g = h /\ i \in Ids(h)
      BY <3>2, <1>1, QueryEffect DEF PastInv
    <3>3. CASE g = h /\ i \notin Ids(h)
      <4>1. i = Len(queries[h]) + 1
        BY <3>3, <2>2, <2>3
      <4>2. queries'[h][i] = now
        BY <4>1, <1>1, QueryEffect
      <4> QED
        BY <3>3, <4>2 DEF TypeInv
    <3> QED
      BY <3>1, <3>2, <3>3
  <2>6. \A g \in Hosts : Len(queries'[g]) <= MaxQueries /\ Len(queries[g]) <= Len(queries'[g])
    BY <1>1, QueryEffect, <2>2 DEF PastInv
  <2>7. \A g \in Hosts : Ids(g) \subseteq Ids(g)'
    BY <2>2, <2>3, <2>4
  <2>8. current # Off => current \in Hosts /\ cursor' <= Len(queries'[current'])
    BY <2>1, <2>2, <2>6, <1>1, QueryEffect DEF PastInv, TypeInv
  <2>9. pc' = "answered" => reply'.ids \subseteq Ids(current)'
    BY <2>1, <2>7 DEF PastInv, TypeInv, Ids
  <2> QED
    BY <2>1, <2>5, <2>6, <2>8, <2>9 DEF PastInv
<1>2. CASE Tick
  BY <1>2 DEF Tick, PastInv, TypeInv, Ids
<1>3. CASE NotConfigured
  BY <1>3 DEF NotConfigured, Faulty, PastInv, TypeInv, Ids
<1>4. CASE Setup
  BY <1>4 DEF Setup, CursorFor, PastInv, TypeInv, Ids
<1>5. CASE KeepClient
  BY <1>5 DEF KeepClient, PastInv, TypeInv, Ids
<1>6. CASE AnswerList
  BY <1>6 DEF AnswerList, Listed, InSpan, PastInv, TypeInv, Ids
<1>7. CASE AnswerError
  BY <1>7 DEF AnswerError, Faulty, PastInv, TypeInv, Ids
<1>8. CASE FetchFails
  BY <1>8 DEF FetchFails, SinceAfterError, Faulty, PastInv, TypeInv, Ids
<1>9. ASSUME NEW full \in SUBSET Fresh, Deliver(full) PROVE PastInv'
  <2>1. cursor' \in {cursor} \cup reply.ids /\ current \in Hosts
    BY <1>9, DeliverEffect
  <2>2. cursor' <= Len(queries[current])
    BY <2>1, <1>9 DEF Deliver, PastInv, TypeInv, Ids
  <2> QED
    BY <1>9, <2>2 DEF Deliver, Nothing, PastInv, TypeInv, Ids
<1>10. ASSUME NEW c \in Hosts \cup {Off}, Configure(c) PROVE PastInv'
  BY <1>10 DEF Configure, PastInv, TypeInv, Ids
<1>11. CASE Restart
  BY <1>11 DEF Restart, PastInv, TypeInv, Ids
<1>12. CASE UNCHANGED vars
  BY <1>12 DEF PastInv, Ids
<1> QED
  BY <1>1, <1>2, <1>3, <1>4, <1>5, <1>6, <1>7, <1>8, <1>9, <1>10, <1>11, <1>12, NextCases
LEMMA Invariance == Spec => [](TypeInv /\ PastInv)
<1>1. Init => TypeInv /\ PastInv
  BY TypeInit, PastInit
<1>2. TypeInv /\ PastInv /\ [Next]_vars => (TypeInv /\ PastInv)'
  BY TypeStep, PastStep
<1> QED
  BY <1>1, <1>2, PTL DEF Spec

-----------------------------------------------------------------------------
(* What a fetch returns, and the types the run checks.                      *)

(* Every nonempty set of numbers has a least element.                       *)
LEMMA LeastNumber ==
  ASSUME NEW T, T \subseteq Nat, T # {}
  PROVE  \E x \in T : \A y \in T : x <= y
<1>1. \E x \in T : \A y \in T : ~(<<y, x>> \in OpToRel(<, Nat))
  BY NatLessThanWellFounded, WFMin, Zenon
<1>2. PICK x \in T : \A y \in T : ~(<<y, x>> \in OpToRel(<, Nat))
  BY <1>1
<1>3. \A y \in T : ~(y < x)
  <2> TAKE y \in T
  <2>1. <<y, x>> \in Nat \X Nat /\ <<y, x>>[1] = y /\ <<y, x>>[2] = x
    BY <1>2
  <2>2. <<y, x>> \notin {ss \in Nat \X Nat : ss[1] < ss[2]}
    BY <1>2, Zenon DEF OpToRel
  <2> QED
    BY <2>1, <2>2
<1> QED
  BY <1>3

(* A fetch never returns more than FetchLimit queries (pihole.rs:22, 121):  *)
(* above the oldest of them lie fewer than that.                            *)
LEMMA ListIsShort ==
  ASSUME TypeInv, current \in Hosts
  PROVE  Listed \subseteq Ids(current) /\ Cardinality(Listed) <= FetchLimit
<1>1. /\ IsFiniteSet(Ids(current)) /\ Ids(current) \subseteq Nat
      /\ InSpan \subseteq Ids(current) /\ Listed \subseteq InSpan
  <2>1. Ids(current) = 1..Len(queries[current]) /\ Len(queries[current]) \in Nat
    BY DEF TypeInv, Ids
  <2> QED
    BY <2>1, FS_Interval DEF InSpan, Listed
<1>2. CASE Listed = {}
  BY <1>1, <1>2, FS_EmptySet
<1>3. CASE Listed # {}
  <2>1. PICK m \in Listed : \A i \in Listed : m <= i
    BY <1>1, <1>3, LeastNumber
  <2> DEFINE above == {k \in InSpan : k > m}
  <2>2. above \subseteq Ids(current) /\ Listed \subseteq above \cup {m}
    BY <1>1, <2>1
  <2>3. Cardinality(above) < FetchLimit
    BY <2>1 DEF Listed
  <2>4. m \notin above
    BY <1>1, <2>1
  <2> HIDE DEF above
  <2>5. IsFiniteSet(above) /\ Cardinality(above) \in Nat
    BY <1>1, <2>2, FS_Subset, FS_CardinalityType
  <2>6. IsFiniteSet(above \cup {m}) /\ Cardinality(above \cup {m}) = Cardinality(above) + 1
    BY <2>4, <2>5, FS_AddElement
  <2>7. Cardinality(Listed) <= Cardinality(above \cup {m}) /\ Cardinality(Listed) \in Nat
    BY <2>2, <2>6, FS_Subset, FS_CardinalityType
  <2> QED
    BY <1>1, <2>3, <2>5, <2>6, <2>7
<1> QED
  BY <1>2, <1>3

\* What TypeOK says beyond TypeInv: the ids stay within the bound of the queries.
WithinBounds ==
  /\ cursor <= MaxQueries
  /\ reply.ids \subseteq 1..MaxQueries /\ Cardinality(reply.ids) <= FetchLimit
  /\ refused \in [Hosts -> SUBSET (1..MaxQueries)]
  /\ faults \in Nat /\ changes \in Nat

LEMMA BoundsStep == TypeInv /\ PastInv /\ WithinBounds /\ [Next]_vars => WithinBounds'
<1> SUFFICES ASSUME TypeInv, PastInv, WithinBounds, [Next]_vars PROVE WithinBounds'
  OBVIOUS
<1> USE DEF WithinBounds, settings, poller, history, vars
<1>0. Cardinality({}) <= FetchLimit
  BY FS_EmptySet
<1>1. (\E h \in Hosts : Query(h)) \/ Tick \/ NotConfigured \/ KeepClient \/ FetchFails
      \/ UNCHANGED vars => WithinBounds'
  BY DEF Query, Tick, NotConfigured, KeepClient, FetchFails, Faulty
<1>2. Setup => WithinBounds'
  BY DEF Setup, CursorFor
<1>3. CASE AnswerList
  <2>1. current \in Hosts
    BY <1>3 DEF AnswerList, TypeInv
  <2>2. Ids(current) \subseteq 1..MaxQueries
    <3>1. queries[current] \in Seq(Nat) /\ Len(queries[current]) <= MaxQueries
      BY <2>1 DEF TypeInv, PastInv
    <3>2. Ids(current) = 1..Len(queries[current]) /\ Len(queries[current]) \in Nat
      BY <3>1 DEF Ids
    <3> QED
      BY <3>1, <3>2
  <2> QED
    BY <1>3, <2>1, <2>2, ListIsShort DEF AnswerList
<1>4. AnswerError => WithinBounds'
  BY <1>0 DEF AnswerError, Faulty
<1>5. ASSUME NEW full \in SUBSET Fresh, Deliver(full) PROVE WithinBounds'
  <2>1. full \subseteq 1..MaxQueries
    BY DEF Fresh
  <2>2. cursor' <= MaxQueries
    BY <1>5, DeliverEffect
  <2>3. refused' \in [Hosts -> SUBSET (1..MaxQueries)]
    BY <1>5, <2>1 DEF Deliver
  <2> QED
    BY <1>0, <1>5, <2>2, <2>3 DEF Deliver, Nothing
<1>6. ASSUME NEW c \in Hosts \cup {Off}, Configure(c) PROVE WithinBounds'
  BY <1>6 DEF Configure
<1>7. Restart => WithinBounds'
  BY <1>0 DEF Restart, Nothing
<1> QED
  BY <1>1, <1>2, <1>3, <1>4, <1>5, <1>6, <1>7, NextCases

(* What the task keeps stays in its types; the ids it holds are ids the     *)
(* Pi-hole gave out, and no reply is longer than the limit the fetch asked  *)
(* for (pihole.rs:22, 119-133).                                             *)
THEOREM Typing == Spec => []TypeOK
<1>1. Init => WithinBounds
  BY FS_EmptySet DEF Init, Nothing, WithinBounds
<1>2. TypeInv /\ WithinBounds => TypeOK
  BY DEF TypeInv, WithinBounds, TypeOK
<1> QED
  BY <1>1, <1>2, BoundsStep, Invariance, PTL DEF Spec

-----------------------------------------------------------------------------
(* Nothing twice.                                                           *)

LEMMA AboveInit == Init => AboveIsNew
<1> SUFFICES ASSUME Init PROVE AboveIsNew
  OBVIOUS
<1>1. current = Off /\ \A h \in Hosts : h # current
  BY DEF Init
<1>2. \A h \in Hosts : \A i \in 1..MaxQueries : stored[h][i] = 0 /\ setups[h] = 0
  BY DEF Init
<1> QED
  BY <1>1, <1>2 DEF AboveIsNew

LEMMA AboveStep == TypeInv /\ PastInv /\ AboveIsNew /\ [Next]_vars => AboveIsNew'
<1> SUFFICES ASSUME TypeInv, PastInv, AboveIsNew, [Next]_vars PROVE AboveIsNew'
  OBVIOUS
<1> USE DEF settings, poller, history, vars
<1>1. \A h \in Hosts : setups[h] \in Nat /\ \A i \in 1..MaxQueries : stored[h][i] \in Nat
  BY DEF TypeInv
<1>2. ASSUME UNCHANGED <<stored, setups>>, current' = Off \/ UNCHANGED <<current, cursor>>
      PROVE  AboveIsNew'
  BY <1>2 DEF AboveIsNew, TypeInv
<1>3. CASE Setup
  <2>1. config \in Hosts /\ current' = config /\ stored' = stored
    BY <1>3 DEF Setup, TypeInv
  <2>2. setups'[config] = setups[config] + 1
        /\ \A h \in Hosts : h # config => setups'[h] = setups[h]
    BY <1>3, <2>1 DEF Setup, TypeInv
  <2> QED
    BY <1>1, <2>1, <2>2 DEF AboveIsNew
<1>4. ASSUME NEW full \in SUBSET Fresh, Deliver(full) PROVE AboveIsNew'
  <2>1. current' = current /\ setups' = setups
    BY <1>4 DEF Deliver
  <2> SUFFICES ASSUME NEW h \in Hosts, NEW i \in 1..MaxQueries
               PROVE  /\ stored'[h][i] <= setups[h]
                      /\ h = current /\ i > cursor' => stored'[h][i] < setups[h]
    BY <2>1 DEF AboveIsNew
  <2>2. CASE h # current
    BY <2>2, <1>4, DeliverEffect DEF AboveIsNew
  <2>3. CASE h = current /\ i \in Fresh
    <3>1. i > cursor /\ i \in reply.ids
      BY <2>3 DEF Fresh, IsNew
    <3>2. ~(i > cursor')
      BY <3>1, <1>4, DeliverEffect
    <3>3. stored'[h][i] <= stored[h][i] + 1
      <4>1. CASE i \in full
        BY <2>3, <4>1, <1>1, <1>4, DeliverEffect
      <4>2. CASE i \notin full
        BY <2>3, <4>2, <1>1, <1>4, DeliverEffect
      <4> QED
        BY <4>1, <4>2
    <3>4. stored[h][i] < setups[h]
      BY <2>3, <3>1 DEF AboveIsNew
    <3>5. stored'[h][i] \in Nat
      BY <2>3, <1>4, DeliverEffect
    <3> QED
      BY <3>2, <3>3, <3>4, <3>5, <1>1, <2>3
  <2>4. CASE h = current /\ i \notin Fresh
    <3>1. stored'[h][i] = stored[h][i]
      BY <2>4, <1>1, <1>4, DeliverEffect
    <3>2. cursor <= cursor'
      BY <1>4, DeliverEffect
    <3>3. i > cursor' => i > cursor
      BY <3>2, <1>4, DeliverEffect DEF TypeInv
    <3> QED
      BY <3>1, <3>3, <2>4 DEF AboveIsNew
  <2> QED
    BY <2>2, <2>3, <2>4
<1>5. ASSUME NEW h \in Hosts, Query(h) PROVE AboveIsNew'
  BY <1>2, <1>5 DEF Query
<1>6. Tick \/ NotConfigured \/ KeepClient \/ AnswerList \/ AnswerError \/ FetchFails
      \/ Restart \/ UNCHANGED vars => AboveIsNew'
  BY <1>2 DEF Tick, NotConfigured, KeepClient, AnswerList, AnswerError, FetchFails, Restart
<1>7. ASSUME NEW c \in Hosts \cup {Off}, Configure(c) PROVE AboveIsNew'
  BY <1>2, <1>7 DEF Configure
<1> QED
  BY <1>3, <1>4, <1>5, <1>6, <1>7, NextCases

(* A query is stored at most once for each time its Pi-hole was set up,     *)
(* however the overlapping fetches fall (pihole.rs:146-149, 310-329).       *)
THEOREM NothingTwiceInASetup == Spec => []OncePerSetup
<1>1. TypeInv /\ PastInv /\ AboveIsNew /\ [Next]_vars => AboveIsNew'
  BY AboveStep
<1>2. AboveIsNew => OncePerSetup
  BY DEF AboveIsNew, OncePerSetup
<1> QED
  BY <1>1, <1>2, AboveInit, Invariance, PTL DEF Spec

-----------------------------------------------------------------------------
(* Nothing missed.                                                          *)

LEMMA ListInit == Init => ListComplete
BY DEF Init, ListComplete

LEMMA ListStep ==
  TypeInv /\ PastInv /\ ListComplete /\ [Next]_vars => ListComplete'
<1> SUFFICES ASSUME TypeInv, PastInv, ListComplete, [Next]_vars PROVE ListComplete'
  OBVIOUS
<1> USE DEF settings, poller, history, vars
<1>1. ASSUME NEW h \in Hosts, Query(h) PROVE ListComplete'
  <2>1. UNCHANGED <<now, since, current, pc, waited, reply, misled, overflowed>>
    BY <1>1 DEF Query
  <2> SUFFICES ASSUME pc = "answered", ~misled, ~overflowed,
                      NEW i \in Ids(current)', queries'[current][i] >= since
               PROVE  /\ i \in reply.ids \/ queries'[current][i] >= now - waited
                      /\ \A k \in reply.ids : i <= k => i \in reply.ids
    BY <2>1 DEF ListComplete
  <2>2. current \in Hosts
    BY DEF TypeInv
  <2>3. CASE i \in Ids(current)
    <3>1. queries'[current][i] = queries[current][i]
      BY <2>2, <2>3, <1>1, QueryEffect
    <3> QED
      BY <2>3, <3>1 DEF ListComplete
  <2>4. CASE i \notin Ids(current)
    <3>1. Len(queries[current]) \in Nat /\ Ids(current) = 1..Len(queries[current])
      BY <2>2 DEF TypeInv, Ids
    <3>2. h = current
      BY <2>1, <2>2, <2>4, <1>1, QueryEffect DEF Ids
    <3>3. Ids(current)' = 1..(Len(queries[current]) + 1)
      BY <2>1, <2>2, <3>1, <3>2, <1>1, QueryEffect DEF Ids
    <3>4. i = Len(queries[current]) + 1
      BY <2>4, <3>1, <3>3
    <3>5. queries'[current][i] = now
      BY <3>2, <3>4, <1>1, QueryEffect
    <3>6. \A k \in reply.ids : ~(i <= k)
      BY <3>1, <3>4 DEF PastInv
    <3> QED
      BY <3>5, <3>6 DEF TypeInv
  <2> QED
    BY <2>3, <2>4
<1>2. CASE Tick
  <2>1. UNCHANGED <<queries, since, current, pc, reply, misled, overflowed>>
    BY <1>2 DEF Tick
  <2>2. pc = "answered" => now' - waited' = now - waited
    BY <1>2 DEF Tick, TypeInv
  <2> QED
    BY <2>1, <2>2 DEF ListComplete, Ids
<1>3. CASE AnswerList
  <2>1. ~overflowed' => reply'.ids = InSpan
    BY <1>3 DEF AnswerList
  <2> QED
    BY <1>3, <2>1 DEF AnswerList, InSpan, ListComplete, Ids
<1>4. CASE AnswerError
  BY <1>4 DEF AnswerError, ListComplete
<1>5. ASSUME pc' # "answered" PROVE ListComplete'
  BY <1>5 DEF ListComplete
<1>6. ASSUME NEW full \in SUBSET Fresh, Deliver(full) PROVE ListComplete'
  BY <1>5, <1>6 DEF Deliver
<1>7. ASSUME NEW c \in Hosts \cup {Off}, Configure(c) PROVE ListComplete'
  BY <1>7 DEF Configure, ListComplete, Ids
<1>8. CASE UNCHANGED vars
  BY <1>8 DEF ListComplete, Ids
<1>9. NotConfigured \/ Setup \/ KeepClient \/ FetchFails \/ Restart => ListComplete'
  BY <1>5 DEF NotConfigured, Setup, KeepClient, FetchFails, Restart
<1> QED
  BY <1>1, <1>2, <1>3, <1>4, <1>6, <1>7, <1>8, <1>9, NextCases

LEMMA MissedInit == Init => NothingMissed
BY DEF Init, NothingMissed

LEMMA MissedStep ==
  TypeInv /\ PastInv /\ ListComplete /\ NothingMissed /\ [Next]_vars => NothingMissed'
<1> SUFFICES ASSUME TypeInv, PastInv, ListComplete, NothingMissed, [Next]_vars
             PROVE  NothingMissed'
  OBVIOUS
<1> USE DEF settings, poller, history, vars
<1>1. ASSUME NEW h \in Hosts, Query(h) PROVE NothingMissed'
  <2>1. UNCHANGED <<now, since, current, cursor, wantedFrom, stored, refused,
                    misled, overflowed>>
    BY <1>1 DEF Query
  <2> SUFFICES ASSUME current # Off, ~misled, ~overflowed,
                      NEW i \in Ids(current)', Passed(i)'
               PROVE  Had(current, i)
    BY <2>1 DEF NothingMissed, Had
  <2>2. current \in Hosts
    BY DEF TypeInv
  <2>3. CASE i \in Ids(current)
    <3>1. queries'[current][i] = queries[current][i]
      BY <2>2, <2>3, <1>1, QueryEffect
    <3> QED
      BY <2>1, <2>3, <3>1 DEF NothingMissed, Passed
  <2>4. CASE i \notin Ids(current)
    <3>1. Len(queries[current]) \in Nat /\ Ids(current) = 1..Len(queries[current])
      BY <2>2 DEF TypeInv, Ids
    <3>2. h = current
      BY <2>1, <2>2, <2>4, <1>1, QueryEffect DEF Ids
    <3>3. Ids(current)' = 1..(Len(queries[current]) + 1)
      BY <2>1, <2>2, <3>1, <3>2, <1>1, QueryEffect DEF Ids
    <3>4. i = Len(queries[current]) + 1
      BY <2>4, <3>1, <3>3
    <3>5. queries'[current][i] = now
      BY <3>2, <3>4, <1>1, QueryEffect
    <3>6. ~(queries'[current][i] < since) /\ ~(i <= cursor)
      BY <3>1, <3>4, <3>5 DEF TypeInv, PastInv
    <3> QED
      BY <2>1, <3>6 DEF Passed
  <2> QED
    BY <2>3, <2>4
<1>2. CASE Setup
  <2>1. /\ current' = config /\ config \in Hosts /\ queries' = queries
        /\ cursor' = 0 /\ since' = wantedFrom'
        /\ since' \in Int
    BY <1>2 DEF Setup, CursorFor, TypeInv
  <2>2. ASSUME NEW i \in Ids(current)' PROVE ~Passed(i)'
    <3>1. i \in Nat \ {0} /\ queries'[current'][i] \in Nat
      BY <2>1, <2>2 DEF Ids, TypeInv
    <3> QED
      BY <2>1, <3>1 DEF Passed
  <2> QED
    BY <2>2 DEF NothingMissed
<1>3. ASSUME NEW full \in SUBSET Fresh, Deliver(full) PROVE NothingMissed'
  <2>1. /\ UNCHANGED <<now, queries, current, wantedFrom, misled, overflowed>>
        /\ since' = now - Overlap /\ pc = "answered"
    BY <1>3 DEF Deliver
  <2> SUFFICES ASSUME ~misled, ~overflowed, NEW i \in Ids(current), Passed(i)'
               PROVE  Had(current, i)'
    BY <2>1 DEF NothingMissed, Ids
  <2>2. current \in Hosts /\ current # Off
    BY <1>3, DeliverEffect
  <2>3. /\ i \in 1..MaxQueries /\ queries[current][i] \in Nat
        /\ stored[current][i] \in Nat
    <3>1. queries[current] \in Seq(Nat) /\ Len(queries[current]) <= MaxQueries
      BY <2>2 DEF TypeInv, PastInv
    <3>2. i \in 1..Len(queries[current]) /\ Len(queries[current]) \in Nat
      BY <3>1 DEF Ids
    <3>3. i \in 1..MaxQueries /\ queries[current][i] \in Nat
      BY <3>1, <3>2
    <3> QED
      BY <2>2, <3>3 DEF TypeInv
  <2>4. queries[current][i] >= wantedFrom
        /\ (queries[current][i] < now - Overlap \/ i <= cursor')
    BY <2>1 DEF Passed
  <2>5. CASE queries[current][i] < since \/ i <= cursor
    <3>1. Had(current, i)
      BY <2>2, <2>4, <2>5 DEF NothingMissed, Passed
    <3>2. stored'[current][i] >= stored[current][i]
      <4>1. CASE i \in Fresh \ full
        BY <2>3, <4>1, <1>3, DeliverEffect
      <4>2. CASE i \notin Fresh \ full
        BY <2>3, <4>2, <1>3, DeliverEffect
      <4> QED
        BY <4>1, <4>2
    <3>3. refused[current] \subseteq refused'[current]
      BY <1>3, DeliverEffect
    <3>4. stored[current][i] > 0 => stored'[current][i] > 0
      <4>1. stored'[current][i] \in Nat
        BY <2>2, <2>3, <1>3, DeliverEffect
      <4> QED
        BY <2>3, <3>2, <4>1
    <3> QED
      BY <2>1, <3>1, <3>3, <3>4 DEF Had
  <2>6. CASE queries[current][i] >= since /\ i > cursor
    <3>1. /\ i \in reply.ids \/ queries[current][i] >= now - waited
          /\ \A k \in reply.ids : i <= k => i \in reply.ids
      BY <2>1, <2>6 DEF ListComplete
    <3>2. i \in reply.ids
      <4>1. CASE queries[current][i] < now - Overlap
        BY <2>3, <3>1, <4>1 DEF TypeInv
      <4>2. CASE i <= cursor'
        <5>1. cursor' # cursor
          BY <2>3, <2>6, <4>2 DEF TypeInv
        <5>2. cursor' \in reply.ids
          BY <5>1, <1>3, DeliverEffect
        <5> QED
          BY <3>1, <4>2, <5>2
      <4> QED
        BY <2>4, <4>1, <4>2
    <3>3. i \in Fresh
      BY <2>6, <3>2 DEF Fresh, IsNew
    <3>4. CASE i \in full
      BY <2>1, <3>4, <1>3, DeliverEffect DEF Had
    <3>5. CASE i \notin full
      <4>1. stored'[current][i] = stored[current][i] + 1
        BY <2>3, <3>3, <3>5, <1>3, DeliverEffect
      <4> QED
        BY <2>1, <2>3, <4>1 DEF Had
    <3> QED
      BY <3>4, <3>5
  <2> QED
    BY <2>3, <2>5, <2>6 DEF TypeInv
<1>4. CASE AnswerError
  BY <1>4 DEF AnswerError, NothingMissed
<1>5. CASE AnswerList
  BY <1>5 DEF AnswerList, NothingMissed, Passed, Had, Ids
<1>6. ASSUME current' = Off PROVE NothingMissed'
  BY <1>6 DEF NothingMissed
<1>7. NotConfigured \/ Restart => NothingMissed'
  BY <1>6 DEF NotConfigured, Restart
<1>8. ASSUME UNCHANGED <<queries, current, since, cursor, stored, history>>
      PROVE  NothingMissed'
  BY <1>8 DEF NothingMissed, Passed, Had, Ids
<1>9. Tick \/ KeepClient \/ FetchFails \/ UNCHANGED vars => NothingMissed'
  BY <1>8 DEF Tick, KeepClient, FetchFails, SinceAfterError
<1>10. ASSUME NEW c \in Hosts \cup {Off}, Configure(c) PROVE NothingMissed'
  BY <1>8, <1>10 DEF Configure
<1> QED
  BY <1>1, <1>2, <1>3, <1>4, <1>5, <1>7, <1>9, <1>10, NextCases

(* What the next fetch will not ask for any more has been pushed, or was    *)
(* refused by a full channel, in every setup in which no error passed for a *)
(* list and no list was cut (pihole.rs:109-110, 310-329).  It rests on a    *)
(* fetch taking no longer than the overlap.                                 *)
THEOREM NothingMissedInASetup == Spec => []NothingMissed
<1>1. TypeInv /\ PastInv /\ ListComplete /\ [Next]_vars => ListComplete'
  BY ListStep
<1>2. TypeInv /\ PastInv /\ ListComplete /\ NothingMissed /\ [Next]_vars => NothingMissed'
  BY MissedStep
<1> QED
  BY <1>1, <1>2, ListInit, MissedInit, Invariance, PTL DEF Spec

(* Within one setup a query is fetched exactly once (pihole.rs:109-156,     *)
(* 293-338).                                                                *)
THEOREM EachQueryIsFetchedOnce == Spec => []FetchedOnce
BY NothingMissedInASetup, NothingTwiceInASetup, PTL DEF FetchedOnce
=============================================================================
