----------------------------- MODULE Ingest_proofs -----------------------------
(***************************************************************************)
(* Theorems about the way from the datagram to the stored row, for any     *)
(* number of lines, any channel, any batch size and any number of failing  *)
(* statements and restarts.                                                *)
(*                                                                         *)
(* Table, batch, hand and channel hold the lines in the order they were    *)
(* produced (OrderInv), so nothing is in two of them; each line produced   *)
(* is in one of them or gone (FateInv).  What is sent was stored before,   *)
(* and an idle worker has seen every row or is about to hear of it         *)
(* (NewsInv).                                                              *)
(***************************************************************************)
EXTENDS Ingest, SequenceTheorems, FiniteSetTheorems, TLAPS

USE IngestAssumption

-----------------------------------------------------------------------------
(* Sequences of lines.                                                     *)

\* Every line of A was produced before every line of B of the same source.
Before(A, B) == \A x \in A, y \in B : x.from = y.from => x.n < y.n

LEMMA CatRange ==
  ASSUME NEW a \in Seq(Lines), NEW b \in Seq(Lines)
  PROVE  /\ a \o b \in Seq(Lines)
         /\ ToSet(a \o b) = ToSet(a) \cup ToSet(b)
         /\ ToSet(a) \subseteq Lines
<1>1. \A i \in DOMAIN a : i \in DOMAIN (a \o b) /\ (a \o b)[i] = a[i]
  OBVIOUS
<1>2. \A j \in DOMAIN b : Len(a) + j \in DOMAIN (a \o b) /\ (a \o b)[Len(a) + j] = b[j]
  OBVIOUS
<1>3. \A i \in DOMAIN (a \o b) : (i \in DOMAIN a /\ (a \o b)[i] = a[i])
                                   \/ (i - Len(a) \in DOMAIN b /\ (a \o b)[i] = b[i - Len(a)])
  OBVIOUS
<1>4. a \o b \in Seq(Lines)
  OBVIOUS
<1>5. ToSet(a) \subseteq Lines
  BY DEF ToSet
<1>6. ToSet(a \o b) \subseteq ToSet(a) \cup ToSet(b)
  BY <1>3 DEF ToSet
<1>7. ToSet(a) \subseteq ToSet(a \o b) /\ ToSet(b) \subseteq ToSet(a \o b)
  BY <1>1, <1>2 DEF ToSet
<1> QED
  BY <1>4, <1>5, <1>6, <1>7

LEMMA CatAscending ==
  ASSUME NEW a \in Seq(Lines), NEW b \in Seq(Lines)
  PROVE  Ascending(a \o b) <=> Ascending(a) /\ Ascending(b) /\ Before(ToSet(a), ToSet(b))
<1>1. \A i \in DOMAIN a : i \in DOMAIN (a \o b) /\ (a \o b)[i] = a[i]
  OBVIOUS
<1>2. \A j \in DOMAIN b : Len(a) + j \in DOMAIN (a \o b) /\ (a \o b)[Len(a) + j] = b[j]
  OBVIOUS
<1>3. \A i \in DOMAIN (a \o b) : (i \in DOMAIN a /\ (a \o b)[i] = a[i])
                                   \/ (i > Len(a) /\ i - Len(a) \in DOMAIN b /\ (a \o b)[i] = b[i - Len(a)])
  OBVIOUS
<1>4. DOMAIN a = 1..Len(a) /\ DOMAIN b = 1..Len(b) /\ DOMAIN (a \o b) \subseteq Nat
      /\ Len(a) \in Nat /\ Len(b) \in Nat
  OBVIOUS
<1>5. ASSUME Ascending(a \o b) PROVE Ascending(a) /\ Ascending(b) /\ Before(ToSet(a), ToSet(b))
  <2>1. Ascending(a)
    BY <1>1, <1>4, <1>5 DEF Ascending
  <2>2. Ascending(b)
    <3> SUFFICES ASSUME NEW i \in DOMAIN b, NEW j \in DOMAIN b, i < j, b[i].from = b[j].from
                 PROVE  b[i].n < b[j].n
      BY DEF Ascending
    <3>1. Len(a) + i < Len(a) + j
      BY <1>4
    <3> QED
      BY <1>2, <1>5, <3>1 DEF Ascending
  <2>3. Before(ToSet(a), ToSet(b))
    <3> SUFFICES ASSUME NEW i \in DOMAIN a, NEW j \in DOMAIN b, a[i].from = b[j].from
                 PROVE  a[i].n < b[j].n
      BY DEF Before, ToSet
    <3>1. i < Len(a) + j
      BY <1>4
    <3> QED
      BY <1>1, <1>2, <1>5, <3>1 DEF Ascending
  <2> QED
    BY <2>1, <2>2, <2>3
<1>6. ASSUME Ascending(a), Ascending(b), Before(ToSet(a), ToSet(b)) PROVE Ascending(a \o b)
  <2> DEFINE c == a \o b
  <2> SUFFICES ASSUME NEW i \in DOMAIN c, NEW j \in DOMAIN c, i < j, c[i].from = c[j].from
               PROVE  c[i].n < c[j].n
    BY DEF Ascending
  <2>1. CASE i \in DOMAIN a /\ j \in DOMAIN a
    BY <1>1, <1>6, <2>1 DEF Ascending
  <2>2. CASE i \in DOMAIN a /\ j \notin DOMAIN a
    BY <1>1, <1>3, <1>6, <2>2 DEF Before, ToSet
  <2>3. CASE i \notin DOMAIN a
    <3>1. j \notin DOMAIN a /\ i - Len(a) < j - Len(a)
      BY <1>3, <1>4, <2>3
    <3> QED
      BY <1>3, <1>6, <2>3, <3>1 DEF Ascending
  <2> QED
    BY <2>1, <2>2, <2>3
<1> QED
  BY <1>5, <1>6

\* A set of at most one line as a sequence.
LEMMA HandAsSequence ==
  ASSUME NEW h \in SUBSET Lines, \A x, y \in h : x = y
  PROVE  /\ SetToSeq(h) \in Seq(Lines) /\ ToSet(SetToSeq(h)) = h /\ Ascending(SetToSeq(h))
<1> DEFINE q == SetToSeq(h)
<1>1. ASSUME h = {} PROVE q \in Seq(Lines) /\ ToSet(q) = h /\ Ascending(q)
  <2>1. Cardinality(h) = 0
    BY <1>1, FS_EmptySet
  <2>2. \E f \in [1..0 -> h] : IsInjective(f)
    <3> DEFINE f == [i \in 1..0 |-> i]
    <3>1. f \in [1..0 -> h] /\ IsInjective(f)
      BY DEF IsInjective
    <3> QED
      BY <3>1
  <2>3. q \in [1..0 -> h]
    BY <2>1, <2>2 DEF SetToSeq
  <2> HIDE DEF q
  <2>4. q = <<>>
    BY <1>1, <2>3
  <2> QED
    BY <1>1, <2>4 DEF ToSet, Ascending
<1>2. ASSUME NEW x, h = {x} PROVE q \in Seq(Lines) /\ ToSet(q) = h /\ Ascending(q)
  <2>1. Cardinality(h) = 1
    BY <1>2, FS_Singleton
  <2>2. \E f \in [1..1 -> h] : IsInjective(f)
    <3> DEFINE f == [i \in 1..1 |-> x]
    <3>1. f \in [1..1 -> h] /\ IsInjective(f)
      BY <1>2 DEF IsInjective
    <3> QED
      BY <3>1
  <2>3. q \in [1..1 -> h]
    BY <2>1, <2>2 DEF SetToSeq
  <2> HIDE DEF q
  <2>4. q = <<x>>
    BY <1>2, <2>3
  <2>5. x \in Lines
    BY <1>2
  <2> QED
    BY <1>2, <2>4, <2>5 DEF ToSet, Ascending
<1>3. h = {} \/ \E x : h = {x}
  OBVIOUS
<1> HIDE DEF q
<1>4. q \in Seq(Lines) /\ ToSet(q) = h /\ Ascending(q)
  BY <1>1, <1>2, <1>3
<1> QED
  BY <1>4 DEF q

LEMMA AppendLine ==
  ASSUME NEW a \in Seq(Lines), NEW x \in Lines
  PROVE  /\ Append(a, x) \in Seq(Lines) /\ ToSet(Append(a, x)) = ToSet(a) \cup {x}
         /\ Ascending(Append(a, x)) <=> Ascending(a) /\ Before(ToSet(a), {x})
<1> DEFINE b == <<x>>
           c == Append(a, x)
<1>1. c = a \o b /\ b \in Seq(Lines)
  BY AppendIsConcat
<1>2. ToSet(b) = {x} /\ Ascending(b)
  BY DEF ToSet, Ascending
<1> HIDE DEF b, c
<1>3. c \in Seq(Lines) /\ ToSet(c) = ToSet(a) \cup {x}
  BY <1>1, <1>2, CatRange
<1>4. Ascending(c) <=> Ascending(a) /\ Before(ToSet(a), {x})
  BY <1>1, <1>2, CatAscending
<1> QED
  BY <1>3, <1>4 DEF c

LEMMA HeadAndTail ==
  ASSUME NEW a \in Seq(Lines), a # <<>>
  PROVE  /\ Head(a) \in Lines /\ Tail(a) \in Seq(Lines)
         /\ ToSet(a) = {Head(a)} \cup ToSet(Tail(a)) /\ ToSet(a) \subseteq Lines
         /\ Ascending(a) => Ascending(Tail(a)) /\ Before({Head(a)}, ToSet(Tail(a)))
<1> DEFINE h == <<Head(a)>>
<1>1. Head(a) \in Lines /\ Tail(a) \in Seq(Lines) /\ h \in Seq(Lines)
  BY HeadTailProperties
<1>2. a = h \o Tail(a)
  OBVIOUS
<1>3. ToSet(h) = {Head(a)}
  BY DEF ToSet
<1> HIDE DEF h
<1>4. ToSet(a) = {Head(a)} \cup ToSet(Tail(a)) /\ ToSet(a) \subseteq Lines
  BY <1>1, <1>2, <1>3, CatRange
<1>5. Ascending(a) => Ascending(Tail(a)) /\ Before({Head(a)}, ToSet(Tail(a)))
  BY <1>1, <1>2, <1>3, CatAscending
<1> QED
  BY <1>1, <1>4, <1>5

LEMMA NoLine == <<>> \in Seq(Lines) /\ ToSet(<<>>) = {} /\ Ascending(<<>>)
BY DEF ToSet, Ascending

-----------------------------------------------------------------------------
(* The invariants.                                                         *)

\* TypeOK in two parts: of what holds the lines, and of the rest.
LineTypes ==
  /\ produced \in [Sources -> Nat]
  /\ channel \in Seq(Lines) /\ Len(channel) <= Capacity
  /\ pc \in {"select", "resolve", "insert", "send"}
  /\ hand \in SUBSET Lines
  /\ buf \in Seq(Lines) /\ Len(buf) <= BatchMax
  /\ table \in Seq(Lines)
  /\ gone \in SUBSET Lines

OtherTypes ==
  /\ stream \in Seq(Lines)
  /\ local \in SUBSET Addrs /\ dropOwn \in BOOLEAN
  /\ permit \in BOOLEAN /\ enricher \in {"claims", "turns", "sleeps"}
  /\ seen \in 0..Len(table)
  /\ failures \in Nat /\ restarts \in Nat

HandInv ==
  /\ \A x, y \in hand : x = y
  /\ hand # {} => pc = "resolve"
  /\ pc \in {"select", "resolve"} => Len(buf) < BatchMax

\* Rows of the batch that are not stored yet.
Unsent == IF pc = "send" THEN {} ELSE ToSet(buf)

OrderInv ==
  /\ Ascending(table) /\ Ascending(buf) /\ Ascending(channel)
  /\ Before(ToSet(table), Unsent) /\ Before(ToSet(table), hand) /\ Before(ToSet(table), ToSet(channel))
  /\ Before(Unsent, hand) /\ Before(Unsent, ToSet(channel)) /\ Before(hand, ToSet(channel))

Made == {x \in Lines : 1 <= x.n /\ x.n <= produced[x.from]}

FateInv ==
  /\ ToSet(table) \cup InPipeline \cup gone = Made
  /\ gone \cap (ToSet(table) \cup InPipeline) = {}

LinesInv == LineTypes /\ HandInv /\ OrderInv /\ FateInv

NewsInv ==
  /\ Ascending(stream) /\ ToSet(stream) \subseteq ToSet(table)
  /\ pc = "send" => ToSet(buf) \subseteq ToSet(table) /\ Before(ToSet(stream), ToSet(buf))
  /\ failures = 0 /\ enricher # "claims" /\ seen < Len(table) => permit \/ pc = "send"

LEMMA Start == ASSUME Init PROVE LinesInv /\ OtherTypes /\ NewsInv
<1>1. LineTypes
  <2>1. produced \in [Sources -> Nat]
    BY DEF Init
  <2>2. Len(channel) = 0 /\ Len(buf) = 0 /\ channel \in Seq(Lines) /\ buf \in Seq(Lines) /\ table \in Seq(Lines)
    BY NoLine DEF Init
  <2> QED
    BY <2>1, <2>2 DEF Init, LineTypes
<1>2. /\ ToSet(table) = {} /\ ToSet(channel) = {} /\ ToSet(buf) = {} /\ ToSet(stream) = {}
      /\ Ascending(table) /\ Ascending(buf) /\ Ascending(channel) /\ Ascending(stream)
  BY NoLine DEF Init
<1>3. Made = {}
  BY DEF Init, Made, Lines
<1>4. HandInv
  BY DEF Init, HandInv
<1>5. OtherTypes
  <2>1. Len(table) = 0 /\ stream \in Seq(Lines)
    BY NoLine DEF Init
  <2>2. local \in SUBSET Addrs /\ dropOwn \in BOOLEAN /\ permit \in BOOLEAN
    BY DEF Init
  <2> QED
    BY <2>1, <2>2 DEF Init, OtherTypes
<1> QED
  BY <1>1, <1>2, <1>3, <1>4, <1>5 DEF Init, LinesInv, OrderInv, FateInv, InPipeline, Before, Unsent, NewsInv

\* What is known of the sets the invariants speak of.
LEMMA LinesTyped ==
  ASSUME LineTypes
  PROVE  /\ table \in Seq(Lines) /\ buf \in Seq(Lines) /\ channel \in Seq(Lines)
         /\ ToSet(table) \subseteq Lines /\ ToSet(buf) \subseteq Lines /\ ToSet(channel) \subseteq Lines
         /\ hand \subseteq Lines /\ gone \subseteq Lines /\ Made \subseteq Lines
BY DEF LineTypes, ToSet, Made

\* The next line of a source is new, and younger than every other.
LEMMA NextLineIsNew ==
  ASSUME LineTypes, NEW s \in Sources, Produces(s)
  PROVE  /\ NextLine(s) \in Lines /\ NextLine(s) \notin Made
         /\ Made' = Made \cup {NextLine(s)} /\ Before(Made, {NextLine(s)})
<1>1. /\ produced \in [Sources -> Nat] /\ produced' = [produced EXCEPT ![s] = @ + 1]
      /\ NextLine(s) = [from |-> s, n |-> produced[s] + 1]
  BY DEF Produces, LineTypes, NextLine
<1>2. NextLine(s) \in Lines /\ NextLine(s).from = s /\ NextLine(s).n = produced[s] + 1
  BY <1>1 DEF Lines
<1>3. \A x \in Lines : x.from \in Sources /\ x.n \in Nat /\ x = [from |-> x.from, n |-> x.n]
  BY DEF Lines
<1>4. Made' = Made \cup {NextLine(s)}
  <2>1. \A x \in Made' : x \in Made \cup {NextLine(s)}
    BY <1>1, <1>2, <1>3 DEF Made
  <2>2. \A x \in Made \cup {NextLine(s)} : x \in Made'
    BY <1>1, <1>2, <1>3 DEF Made
  <2> QED
    BY <2>1, <2>2
<1> QED
  BY <1>1, <1>2, <1>3, <1>4 DEF Made, Before

-----------------------------------------------------------------------------
(* Lines arrive.                                                           *)

\* One more line, refused or let into the channel.
LEMMA ArriveStep ==
  ASSUME LinesInv, NEW s \in Sources, Produces(s), UNCHANGED <<pc, hand, buf, table>>,
         \/ gone' = gone \cup {NextLine(s)} /\ channel' = channel
         \/ TrySend(NextLine(s))
  PROVE  LinesInv'
<1> DEFINE l == NextLine(s)
<1>1. l \in Lines /\ l \notin Made /\ Made' = Made \cup {l} /\ Before(Made, {l})
  BY NextLineIsNew DEF LinesInv
<1>2. /\ produced' \in [Sources -> Nat] /\ pc' = pc /\ hand' = hand /\ buf' = buf /\ table' = table
      /\ Unsent' = Unsent
  BY DEF Produces, LinesInv, LineTypes, Unsent
<1>3. /\ ToSet(table) \subseteq Made /\ Unsent \subseteq Made /\ hand \subseteq Made /\ ToSet(channel) \subseteq Made
      /\ gone \subseteq Made /\ channel \in Seq(Lines)
  BY LinesTyped DEF LinesInv, FateInv, InPipeline, Unsent
<1>4. HandInv'
  BY <1>2 DEF LinesInv, HandInv
<1>7. \/ gone' = gone \cup {l} /\ channel' = channel
      \/ Len(channel) < Capacity /\ channel' = Append(channel, l) /\ gone' = gone
  BY DEF TrySend, HasRoom
<1> HIDE DEF l
<1>5. CASE gone' = gone \cup {l} /\ channel' = channel
  <2>1. LineTypes'
    BY <1>1, <1>2, <1>5 DEF LinesInv, LineTypes
  <2>2. OrderInv'
    BY <1>2, <1>5 DEF LinesInv, OrderInv
  <2>3. InPipeline' = InPipeline
    BY <1>2, <1>5 DEF InPipeline
  <2>4. FateInv'
    BY <1>1, <1>2, <1>3, <1>5, <2>3 DEF LinesInv, FateInv
  <2> QED
    BY <1>4, <2>1, <2>2, <2>4 DEF LinesInv
<1>6. CASE Len(channel) < Capacity /\ channel' = Append(channel, l) /\ gone' = gone
  <2>1. channel' \in Seq(Lines) /\ Len(channel') <= Capacity
    BY <1>1, <1>3, <1>6, AppendProperties
  <2>2. LineTypes'
    BY <1>2, <1>6, <2>1 DEF LinesInv, LineTypes
  <2>3. ToSet(channel') = ToSet(channel) \cup {l} /\ (Ascending(channel') <=> Ascending(channel) /\ Before(ToSet(channel), {l}))
    BY <1>1, <1>3, <1>6, AppendLine
  <2>4. OrderInv'
    BY <1>1, <1>2, <1>3, <2>3 DEF LinesInv, OrderInv, Before
  <2>5. InPipeline' = InPipeline \cup {l}
    BY <1>2, <2>3 DEF InPipeline
  <2>6. FateInv'
    BY <1>1, <1>2, <1>3, <1>6, <2>5 DEF LinesInv, FateInv
  <2> QED
    BY <1>4, <2>2, <2>4, <2>6 DEF LinesInv
<1> QED
  BY <1>5, <1>6, <1>7

-----------------------------------------------------------------------------
(* The writer.                                                             *)

LEMMA TakeStep == ASSUME LinesInv, Take PROVE LinesInv'
<1>1. /\ pc = "select" /\ channel # <<>> /\ hand' = {Head(channel)} /\ channel' = Tail(channel) /\ pc' = "resolve"
      /\ UNCHANGED <<produced, buf, table, gone>>
  BY DEF Take
<1>2. hand = {} /\ Len(buf) < BatchMax
  BY <1>1 DEF LinesInv, HandInv
<1>3. /\ channel \in Seq(Lines) /\ Head(channel) \in Lines /\ channel' \in Seq(Lines) /\ Len(channel') <= Len(channel)
      /\ ToSet(channel) = hand' \cup ToSet(channel')
      /\ Ascending(channel) => Ascending(channel') /\ Before(hand', ToSet(channel'))
  <2>1. channel \in Seq(Lines) /\ channel # <<>>
    BY <1>1 DEF LinesInv, LineTypes
  <2>2. Tail(channel) \in Seq(Lines) /\ Len(Tail(channel)) <= Len(channel)
    BY <2>1
  <2> QED
    BY <1>1, <2>1, <2>2, HeadAndTail
<1>4. LineTypes'
  BY <1>1, <1>3 DEF LinesInv, LineTypes
<1>5. HandInv'
  BY <1>1, <1>2 DEF HandInv
<1>6. Unsent' = Unsent /\ InPipeline' = InPipeline
  BY <1>1, <1>2, <1>3 DEF Unsent, InPipeline
<1>7. OrderInv'
  BY <1>1, <1>2, <1>3, <1>6 DEF LinesInv, OrderInv, Before
<1>8. FateInv'
  BY <1>1, <1>6 DEF LinesInv, FateInv, Made
<1> QED
  BY <1>4, <1>5, <1>7, <1>8 DEF LinesInv

LEMMA ResolveStep == ASSUME LinesInv, NEW line \in hand, Resolve(line) PROVE LinesInv'
<1>1. /\ pc = "resolve" /\ hand' = {} /\ pc' = (IF Len(buf') >= BatchMax THEN "insert" ELSE "select")
      /\ UNCHANGED <<produced, channel, table>>
      /\ \/ buf' = Append(buf, line) /\ gone' = gone
         \/ gone' = gone \cup {line} /\ buf' = buf
  BY DEF Resolve
<1>2. hand = {line} /\ line \in Lines /\ Len(buf) < BatchMax /\ buf \in Seq(Lines) /\ Len(buf) \in Nat
  BY <1>1 DEF LinesInv, HandInv, LineTypes
<1>3. Unsent = ToSet(buf) /\ Unsent' = ToSet(buf)'
  BY <1>1 DEF Unsent
<1>4. CASE buf' = Append(buf, line) /\ gone' = gone
  <2>1. /\ buf' \in Seq(Lines) /\ Len(buf') = Len(buf) + 1 /\ ToSet(buf') = ToSet(buf) \cup {line}
        /\ Ascending(buf') <=> Ascending(buf) /\ Before(ToSet(buf), {line})
    BY <1>2, <1>4, AppendLine, AppendProperties
  <2>2. LineTypes'
    BY <1>1, <1>2, <1>4, <2>1 DEF LinesInv, LineTypes
  <2>3. HandInv'
    BY <1>1, <1>2, <2>1 DEF HandInv
  <2>4. OrderInv'
    BY <1>1, <1>2, <1>3, <2>1 DEF LinesInv, OrderInv, Before
  <2>5. InPipeline' = InPipeline
    BY <1>1, <1>2, <2>1 DEF InPipeline
  <2>6. FateInv'
    BY <1>1, <1>4, <2>5 DEF LinesInv, FateInv, Made
  <2> QED
    BY <2>2, <2>3, <2>4, <2>6 DEF LinesInv
<1>5. CASE gone' = gone \cup {line} /\ buf' = buf
  <2>1. LineTypes'
    BY <1>1, <1>2, <1>5 DEF LinesInv, LineTypes
  <2>2. HandInv'
    BY <1>1, <1>2, <1>5 DEF HandInv
  <2>3. OrderInv'
    BY <1>1, <1>3, <1>5 DEF LinesInv, OrderInv, Before
  <2>4. line \notin ToSet(table) \cup ToSet(buf) \cup ToSet(channel)
    BY <1>2, <1>3 DEF LinesInv, OrderInv, Before, Lines
  <2>5. InPipeline' = InPipeline \ {line} /\ line \in InPipeline
    BY <1>1, <1>2, <1>5, <2>4 DEF InPipeline
  <2>6. FateInv'
    BY <1>1, <1>5, <2>4, <2>5 DEF LinesInv, FateInv, Made
  <2> QED
    BY <2>1, <2>2, <2>3, <2>6 DEF LinesInv
<1> QED
  BY <1>1, <1>4, <1>5

LEMMA FlushTickStep == ASSUME LinesInv, FlushTick PROVE LinesInv'
<1>1. pc = "select" /\ pc' = "insert" /\ UNCHANGED <<produced, channel, hand, buf, table, gone>>
  BY DEF FlushTick
<1>2. LineTypes' /\ HandInv'
  BY <1>1 DEF LinesInv, LineTypes, HandInv
<1>3. Unsent' = Unsent /\ InPipeline' = InPipeline
  BY <1>1 DEF Unsent, InPipeline
<1> QED
  BY <1>1, <1>2, <1>3 DEF LinesInv, OrderInv, FateInv, Made

\* The batch is stored: what was unsent is in the table now.
LEMMA BatchStored ==
  ASSUME LinesInv, pc = "insert", table' = table \o buf, pc' \in {"send", "select"}, hand' = {}, hand = {}
  PROVE  /\ table' \in Seq(Lines) /\ ToSet(table') = ToSet(table) \cup ToSet(buf)
         /\ Ascending(table') /\ Before(ToSet(table'), ToSet(channel))
<1>1. table \in Seq(Lines) /\ buf \in Seq(Lines)
  BY DEF LinesInv, LineTypes
<1>2. Unsent = ToSet(buf)
  BY DEF Unsent
<1>3. table' \in Seq(Lines) /\ ToSet(table') = ToSet(table) \cup ToSet(buf)
  BY <1>1, CatRange
<1>4. Ascending(table')
  BY <1>1, <1>2, CatAscending DEF LinesInv, OrderInv
<1>5. Before(ToSet(table'), ToSet(channel))
  BY <1>2, <1>3 DEF LinesInv, OrderInv, Before
<1> QED
  BY <1>3, <1>4, <1>5

\* A batch that is not stored yet is in nothing else.
LEMMA BatchApart ==
  ASSUME LinesInv
  PROVE  /\ Unsent \cap ToSet(table) = {} /\ Unsent \cap hand = {} /\ Unsent \cap ToSet(channel) = {}
         /\ \A x \in Lines : x.n < x.n => FALSE
<1>1. Unsent \subseteq Lines
  BY LinesTyped DEF LinesInv, Unsent
<1>2. \A x \in Lines : ~ (x.n < x.n)
  BY DEF Lines
<1>3. Before(ToSet(table), Unsent) /\ Before(Unsent, hand) /\ Before(Unsent, ToSet(channel))
  BY DEF LinesInv, OrderInv
<1> QED
  BY <1>1, <1>2, <1>3 DEF Before

LEMMA InsertStep == ASSUME LinesInv, Insert PROVE LinesInv'
<1>1. /\ pc = "insert" /\ table' = table \o buf /\ pc' = "send"
      /\ UNCHANGED <<produced, channel, hand, buf, gone>>
  BY DEF Insert
<1>2. hand = {} /\ Unsent = ToSet(buf) /\ Unsent' = {}
  BY <1>1 DEF LinesInv, HandInv, Unsent
<1>3. /\ table' \in Seq(Lines) /\ ToSet(table') = ToSet(table) \cup ToSet(buf)
      /\ Ascending(table') /\ Before(ToSet(table'), ToSet(channel))
  BY <1>1, <1>2, BatchStored
<1>4. LineTypes'
  BY <1>1, <1>3 DEF LinesInv, LineTypes
<1>5. HandInv'
  BY <1>1, <1>2 DEF LinesInv, HandInv
<1>6. OrderInv'
  BY <1>1, <1>2, <1>3 DEF LinesInv, OrderInv, Before
<1>7. ToSet(table') \cup InPipeline' = ToSet(table) \cup InPipeline
  BY <1>1, <1>2, <1>3 DEF InPipeline
<1>8. FateInv'
  BY <1>1, <1>7 DEF LinesInv, FateInv, Made
<1> QED
  BY <1>4, <1>5, <1>6, <1>8 DEF LinesInv

LEMMA InsertFailsStep == ASSUME LinesInv, InsertFails PROVE LinesInv'
<1>1. /\ pc = "insert" /\ buf' = <<>> /\ pc' = "select" /\ UNCHANGED <<produced, channel, hand>>
      /\ \/ table' = table /\ gone' = gone \cup (ToSet(buf) \ ToSet(buf'))
         \/ table' = table \o buf /\ gone' = gone
  BY DEF InsertFails, AfterFailure
<1>2. /\ hand = {} /\ Unsent = ToSet(buf) /\ Unsent' = {}
      /\ buf' \in Seq(Lines) /\ Len(buf') = 0 /\ ToSet(buf') = {} /\ Ascending(buf')
  BY <1>1, NoLine DEF LinesInv, HandInv, Unsent
<1>3. ToSet(buf) \subseteq Lines /\ ToSet(buf) \subseteq InPipeline
  BY <1>1, LinesTyped DEF LinesInv, InPipeline
<1>4. HandInv'
  BY <1>1, <1>2 DEF HandInv
<1>5. CASE table' = table /\ gone' = gone \cup ToSet(buf)
  <2>1. LineTypes'
    BY <1>1, <1>2, <1>3, <1>5 DEF LinesInv, LineTypes
  <2>2. OrderInv'
    BY <1>1, <1>2, <1>5 DEF LinesInv, OrderInv, Before
  <2>3. InPipeline' = InPipeline \ ToSet(buf)
    BY <1>1, <1>2, BatchApart DEF InPipeline
  <2>4. FateInv'
    BY <1>1, <1>2, <1>3, <1>5, <2>3, BatchApart DEF LinesInv, FateInv, Made
  <2> QED
    BY <1>4, <2>1, <2>2, <2>4 DEF LinesInv
<1>6. CASE table' = table \o buf /\ gone' = gone
  <2>1. /\ table' \in Seq(Lines) /\ ToSet(table') = ToSet(table) \cup ToSet(buf)
        /\ Ascending(table') /\ Before(ToSet(table'), ToSet(channel))
    BY <1>1, <1>2, <1>6, BatchStored
  <2>2. LineTypes'
    BY <1>1, <1>2, <1>6, <2>1 DEF LinesInv, LineTypes
  <2>3. OrderInv'
    BY <1>1, <1>2, <2>1 DEF LinesInv, OrderInv, Before
  <2>4. ToSet(table') \cup InPipeline' = ToSet(table) \cup InPipeline
    BY <1>1, <1>2, <2>1 DEF InPipeline
  <2>5. FateInv'
    BY <1>1, <1>6, <2>4 DEF LinesInv, FateInv, Made
  <2> QED
    BY <1>4, <2>2, <2>3, <2>5 DEF LinesInv
<1> QED
  BY <1>1, <1>2, <1>5, <1>6

LEMMA SendStep == ASSUME LinesInv, Send PROVE LinesInv'
<1>1. /\ pc = "send" /\ buf' = <<>> /\ pc' = "select" /\ UNCHANGED <<produced, channel, hand, table, gone>>
  BY DEF Send
<1>2. /\ hand = {} /\ Unsent = {} /\ Unsent' = {}
      /\ buf' \in Seq(Lines) /\ Len(buf') = 0 /\ ToSet(buf') = {} /\ Ascending(buf')
  BY <1>1, NoLine DEF LinesInv, HandInv, Unsent
<1>3. LineTypes'
  BY <1>1, <1>2 DEF LinesInv, LineTypes
<1>4. HandInv'
  BY <1>1, <1>2 DEF HandInv
<1>5. OrderInv'
  BY <1>1, <1>2 DEF LinesInv, OrderInv
<1>6. InPipeline' = InPipeline
  BY <1>1, <1>2 DEF InPipeline
<1>7. FateInv'
  BY <1>1, <1>6 DEF LinesInv, FateInv, Made
<1> QED
  BY <1>3, <1>4, <1>5, <1>7 DEF LinesInv

LEMMA RestartStep == ASSUME LinesInv, Restart PROVE LinesInv'
<1>1. /\ channel' = <<>> /\ hand' = {} /\ buf' = <<>> /\ pc' = "select" /\ produced' = produced
      /\ \/ table' = table /\ gone' = gone \cup InPipeline
         \/ pc = "insert" /\ table' = table \o buf /\ gone' = gone \cup (InPipeline \ ToSet(buf))
  BY DEF Restart
<1>2. /\ Unsent' = {} /\ InPipeline' = {} /\ ToSet(channel') = {} /\ Ascending(channel')
      /\ channel' \in Seq(Lines) /\ Len(channel') = 0
      /\ buf' \in Seq(Lines) /\ Len(buf') = 0 /\ Ascending(buf')
  BY <1>1, NoLine DEF Unsent, InPipeline
<1>3. InPipeline \subseteq Lines
  BY LinesTyped DEF LinesInv, InPipeline
<1>4. HandInv'
  BY <1>1, <1>2 DEF HandInv
<1>5. CASE table' = table /\ gone' = gone \cup InPipeline
  <2>1. LineTypes'
    BY <1>1, <1>2, <1>3, <1>5 DEF LinesInv, LineTypes
  <2>2. OrderInv'
    BY <1>1, <1>2, <1>5 DEF LinesInv, OrderInv, Before
  <2>3. InPipeline \cap ToSet(table) = {}
    <3>1. /\ \A x \in Lines : ~ (x.n < x.n)
          /\ Before(ToSet(table), hand) /\ Before(ToSet(table), ToSet(channel))
      BY DEF Lines, LinesInv, OrderInv
    <3>2. InPipeline = ToSet(channel) \cup hand \cup Unsent
      BY DEF InPipeline, Unsent
    <3>3. hand \cap ToSet(table) = {} /\ ToSet(channel) \cap ToSet(table) = {}
      BY <3>1, LinesTyped DEF LinesInv, Before
    <3> QED
      BY <3>2, <3>3, BatchApart
  <2>4. FateInv'
    BY <1>1, <1>2, <1>5, <2>3 DEF LinesInv, FateInv, Made
  <2> QED
    BY <1>4, <2>1, <2>2, <2>4 DEF LinesInv
<1>6. CASE pc = "insert" /\ table' = table \o buf /\ gone' = gone \cup (InPipeline \ ToSet(buf))
  <2>1. hand = {} /\ Unsent = ToSet(buf)
    BY <1>6 DEF LinesInv, HandInv, Unsent
  <2>2. /\ table' \in Seq(Lines) /\ ToSet(table') = ToSet(table) \cup ToSet(buf)
        /\ Ascending(table')
    BY <1>1, <1>6, <2>1, BatchStored
  <2>3. LineTypes'
    BY <1>1, <1>2, <1>3, <1>6, <2>2 DEF LinesInv, LineTypes
  <2>4. OrderInv'
    BY <1>1, <1>2, <2>2 DEF LinesInv, OrderInv, Before
  <2>5. InPipeline \ ToSet(buf) = ToSet(channel) /\ InPipeline = ToSet(channel) \cup ToSet(buf)
    BY <1>6, <2>1, BatchApart DEF InPipeline
  <2>6. ToSet(channel) \cap ToSet(table) = {}
    <3>1. (\A x \in Lines : ~ (x.n < x.n)) /\ Before(ToSet(table), ToSet(channel))
      BY DEF Lines, LinesInv, OrderInv
    <3> QED
      BY <3>1, LinesTyped DEF LinesInv, Before
  <2>7. FateInv'
    BY <1>1, <1>2, <1>6, <2>1, <2>2, <2>5, <2>6, BatchApart DEF LinesInv, FateInv, Made
  <2> QED
    BY <1>4, <2>3, <2>4, <2>7 DEF LinesInv
<1> QED
  BY <1>1, <1>5, <1>6

LEMMA OthersLeaveTheLines ==
  ASSUME LinesInv, UNCHANGED <<produced, pipeline, table, gone>>
  PROVE  LinesInv'
BY DEF LinesInv, pipeline, LineTypes, HandInv, OrderInv, FateInv, Unsent, InPipeline, Made

LEMMA LinesStep == ASSUME LinesInv, [Next]_vars PROVE LinesInv'
<1>1. ASSUME NEW reach \in Addrs, NEW about \in Addrs \cup {NoAddr}, NEW blank \in BOOLEAN,
             Receive(reach, about, blank)
      PROVE  LinesInv'
  <2>1. /\ Produces("udp") /\ "udp" \in Sources /\ UNCHANGED <<pc, hand, buf, table>>
        /\ \/ gone' = gone \cup {NextLine("udp")} /\ channel' = channel
           \/ TrySend(NextLine("udp"))
    BY <1>1 DEF Receive, Sources
  <2> QED
    BY <2>1, ArriveStep
<1>2. ASSUME Push PROVE LinesInv'
  <2>1. Produces("pihole") /\ "pihole" \in Sources /\ UNCHANGED <<pc, hand, buf, table>>
        /\ TrySend(NextLine("pihole"))
    BY <1>2 DEF Push, Sources
  <2> QED
    BY <2>1, ArriveStep
<1>3. CASE Write
  BY <1>3, TakeStep, ResolveStep, FlushTickStep, InsertStep, InsertFailsStep, SendStep DEF Write
<1>4. CASE Enrich \/ SetDropOwn \/ UNCHANGED vars
  BY <1>4, OthersLeaveTheLines
     DEF Enrich, ClaimSome, ClaimNone, FallAsleep, Woken, Timer, SetDropOwn, vars, pipeline
<1> QED
  BY <1>1, <1>2, <1>3, <1>4, RestartStep DEF Next, Arrive

-----------------------------------------------------------------------------
(* What is made known of the stored rows.                                  *)

\* The table only grows, by a batch at a time.
LEMMA TableGrows ==
  ASSUME LinesInv, [Next]_vars
  PROVE  /\ table' = table \/ table' = table \o buf
         /\ Len(table) \in Nat /\ Len(table') \in Nat /\ Len(table) <= Len(table')
         /\ ToSet(table) \subseteq ToSet(table')
<1>1. table \in Seq(Lines) /\ buf \in Seq(Lines)
  BY DEF LinesInv, LineTypes
<1>2. table' = table \/ table' = table \o buf
  BY DEF Next, vars, Arrive, Receive, Push, SetDropOwn, Write, Take, Resolve, FlushTick, Insert, InsertFails,
         Send, Enrich, ClaimSome, ClaimNone, FallAsleep, Woken, Timer, Restart
<1>3. Len(table \o buf) = Len(table) + Len(buf) /\ Len(table) \in Nat /\ Len(buf) \in Nat
  BY <1>1
<1>4. ToSet(table) \subseteq ToSet(table \o buf)
  BY <1>1, CatRange
<1>5. CASE table' = table
  BY <1>3, <1>5
<1>6. CASE table' = table \o buf
  <2>1. Len(table') = Len(table) + Len(buf)
    BY <1>3, <1>6
  <2>2. ToSet(table) \subseteq ToSet(table')
    BY <1>4, <1>6
  <2> QED
    BY <1>2, <1>3, <2>1, <2>2
<1> QED
  BY <1>2, <1>5, <1>6

LEMMA OtherTypesStep == ASSUME LinesInv, OtherTypes, [Next]_vars PROVE OtherTypes'
<1>1. stream' \in Seq(Lines)
  <2>1. stream \in Seq(Lines) /\ buf \in Seq(Lines) /\ <<>> \in Seq(Lines)
    BY NoLine DEF LinesInv, LineTypes, OtherTypes
  <2>2. stream \o buf \in Seq(Lines) /\ stream \o <<>> \in Seq(Lines)
    BY <2>1
  <2>3. stream' = stream \/ stream' = stream \o buf \/ stream' = stream \o <<>>
    BY DEF Next, vars, Arrive, Receive, Push, SetDropOwn, Write, Take, Resolve, FlushTick, Insert, InsertFails,
           Send, Sent, Enrich, ClaimSome, ClaimNone, FallAsleep, Woken, Timer, Restart
  <2> QED
    BY <2>1, <2>2, <2>3
<1>2. local' \in SUBSET Addrs
  BY DEF OtherTypes, collector, Next, vars, Arrive, Receive, Push, SetDropOwn, Write, Take, Resolve, FlushTick,
         Insert, InsertFails, Send, Enrich, ClaimSome, ClaimNone, FallAsleep, Woken, Timer, Restart
<1>3. dropOwn' \in BOOLEAN
  <2>1. dropOwn' = dropOwn \/ dropOwn' = ~dropOwn \/ dropOwn' = TRUE
    BY DEF collector, Next, vars, Arrive, Receive, Push, SetDropOwn, Write, Take, Resolve, FlushTick,
           Insert, InsertFails, Send, Enrich, ClaimSome, ClaimNone, FallAsleep, Woken, Timer, Restart
  <2> QED
    BY <2>1, Zenon DEF OtherTypes
<1>4. permit' \in BOOLEAN
  <2>1. permit' = permit \/ permit' = TRUE \/ permit' = FALSE
    BY DEF PermitAfter, Next, vars, Arrive, Receive, Push, SetDropOwn, Write, Take, Resolve, FlushTick,
           Insert, InsertFails, Send, Enrich, ClaimSome, ClaimNone, FallAsleep, Woken, Timer, Restart
  <2> QED
    BY <2>1, Zenon DEF OtherTypes
<1>5. enricher' \in {"claims", "turns", "sleeps"}
  BY DEF OtherTypes, worker, Next, vars, Arrive, Receive, Push, SetDropOwn, Write, Take, Resolve, FlushTick,
         Insert, InsertFails, Send, Enrich, ClaimSome, ClaimNone, FallAsleep, Woken, Timer, Restart
<1>6. seen' \in 0..Len(table')
  <2>1. seen' = seen \/ seen' = Len(table)
    BY DEF worker, Next, vars, Arrive, Receive, Push, SetDropOwn, Write, Take, Resolve, FlushTick,
           Insert, InsertFails, Send, Enrich, ClaimSome, ClaimNone, FallAsleep, Woken, Timer, Restart
  <2> QED
    BY <2>1, TableGrows DEF OtherTypes
<1>7. failures' \in Nat /\ restarts' \in Nat
  <2>1. failures' = failures \/ failures' = failures + 1
    BY DEF Fails, bounds, Next, vars, Arrive, Receive, Push, SetDropOwn, Write, Take, Resolve, FlushTick,
           Insert, InsertFails, Send, Enrich, ClaimSome, ClaimNone, FallAsleep, Woken, Timer, Restart
  <2>2. restarts' = restarts \/ restarts' = restarts + 1
    BY DEF bounds, Next, vars, Arrive, Receive, Push, SetDropOwn, Write, Take, Resolve, FlushTick,
           Insert, InsertFails, Send, Enrich, ClaimSome, ClaimNone, FallAsleep, Woken, Timer, Restart
  <2> QED
    BY <2>1, <2>2 DEF OtherTypes
<1> QED
  BY <1>1, <1>2, <1>3, <1>4, <1>5, <1>6, <1>7 DEF OtherTypes

LEMMA NewsStep == ASSUME LinesInv, OtherTypes, NewsInv, [Next]_vars PROVE NewsInv'
<1>1. /\ table \in Seq(Lines) /\ buf \in Seq(Lines) /\ stream \in Seq(Lines) /\ failures \in Nat
      /\ Ascending(buf) /\ Before(ToSet(table), Unsent)
      /\ ToSet(table) \subseteq ToSet(table')
  BY TableGrows DEF LinesInv, LineTypes, OtherTypes, OrderInv
<1>2. CASE Arrive \/ SetDropOwn \/ UNCHANGED vars
  BY <1>2 DEF NewsInv, Arrive, Receive, Push, SetDropOwn, vars, pipeline, worker, bounds
<1>3. CASE Take
  BY <1>3 DEF NewsInv, Take, worker, bounds
<1>4. ASSUME NEW line \in hand, Resolve(line) PROVE NewsInv'
  <2>1. /\ pc = "resolve" /\ pc' # "send" /\ stream' = stream /\ table' = table /\ UNCHANGED <<permit, enricher, seen>>
        /\ failures' = failures \/ failures' = failures + 1
    BY <1>4 DEF Resolve, Fails, worker
  <2>2. failures' = 0 => failures = 0
    BY <1>1, <2>1
  <2> QED
    BY <2>1, <2>2 DEF NewsInv
<1>5. CASE FlushTick
  BY <1>5 DEF NewsInv, FlushTick, worker, bounds
<1>6. CASE Insert
  <2>1. pc = "insert" /\ table' = table \o buf /\ pc' = "send" /\ UNCHANGED <<buf, stream>>
    BY <1>6 DEF Insert
  <2>2. ToSet(table') = ToSet(table) \cup ToSet(buf)
    BY <1>1, <2>1, CatRange
  <2>3. Unsent = ToSet(buf)
    BY <2>1 DEF Unsent
  <2> QED
    BY <1>1, <2>1, <2>2, <2>3 DEF NewsInv, Before
<1>7. CASE InsertFails
  <2>1. stream' = stream \o <<>> /\ pc' = "select" /\ failures' = failures + 1
    BY <1>7 DEF InsertFails, Fails, Sent
  <2>2. stream' = stream /\ failures' # 0
    BY <1>1, <2>1
  <2> QED
    BY <1>1, <2>1, <2>2 DEF NewsInv
<1>8. CASE Send
  <2>1. pc = "send" /\ pc' = "select" /\ stream' = stream \o buf /\ permit' = TRUE /\ table' = table
    BY <1>8 DEF Send, Sent, PermitAfter
  <2>2. ToSet(stream') = ToSet(stream) \cup ToSet(buf)
    BY <1>1, <2>1, CatRange
  <2>3. Ascending(stream')
    BY <1>1, <2>1, CatAscending DEF NewsInv
  <2> QED
    BY <2>1, <2>2, <2>3 DEF NewsInv
<1>9. CASE Enrich
  <2>1. UNCHANGED <<pc, buf, table, stream>>
    BY <1>9 DEF Enrich, ClaimSome, ClaimNone, FallAsleep, Woken, Timer, pipeline
  <2>2. CASE ClaimSome
    BY <2>1, <2>2 DEF NewsInv, ClaimSome
  <2>3. CASE ClaimNone
    <3>1. /\ enricher' = "turns" /\ UNCHANGED <<permit, seen>>
          /\ seen = Len(table) \/ failures' # 0
      BY <1>1, <2>3 DEF ClaimNone, Fails
    <3>2. Len(table) \in Nat
      BY <1>1
    <3> QED
      BY <2>1, <3>1, <3>2 DEF NewsInv
  <2>4. CASE FallAsleep
    BY <2>1, <2>4 DEF NewsInv, FallAsleep, bounds
  <2>5. CASE Woken \/ Timer
    BY <2>1, <2>5 DEF NewsInv, Woken, Timer
  <2> QED
    BY <1>9, <2>2, <2>3, <2>4, <2>5 DEF Enrich
<1>10. CASE Restart
  BY <1>1, <1>10 DEF NewsInv, Restart
<1> QED
  BY <1>2, <1>3, <1>4, <1>5, <1>6, <1>7, <1>8, <1>9, <1>10 DEF Next, Write

-----------------------------------------------------------------------------
LEMMA AlwaysInvariant == Spec => [](LinesInv /\ OtherTypes /\ NewsInv)
<1>1. Init => LinesInv /\ OtherTypes /\ NewsInv
  BY Start
<1>2. LinesInv /\ OtherTypes /\ NewsInv /\ [Next]_vars => (LinesInv /\ OtherTypes /\ NewsInv)'
  BY LinesStep, OtherTypesStep, NewsStep
<1> QED
  BY <1>1, <1>2, PTL DEF Spec

(* The channel and the batch stay within their limits, and the variables in *)
(* their types (main.rs:114, writer.rs:239-337).                            *)
THEOREM Typing == Spec => []TypeOK
<1>1. LinesInv /\ OtherTypes => TypeOK
  <2> SUFFICES ASSUME LinesInv, OtherTypes PROVE TypeOK
    OBVIOUS
  <2> QED
    BY Zenon DEF LinesInv, LineTypes, OtherTypes, TypeOK
<1> QED
  BY <1>1, AlwaysInvariant, PTL

\* What is on its way, as the parts the invariants speak of.
LEMMA WayInParts ==
  ASSUME LinesInv
  PROVE  /\ OnTheWay \in Seq(Lines) /\ ToSet(OnTheWay) = InPipeline
         /\ StoredOnceInOrder
<1> DEFINE u == IF pc = "send" THEN <<>> ELSE buf
           q == SetToSeq(hand)
<1>1. u \in Seq(Lines) /\ ToSet(u) = Unsent /\ Ascending(u)
  BY NoLine DEF LinesInv, LineTypes, OrderInv, Unsent
<1>2. q \in Seq(Lines) /\ ToSet(q) = hand /\ Ascending(q)
  BY HandAsSequence DEF LinesInv, LineTypes, HandInv
<1>3. table \in Seq(Lines) /\ channel \in Seq(Lines)
  BY DEF LinesInv, LineTypes
<1>4. OnTheWay = (u \o q) \o channel
  BY DEF OnTheWay
<1> HIDE DEF u, q
<1>5. u \o q \in Seq(Lines) /\ ToSet(u \o q) = Unsent \cup hand /\ Ascending(u \o q)
  BY <1>1, <1>2, CatRange, CatAscending DEF LinesInv, OrderInv
<1>6. /\ OnTheWay \in Seq(Lines) /\ ToSet(OnTheWay) = Unsent \cup hand \cup ToSet(channel)
      /\ Ascending(OnTheWay)
  <2>1. Before(Unsent \cup hand, ToSet(channel))
    BY DEF LinesInv, OrderInv, Before
  <2>2. Ascending(channel)
    BY DEF LinesInv, OrderInv
  <2>3. OnTheWay \in Seq(Lines) /\ ToSet(OnTheWay) = (Unsent \cup hand) \cup ToSet(channel)
    BY <1>3, <1>4, <1>5, CatRange
  <2>4. Before(ToSet(u \o q), ToSet(channel))
    BY <1>5, <2>1
  <2>5. Ascending((u \o q) \o channel)
    BY <1>3, <1>5, <2>2, <2>4, CatAscending
  <2> QED
    BY <1>4, <2>3, <2>5
<1>7. Before(ToSet(table), ToSet(OnTheWay))
  BY <1>6 DEF LinesInv, OrderInv, Before
<1>8. StoredOnceInOrder
  BY <1>3, <1>6, <1>7, CatAscending DEF StoredOnceInOrder, LinesInv, OrderInv
<1> QED
  BY <1>6, <1>8 DEF InPipeline, Unsent

LEMMA ExactlyOnePlace == ASSUME LinesInv PROVE Accounted
<1> SUFFICES ASSUME NEW s \in Sources, NEW n \in 1..produced[s]
             PROVE  Cardinality({place \in {"table", "way", "gone"} :
                      [from |-> s, n |-> n] \in
                        CASE place = "table" -> ToSet(table)
                          [] place = "way"   -> ToSet(OnTheWay)
                          [] place = "gone"  -> gone}) = 1
  BY DEF Accounted
<1> DEFINE l == [from |-> s, n |-> n]
           In(place) == l \in CASE place = "table" -> ToSet(table)
                                [] place = "way"   -> ToSet(OnTheWay)
                                [] place = "gone"  -> gone
           P == {place \in {"table", "way", "gone"} : In(place)}
<1>1. l \in Made
  <2>1. produced[s] \in Nat
    BY DEF LinesInv, LineTypes
  <2> QED
    BY <2>1 DEF Made, Lines
<1>2. In("table") = (l \in ToSet(table)) /\ In("way") = (l \in InPipeline) /\ In("gone") = (l \in gone)
  BY WayInParts
<1>3. l \in ToSet(table) \/ l \in InPipeline \/ l \in gone
  BY <1>1 DEF LinesInv, FateInv
<1>4. ~(l \in gone /\ (l \in ToSet(table) \/ l \in InPipeline))
  BY DEF LinesInv, FateInv
<1>5. ~(l \in ToSet(table) /\ l \in InPipeline)
  <2>1. /\ \A x \in Lines : ~ (x.n < x.n)
        /\ Before(ToSet(table), Unsent) /\ Before(ToSet(table), hand) /\ Before(ToSet(table), ToSet(channel))
    BY DEF Lines, LinesInv, OrderInv
  <2>2. InPipeline = ToSet(channel) \cup hand \cup Unsent
    BY DEF InPipeline, Unsent
  <2> QED
    BY <1>1, <2>1, <2>2 DEF Before, Made
<1> HIDE DEF l, In
<1>6. \E place : P = {place}
  <2>1. CASE In("table")
    BY <1>2, <1>4, <1>5, <2>1
  <2>2. CASE In("way")
    BY <1>2, <1>4, <1>5, <2>2
  <2>3. CASE In("gone")
    BY <1>2, <1>4, <1>5, <2>3
  <2> QED
    BY <1>2, <1>3, <2>1, <2>2, <2>3
<1>7. Cardinality(P) = 1
  BY <1>6, FS_Singleton
<1> QED
  BY <1>7 DEF P, In, l

(* Every line has one fate and keeps its place: whatever fails and however  *)
(* often the process is restarted, nothing is stored twice, overtaken or    *)
(* lost without a trace (writer.rs:239-337).                                *)
THEOREM EveryLineHasOneFate == Spec => []EveryLineCounted
<1>1. LinesInv => EveryLineCounted
  BY WayInParts, ExactlyOnePlace DEF EveryLineCounted
<1> QED
  BY <1>1, AlwaysInvariant, PTL

(* What the streams were sent is stored, once and in its order, and a row   *)
(* stored behind the worker's back leaves it a wake-up                      *)
(* (writer.rs:290-305, worker.rs:629-640).                                  *)
THEOREM NewsFollowsTheTable == Spec => []NewsFollowTable
<1>1. NewsInv => NewsFollowTable
  BY DEF NewsInv, NewsFollowTable, StreamFollowsTable, NoLostWakeup
<1> QED
  BY <1>1, AlwaysInvariant, PTL
=============================================================================
