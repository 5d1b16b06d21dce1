-------------------------------- MODULE Ingest --------------------------------
(***************************************************************************)
(* From the datagram to the stored row: the syslog receiver (udp.rs,       *)
(* collector.rs), the Pi-hole task's pushes (pihole.rs), the bounded       *)
(* channel between them and the writer (main.rs), the writer's batches     *)
(* (writer.rs), and the wake-up of the enrichment worker (worker.rs).      *)
(*                                                                         *)
(* A line is the n-th one its source produced.  A statement that fails may *)
(* have been carried out: then only its answer was lost.  Nothing in the   *)
(* pipeline outlives the process, and main.rs does not wait for the writer *)
(* when it ends, so a shutdown is a crash.                                 *)
(***************************************************************************)
EXTENDS Integers, Sequences, FiniteSets, SequencesExt

CONSTANTS
  MaxLines,     \* [Sources -> Nat], bound: lines each source produces
  Addrs,        \* addresses senders reach this host by
  NoAddr,       \* a line that is not about the syslog port
  Capacity,     \* of the channel
  BatchMax,     \* rows in one INSERT
  MaxFailures,  \* bound: statements that fail
  MaxRestarts   \* bound: ends of the process

Sources == {"udp", "pihole"}

ASSUME IngestAssumption ==
  /\ MaxLines \in [Sources -> Nat]
  /\ NoAddr \notin Addrs
  /\ Capacity \in Nat \ {0} /\ BatchMax \in Nat \ {0}
  /\ MaxFailures \in Nat /\ MaxRestarts \in Nat

VARIABLES
  produced,  \* [Sources -> Nat], lines so far
  channel,   \* lines accepted and not yet taken, in order
  pc,        \* where run_writer is: select, resolve, insert, send
  hand,      \* the line being resolved: {} or {line}
  buf,       \* resolved rows of the next batch
  table,     \* the stored rows, in the order of their ids
  stream,    \* the lines sent as LiveEvent::Row
  gone,      \* history: lines that were dropped anywhere
  local,     \* Collector.local, the addresses learned so far
  dropOwn,   \* Collector.drop_own
  permit,    \* the permit of the Notify wake_enricher
  enricher,  \* run_worker: it claims, turns to sleep, or sleeps
  seen,      \* how many stored rows it has claimed
  failures,  \* bound counter
  restarts   \* bound counter

pipeline  == <<channel, pc, hand, buf>>
collector == <<local, dropOwn>>
worker    == <<enricher, seen>>
bounds    == <<failures, restarts>>
vars == <<produced, pipeline, table, stream, gone, collector, permit, worker, bounds>>

Lines == [from : Sources, n : Nat]

\* One more failing statement, within the bound.
Fails == failures < MaxFailures /\ failures' = failures + 1

-----------------------------------------------------------------------------
Init ==
  /\ produced = [s \in Sources |-> 0]
  /\ channel = <<>> /\ pc = "select" /\ hand = {} /\ buf = <<>>
  /\ table = <<>> /\ stream = <<>> /\ gone = {}
  /\ local = {} /\ dropOwn = TRUE
  /\ permit = FALSE /\ enricher = "claims" /\ seen = 0
  /\ failures = 0 /\ restarts = 0

\* Mutant of HasRoom: off by one.
HasRoomForOneMore == Len(channel) <= Capacity

HasRoom == Len(channel) < Capacity

\* try_send(): a full channel refuses the line, nobody waits.
TrySend(line) ==
  IF HasRoom
  THEN channel' = Append(channel, line) /\ UNCHANGED gone
  ELSE gone' = gone \cup {line} /\ UNCHANGED channel

NextLine(s) == [from |-> s, n |-> produced[s] + 1]

Produces(s) ==
  /\ produced[s] < MaxLines[s]
  /\ produced' = [produced EXCEPT ![s] = @ + 1]

\* A datagram from a sender that reaches us by `reach`; learning that may fail.
\* The line is blank, or about the way of the log messages itself at `about`.
Receive(reach, about, blank) ==
  /\ Produces("udp")
  /\ local' \in {local, local \cup {reach}}
  /\ IF blank \/ (dropOwn /\ about \in local')
     THEN gone' = gone \cup {NextLine("udp")} /\ UNCHANGED channel
     ELSE TrySend(NextLine("udp"))
  /\ UNCHANGED <<pc, hand, buf, table, stream, dropOwn, permit, worker, bounds>>

\* run_pihole() pushes one query it fetched.
Push ==
  /\ Produces("pihole")
  /\ TrySend(NextLine("pihole"))
  /\ UNCHANGED <<pc, hand, buf, table, stream, collector, permit, worker, bounds>>

\* run_bookkeeping() reads the operator's switch.
SetDropOwn ==
  /\ dropOwn' = ~dropOwn
  /\ UNCHANGED <<produced, pipeline, table, stream, gone, local, permit, worker, bounds>>

-----------------------------------------------------------------------------
(* run_writer().                                                           *)

Take ==
  /\ pc = "select"
  /\ channel # <<>>
  /\ hand' = {Head(channel)}
  /\ channel' = Tail(channel)
  /\ pc' = "resolve"
  /\ UNCHANGED <<produced, buf, table, stream, gone, collector, permit, worker, bounds>>

\* resolve(): the line becomes a row of the batch, or is dropped.
Resolve(line) ==
  /\ pc = "resolve"
  /\ line \in hand
  /\ hand' = {}
  /\ \/ buf' = Append(buf, line) /\ UNCHANGED <<gone, failures>>
     \/ Fails /\ gone' = gone \cup {line} /\ UNCHANGED buf
  /\ pc' = IF Len(buf') >= BatchMax THEN "insert" ELSE "select"
  /\ UNCHANGED <<produced, channel, table, stream, collector, permit, worker, restarts>>

\* Mutant of FlushDue: only full batches are written.
FlushDueFull == Len(buf) >= BatchMax

FlushDue == buf # <<>>

\* The 200 ms tick.
FlushTick ==
  /\ pc = "select"
  /\ FlushDue
  /\ pc' = "insert"
  /\ UNCHANGED <<produced, channel, hand, buf, table, stream, gone, collector,
                 permit, worker, bounds>>

\* Mutant of AfterFailure: the batch is kept for another try.
AfterFailureKept(rows) == rows

\* What is left of a batch whose INSERT failed: nothing.
AfterFailure(rows) == <<>>

\* The live events of a batch, once its INSERT has come back.
Sent(ok, rows) == IF ok THEN rows ELSE <<>>

\* flush(): one INSERT for the whole batch.
Insert ==
  /\ pc = "insert"
  /\ table' = table \o buf
  /\ pc' = "send"
  /\ UNCHANGED <<produced, channel, hand, buf, stream, gone, collector, permit, worker, bounds>>

\* It comes back with an error, carried out or not.
InsertFails ==
  /\ pc = "insert"
  /\ Fails
  /\ buf' = AfterFailure(buf)
  /\ \/ UNCHANGED table /\ gone' = gone \cup (ToSet(buf) \ ToSet(buf'))
     \/ table' = table \o buf /\ UNCHANGED gone
  /\ stream' = stream \o Sent(FALSE, buf)
  /\ pc' = "select"
  /\ UNCHANGED <<produced, channel, hand, collector, permit, worker, restarts>>

\* Mutant of PermitAfter: "without a receiver notify_one is a no-op".
PermitAfterNoOp == permit \/ enricher = "sleeps"

\* notify_one() wakes the sleeper, or leaves it a permit.
PermitAfter == TRUE

\* After the cache was read: the live events, then the wake-up.
Send ==
  /\ pc = "send"
  /\ stream' = stream \o Sent(TRUE, buf)
  /\ buf' = <<>>
  /\ permit' = PermitAfter
  /\ pc' = "select"
  /\ UNCHANGED <<produced, channel, hand, table, gone, collector, worker, bounds>>

-----------------------------------------------------------------------------
(* run_worker(), as far as the writer wakes it.                            *)

\* It claims until there is nothing left or a statement fails.
ClaimSome ==
  /\ enricher = "claims"
  /\ seen < Len(table)
  /\ seen' = Len(table)
  /\ UNCHANGED <<produced, pipeline, table, stream, gone, collector, permit, enricher, bounds>>

ClaimNone ==
  /\ enricher = "claims"
  /\ \/ seen = Len(table) /\ UNCHANGED failures
     \/ Fails
  /\ enricher' = "turns"
  /\ UNCHANGED <<produced, pipeline, table, stream, gone, collector, permit, seen, restarts>>

\* From the answer of the claim to the select! the writer may go on.
FallAsleep ==
  /\ enricher = "turns"
  /\ enricher' = "sleeps"
  /\ UNCHANGED <<produced, pipeline, table, stream, gone, collector, permit, seen, bounds>>

Woken ==
  /\ enricher = "sleeps"
  /\ permit
  /\ permit' = FALSE
  /\ enricher' = "claims"
  /\ UNCHANGED <<produced, pipeline, table, stream, gone, collector, seen, bounds>>

\* The two second timer; a permit stays for the next time.
Timer ==
  /\ enricher = "sleeps"
  /\ enricher' = "claims"
  /\ UNCHANGED <<produced, pipeline, table, stream, gone, collector, permit, seen, bounds>>

-----------------------------------------------------------------------------
\* The process ends and is started again.  An INSERT under way may still have
\* been carried out.
InPipeline == ToSet(channel) \cup hand \cup (IF pc = "send" THEN {} ELSE ToSet(buf))

Restart ==
  /\ restarts < MaxRestarts
  /\ restarts' = restarts + 1
  /\ \/ UNCHANGED table /\ gone' = gone \cup InPipeline
     \/ /\ pc = "insert"
        /\ table' = table \o buf
        /\ gone' = gone \cup (InPipeline \ ToSet(buf))
  /\ channel' = <<>> /\ hand' = {} /\ buf' = <<>> /\ pc' = "select"
  /\ local' = {} /\ dropOwn' = TRUE
  /\ permit' = FALSE /\ enricher' = "claims"
  /\ UNCHANGED <<produced, stream, seen, failures>>

Arrive ==
  \/ \E reach \in Addrs, about \in Addrs \cup {NoAddr}, blank \in BOOLEAN :
       Receive(reach, about, blank)
  \/ Push

Write ==
  \/ Take
  \/ \E line \in hand : Resolve(line)
  \/ FlushTick
  \/ Insert \/ InsertFails
  \/ Send

Enrich == ClaimSome \/ ClaimNone \/ FallAsleep \/ Woken \/ Timer

Next == Arrive \/ SetDropOwn \/ Write \/ Enrich \/ Restart

Spec == Init /\ [][Next]_vars

\* The writer is a task the runtime schedules again and again, and its timer
\* does not stop; nothing makes lines arrive.
FairSpec == Spec /\ WF_vars(Write)

-----------------------------------------------------------------------------
TypeOK ==
  /\ produced \in [Sources -> Nat]
  /\ channel \in Seq(Lines) /\ Len(channel) <= Capacity
  /\ pc \in {"select", "resolve", "insert", "send"}
  /\ hand \in SUBSET Lines
  /\ buf \in Seq(Lines) /\ Len(buf) <= BatchMax
  /\ table \in Seq(Lines) /\ stream \in Seq(Lines)
  /\ gone \in SUBSET Lines
  /\ local \in SUBSET Addrs /\ dropOwn \in BOOLEAN
  /\ permit \in BOOLEAN /\ enricher \in {"claims", "turns", "sleeps"}
  /\ seen \in 0..Len(table)
  /\ failures \in Nat /\ restarts \in Nat

Ascending(s) ==
  \A i, j \in DOMAIN s : i < j /\ s[i].from = s[j].from => s[i].n < s[j].n

\* The rows on their way, oldest first.
OnTheWay ==
  (IF pc = "send" THEN <<>> ELSE buf) \o SetToSeq(hand) \o channel

(* The rows of a source are stored once and in the order it produced them,  *)
(* and what is still on its way comes after what is stored: no failure and  *)
(* no restart makes the writer store a line twice or overtake one           *)
(* (writer.rs:307-310).                                                     *)
StoredOnceInOrder == Ascending(table \o OnTheWay)

(* No line vanishes without a trace: each one produced is stored, on its    *)
(* way, or was dropped, and never two of these.                             *)
Accounted ==
  \A s \in Sources : \A n \in 1..produced[s] :
    Cardinality({place \in {"table", "way", "gone"} :
      [from |-> s, n |-> n] \in
        CASE place = "table" -> ToSet(table)
          [] place = "way"   -> ToSet(OnTheWay)
          [] place = "gone"  -> gone}) = 1

(* Every line has one fate and keeps its place: nothing is stored twice,    *)
(* overtaken or lost without a trace (writer.rs:239-337).                   *)
EveryLineCounted == StoredOnceInOrder /\ Accounted

(* The streams see a row after it is stored, once, and in the order of the  *)
(* table, so a reload never shows less than the stream did                  *)
(* (writer.rs:290-300).                                                     *)
StreamFollowsTable ==
  /\ ToSet(stream) \subseteq ToSet(table)
  /\ Ascending(stream)

(* While the worker sleeps, rows it has not claimed come with a wake-up     *)
(* that is set or about to be: none falls into the gap between its last     *)
(* claim and its sleep (writer.rs:302-305, worker.rs:629-640).              *)
NoLostWakeup ==
  failures = 0 /\ enricher = "sleeps" /\ seen < Len(table)
  => permit \/ pc = "send"

(* What is stored is made known: to the streams and to the worker           *)
(* (writer.rs:290-305).                                                     *)
NewsFollowTable == StreamFollowsTable /\ NoLostWakeup

(* Every line the channel accepted is stored or dropped some time; a batch  *)
(* that never fills is written too (writer.rs:321-337).                     *)
EveryLineSettles == []<>(OnTheWay = <<>>)
=============================================================================
