-------------------------------- MODULE LogView --------------------------------
(***************************************************************************)
(* The log view: a page of rows from /api/logs (logs.rs) on top of which   *)
(* the live stream (stream.rs) puts the rows that have just been written   *)
(* and fills in what the enrichment finds out about the ones shown         *)
(* (LogsView.tsx, enrichment.ts).  The writer stores a row, looks up what  *)
(* is known of its remote address and then sends it (writer.rs); the       *)
(* worker stores its facts and then announces them.  Page, stream, writer  *)
(* and worker run concurrently, and answers to page requests come in any   *)
(* order.                                                                  *)
(***************************************************************************)
EXTENDS StreamVerdicts, Sequences, SequencesExt

CONSTANTS
  Kinds,        \* names of the rows that can be written
  Content,      \* [Kinds -> the row, as it is once enriched]
  Remote,       \* [Kinds -> remote address of the row, or None]
  Filters,      \* names of the filters the user sets
  Setting,      \* [Filters -> the filter]
  Opened,       \* the filter the view is opened with
  Log,          \* the rows stored by then
  Capacity,     \* of the broadcast channel
  PageSize,
  MaxRows,      \* bound: rows written
  MaxTime,      \* bound: timestamps are 1..MaxTime
  MaxRequests,  \* bound: page requests
  MaxFailures   \* bound: failing requests, broken connections and pauses

Cursors == [ts : Nat, id : Nat]
Shown   == [id : Nat, facts : BOOLEAN]
Pages   == [rows : Seq(Shown), next : Cursors \cup {None}, listed : SUBSET Nat]

ASSUME LogViewAssumption ==
  /\ Opened \in Filters
  /\ \A k \in Kinds : IsRow(Content[k])
  /\ \A f \in Filters : IsFilter(Setting[f])
  /\ Kinds \subseteq DOMAIN Remote
  /\ \A k \in Kinds : Remote[k] \in {None, Content[k].src, Content[k].dst}
  /\ None \notin Cursors \cup Pages
  /\ Log \in Seq([kind : Kinds, ts : 1..MaxTime, facts : {FALSE}])
  /\ Capacity \in Nat \ {0} /\ PageSize \in Nat \ {0}
  /\ MaxRows \in Nat /\ MaxTime \in Nat /\ MaxRequests \in Nat \ {0} /\ MaxFailures \in Nat

VARIABLES
  table,       \* the stored rows by id: [kind, ts, facts]
  known,       \* addresses whose facts are stored
  sending,     \* the row the writer is about to send: {} or {[id, facts]}
  announcing,  \* addresses the worker is about to announce
  queue,       \* events of this connection that are not yet handled
  lagged,      \* how many of them were overwritten
  suspended_sent,
  query,       \* name of the filter this connection was opened with
  filter,      \* name of the filter in props.query
  rows,        \* the rows on the screen: [id, facts]
  beforeStack, \* cursors of the pages walked through
  nextCursor,
  paused, suspended,
  requests,    \* page requests under way
  asked,       \* how many were made
  shown,       \* history: number of the request whose answer is shown, or 0
  overtaken,   \* history: the page shown was not asked for from the page before it
  base,        \* history: rows listed when the walk's first page was read
  walked,      \* history: rows shown since then
  straddled,   \* history: rows on their way while a page was read
  excused,     \* history: rows that missed the announcement of their facts
  failures     \* bound counter

backend  == <<table, known>>
channel  == <<queue, lagged, suspended_sent, query>>
screen   == <<rows, beforeStack, nextCursor, suspended>>
history  == <<base, walked, straddled, excused, overtaken>>
vars == <<backend, sending, announcing, channel, filter, screen, paused, requests, asked,
          shown, history, failures>>

Ids == 1..Len(table)

\* A row as the database has it, with or without its facts.
Dressed(kind, ts, facts) ==
  LET row == [Content[kind] EXCEPT !.ts = ts] IN IF facts THEN row ELSE Plain(row)

RowOf(id, facts) == Dressed(table[id].kind, table[id].ts, facts)
AddressOf(id)    == Remote[table[id].kind]
Ends(id)         == {Content[table[id].kind].src, Content[table[id].kind].dst}
Stored(id)       == RowOf(id, table[id].facts)

-----------------------------------------------------------------------------
(* get_logs(): one page, newest first; the cursor is the last row's key.   *)

Key(id) == [ts |-> table[id].ts, id |-> id]

\* The order of the log, in which the ids tell simultaneous rows apart.
Before(k, cursor) == k.ts < cursor.ts \/ (k.ts = cursor.ts /\ k.id < cursor.id)

\* Mutant of Continues: rows of the cursor's timestamp are skipped.
ContinuesByTime(id, cursor) == cursor = None \/ Key(id).ts < cursor.ts

\* The page goes on below its cursor.
Continues(id, cursor) == cursor = None \/ Before(Key(id), cursor)

Page(f, cursor) ==
  LET listed == {id \in Ids : Lists(Stored(id), Setting[f]) /\ Continues(id, cursor)}
      newer(id) == {j \in listed : Before(Key(id), Key(j))}
      size == IF Cardinality(listed) < PageSize THEN Cardinality(listed) ELSE PageSize
  IN [i \in 1..size |-> CHOOSE id \in listed : Cardinality(newer(id)) = i - 1]

\* loadPage(): the request goes out; what is shown stays until its answer.
LoadPage(f, cursor) ==
  /\ asked < MaxRequests
  /\ asked' = asked + 1
  /\ requests' = requests \cup
       {[n |-> asked + 1, f |-> f, before |-> cursor, page |-> None, open |-> {},
         steady |-> cursor = None \/ requests = {}]}

\* Rows that are stored and whose event has not been handled.
OnTheWay == {s.id : s \in sending} \cup {queue[i].id : i \in {j \in DOMAIN queue : queue[j].what = "row"}}

\* The database is read for a request.
Read(req) ==
  /\ req.page = None
  /\ LET ids  == Page(req.f, req.before)
         page == [i \in DOMAIN ids |-> [id |-> ids[i], facts |-> table[ids[i]].facts]]
     IN requests' = (requests \ {req}) \cup
          {[req EXCEPT !.page = [rows |-> page,
                                 next |-> IF ids = <<>> THEN None ELSE Key(Last(ids)),
                                 listed |-> {id \in Ids : Lists(Stored(id), Setting[req.f])}],
                       !.open = OnTheWay]}
  /\ UNCHANGED <<backend, sending, announcing, channel, filter, screen, paused, asked, shown,
                 history, failures>>

RowIds(seq) == {seq[i].id : i \in DOMAIN seq}

PageShown(req) == req.page.rows

\* The answer replaces the page, whatever was asked for since.
Answer(req) ==
  /\ req.page # None
  /\ requests' = requests \ {req}
  /\ rows' = PageShown(req)
  /\ nextCursor' = req.page.next
  /\ shown' = req.n
  /\ overtaken' = (req.n < asked \/ ~req.steady \/ (overtaken /\ req.before # None))
  /\ base' = IF req.before = None THEN req.page.listed ELSE base
  /\ walked' = RowIds(req.page.rows) \cup (IF req.before = None THEN {} ELSE walked)
  /\ straddled' = straddled \cup req.open
  /\ excused' = excused \cup
       {r.id : r \in {s \in Range(req.page.rows) : ~s.facts /\ table[s.id].facts}}
  /\ UNCHANGED <<backend, sending, announcing, channel, filter, beforeStack, paused, suspended,
                 asked, failures>>

\* No answer, or not a good one: an empty page.
AnswerFails(req) ==
  /\ failures < MaxFailures /\ failures' = failures + 1
  /\ requests' = requests \ {req}
  /\ rows' = <<>> /\ nextCursor' = None
  /\ shown' = 0
  /\ overtaken' = (overtaken \/ ~req.steady)
  /\ UNCHANGED <<backend, sending, announcing, channel, filter, beforeStack, paused, suspended,
                 asked, base, walked, straddled, excused>>

-----------------------------------------------------------------------------
(* The broadcast channel and this view's subscription.                     *)

\* Mutant of Broadcast: a ring without a bound.
BroadcastAll(e) == queue' = Append(queue, e) /\ UNCHANGED lagged

\* A full ring overwrites its oldest event.
Broadcast(e) ==
  IF Len(queue) < Capacity
  THEN queue' = Append(queue, e) /\ UNCHANGED lagged
  ELSE queue' = Append(Tail(queue), e) /\ lagged' = lagged + 1

IdsOf(a) == {id \in Ids : a \in Ends(id)}

\* The rows whose facts are in the event that is overwritten.
Overwritten ==
  IF Len(queue) = Capacity /\ Head(queue).what = "enriched" THEN IdsOf(Head(queue).ip) ELSE {}

\* One transaction of the writer; the row has no facts yet.
Store(kind, ts) ==
  /\ sending = {} /\ Len(table) < MaxRows
  /\ table' = Append(table, [kind |-> kind, ts |-> ts, facts |-> FALSE])
  /\ sending' = {[id |-> Len(table) + 1, read |-> FALSE, facts |-> FALSE]}
  /\ UNCHANGED <<known, announcing, channel, filter, screen, paused, requests, asked, shown,
                 history, failures>>

\* known_facts(): what is stored of the row's address by now.
LookUp ==
  \E s \in sending :
    /\ ~s.read
    /\ sending' = {[s EXCEPT !.read = TRUE, !.facts = AddressOf(s.id) \in known]}
    /\ UNCHANGED <<backend, announcing, channel, filter, screen, paused, requests, asked, shown,
                   history, failures>>

\* The announcement may have been faster than the row it is for.
Send ==
  \E s \in sending :
    /\ s.read
    /\ sending' = {}
    /\ Broadcast([what |-> "row", id |-> s.id, facts |-> s.facts])
    /\ excused' = excused \cup Overwritten \cup
         {id \in {s.id} : ~s.facts /\ table[id].facts /\ AddressOf(id) \notin announcing}
    /\ UNCHANGED <<backend, announcing, suspended_sent, query, filter, screen, paused, requests, asked,
                   shown, base, walked, straddled, overtaken, failures>>

\* A pass of the worker: the facts of an address and the rows waiting for them.
Enrich(a) ==
  /\ a \notin announcing
  /\ \E id \in Ids : AddressOf(id) = a /\ ~table[id].facts
  /\ table' = [id \in Ids |-> IF AddressOf(id) = a THEN [table[id] EXCEPT !.facts = TRUE]
                              ELSE table[id]]
  /\ known' = known \cup {a}
  /\ announcing' = announcing \cup {a}
  /\ UNCHANGED <<sending, channel, filter, screen, paused, requests, asked, shown, history, failures>>

Announce(a) ==
  /\ a \in announcing
  /\ announcing' = announcing \ {a}
  /\ Broadcast([what |-> "enriched", ip |-> a])
  /\ excused' = excused \cup Overwritten
  /\ UNCHANGED <<backend, sending, suspended_sent, query, filter, screen, paused, requests, asked, shown,
                 base, walked, straddled, overtaken, failures>>

atFirstPage == Len(beforeStack) = 1

\* Mutant of applyEnrichment: only the source address is compared.
PatchesSources(row, a) == IF Content[table[row.id].kind].src = a THEN [row EXCEPT !.facts = TRUE] ELSE row

\* applyEnrichment(): both addresses; what a row has already stays.
applyEnrichment(row, a) ==
  IF a \in Ends(row.id) THEN [row EXCEPT !.facts = TRUE] ELSE row

\* A new row goes on top of the newest page and pushes the last one out.
ShowRow(e) ==
  IF paused \/ ~atFirstPage
  THEN UNCHANGED <<rows, walked>>
  ELSE /\ rows' = SubSeq(<<[id |-> e.id, facts |-> e.facts]>> \o rows, 1,
                         IF Len(rows) < PageSize THEN Len(rows) + 1 ELSE PageSize)
       /\ walked' = walked \cup {e.id}

Handle(e) ==
  \/ /\ e.what = "enriched"
     /\ rows' = [i \in DOMAIN rows |-> applyEnrichment(rows[i], e.ip)]
     /\ UNCHANGED <<suspended_sent, suspended, walked>>
  \/ /\ e.what = "row"
     /\ LET verdict == matches_live(RowOf(e.id, e.facts), Setting[query])
        IN /\ IF verdict = "Pass" THEN ShowRow(e) ELSE UNCHANGED <<rows, walked>>
           /\ suspended_sent' = (suspended_sent \/ verdict = "Unknowable")
           /\ suspended' = (suspended \/ (verdict = "Unknowable" /\ ~suspended_sent))

\* A lag is reported first, to nobody: the view has no handler for it.
Deliver ==
  /\ queue # <<>>
  /\ IF lagged > 0
     THEN lagged' = 0 /\ UNCHANGED <<queue, suspended_sent, screen, walked>>
     ELSE /\ Handle(Head(queue))
          /\ queue' = Tail(queue)
          /\ UNCHANGED <<lagged, beforeStack, nextCursor>>
  /\ UNCHANGED <<backend, sending, announcing, query, filter, paused, requests, asked, shown,
                 base, straddled, excused, overtaken, failures>>

\* A connection starts with what is sent from now on.
Subscribe(f) ==
  /\ query' = f
  /\ queue' = <<>> /\ lagged' = 0 /\ suspended_sent' = FALSE
  /\ excused' = excused \cup RowIds(rows)

\* EventSource connects again by itself.
Reconnect ==
  /\ failures < MaxFailures /\ failures' = failures + 1
  /\ Subscribe(filter)
  /\ UNCHANGED <<backend, sending, announcing, filter, screen, paused, requests, asked, shown,
                 base, walked, straddled, overtaken>>

-----------------------------------------------------------------------------
(* The user.                                                               *)

\* Mutant of SetFilter: the connection stays, with the events of the old filter.
SetFilterOnly(f) ==
  /\ f # filter
  /\ filter' = f
  /\ suspended' = FALSE
  /\ LoadPage(f, None)
  /\ UNCHANGED <<backend, sending, announcing, channel, rows, nextCursor, paused, shown, base,
                 walked, straddled, excused, overtaken, failures, beforeStack>>

\* The effect on props.query: first page and a new connection.
SetFilter(f) ==
  /\ f # filter
  /\ filter' = f
  /\ suspended' = FALSE
  /\ beforeStack' = <<None>>
  /\ LoadPage(f, None)
  /\ Subscribe(f)
  /\ UNCHANGED <<backend, sending, announcing, rows, nextCursor, paused, shown, base, walked,
                 straddled, overtaken, failures>>

TogglePause ==
  /\ paused' = ~paused
  /\ paused' => failures < MaxFailures
  /\ failures' = failures + (IF paused' THEN 1 ELSE 0)
  /\ UNCHANGED <<backend, sending, announcing, channel, filter, screen, requests, asked, shown,
                 history>>

Walk(stack) ==
  /\ beforeStack' = stack
  /\ LoadPage(filter, Last(stack))
  /\ UNCHANGED <<backend, sending, announcing, channel, filter, rows, nextCursor, paused,
                 suspended, shown, history, failures>>

\* The cursor is the one of the page that was answered last.
goNext      == nextCursor # None /\ Walk(Append(beforeStack, nextCursor))
goPrev      == ~atFirstPage /\ Walk(Front(beforeStack))
refreshPage == Walk(beforeStack)

\* Nothing is under way: the view waits for the user and for new lines.
AtRest ==
  /\ requests = {} /\ queue = <<>> /\ sending = {} /\ announcing = {}
  /\ UNCHANGED vars

Init ==
  /\ table = Log /\ known = {} /\ sending = {} /\ announcing = {}
  /\ queue = <<>> /\ lagged = 0 /\ suspended_sent = FALSE
  /\ filter = Opened /\ query = filter
  /\ rows = <<>> /\ beforeStack = <<None>> /\ nextCursor = None
  /\ paused = FALSE /\ suspended = FALSE
  /\ requests = {[n |-> 1, f |-> filter, before |-> None, page |-> None, open |-> {}, steady |-> TRUE]}
  /\ asked = 1 /\ shown = 0 /\ overtaken = FALSE
  /\ base = {} /\ walked = {} /\ straddled = {} /\ excused = {}
  /\ failures = 0

Next ==
  \/ \E kind \in Kinds, ts \in 1..MaxTime : Store(kind, ts)
  \/ LookUp \/ Send
  \/ \E a \in {Remote[k] : k \in Kinds} \ {None} : Enrich(a) \/ Announce(a)
  \/ Deliver \/ Reconnect
  \/ \E req \in requests : Read(req) \/ Answer(req) \/ AnswerFails(req)
  \/ \E f \in Filters : SetFilter(f)
  \/ TogglePause \/ goNext \/ goPrev \/ refreshPage \/ AtRest

Spec == Init /\ [][Next]_vars

-----------------------------------------------------------------------------
TypeOK ==
  /\ \A id \in Ids : table[id].kind \in Kinds /\ table[id].facts \in BOOLEAN
  /\ known \subseteq Range(Remote) /\ announcing \subseteq known
  /\ Len(queue) <= Capacity /\ lagged \in Nat
  /\ RowIds(rows) \subseteq Ids
  /\ filter \in Filters /\ Len(beforeStack) >= 1 /\ beforeStack[1] = None
  /\ shown \in 0..asked /\ asked \in 1..MaxRequests
  /\ walked \subseteq Ids /\ base \subseteq Ids

(* The answer to the latest request is the one shown.                      *)
Settled == shown = asked

\* Filters of which a row that matches keeps matching when it gets its facts:
\* no times, which the stream leaves aside, and no fact that must be missing.
KeepsMatching(f) ==
  /\ f.from = None /\ f.to = None
  /\ \A t \in parse_search(f.q) :
       SameColumns(t) \/ (~t.negated /\ (AboutFacts(t) \/ t.field \in {"rule", "host", None}))

(* Once the latest request is answered, every row on the screen is one the *)
(* current filter lists and goes on listing when the row gets its facts,   *)
(* or one the stream found a free word in where the page does not look: no *)
(* row of an earlier filter is left and none came in over the stream of    *)
(* the earlier one (LogsView.tsx:862-906).                                 *)
ScreenFollowsFilter ==
  LET f == Setting[filter]
  IN Settled /\ KeepsMatching(f)
     => \A r \in Range(rows) :
          Lists(RowOf(r.id, TRUE), f) \/ FoundByStreamOnly(RowOf(r.id, TRUE), f.q)

(* Walking to older pages skips nothing: a row that was listed when the    *)
(* walk began and is not older than the page on the screen has been on the *)
(* screen, although rows keep arriving (logs.rs:55-61, "walks without      *)
(* gaps", logs.rs:196).  Left out are the walks the view itself breaks: it *)
(* takes answers in any order, and turns the page from the cursor of the   *)
(* last answer while another one is under way (LogsView.tsx:868-927).      *)
WalkLeavesNoGap ==
  Settled /\ ~overtaken
  => \A id \in base :
       /\ Lists(Stored(id), Setting[filter])
       /\ nextCursor # None => ~Before(Key(id), nextCursor)
       => id \in walked

(* The screen never holds more than a page, and a row is on it twice only  *)
(* if a page was read while it was on its way over the stream              *)
(* (LogsView.tsx:888-891).                                                 *)
ShownOnce ==
  /\ Len(rows) <= PageSize
  /\ \A i, j \in DOMAIN rows :
       i # j /\ rows[i].id = rows[j].id => rows[i].id \in straddled

(* The screen is one page of what the current filter lists                  *)
(* (LogsView.tsx:862-906).                                                  *)
ScreenIsSound == ScreenFollowsFilter /\ ShownOnce

(* A row on the screen gets the facts the database has of it, or they are  *)
(* on their way, or it is excused: its announcement was overwritten in the *)
(* ring, came before the row itself, or passed while a page was loading    *)
(* (LogsView.tsx:891-903, stream.rs:311-323, writer.rs:296).               *)
FactsArrive ==
  \A r \in Range(rows) :
    ~r.facts /\ table[r.id].facts
    => \/ AddressOf(r.id) \in announcing
       \/ \E i \in DOMAIN queue : queue[i].what = "enriched" /\ queue[i].ip = AddressOf(r.id)
       \/ r.id \in excused
=============================================================================
