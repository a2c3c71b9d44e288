-------------------------------- MODULE Feed --------------------------------
(***************************************************************************)
(* How edges reach their readers: a run or a live evaluation inserts its   *)
(* edges and hands the actionable ones to AlertService.dispatch_all, which *)
(* describes, publishes and records each of them (core/alerts.py,          *)
(* events/publisher.py), while clients page through GET /edges and         *)
(* GET /alerts with keyset cursors (api/pagination.py, db/repository.py)   *)
(* and acknowledge alerts.                                                 *)
(*                                                                         *)
(* Ids are random, so the order of the ids says nothing about the order of *)
(* insertion; a row's time is NOW() of its transaction, which commits      *)
(* later.  Time is a counter that may stand still between two inserts.     *)
(***************************************************************************)
EXTENDS Naturals, Sequences, FiniteSets, SequencesExt

CONSTANTS
    Batches,      \* sequences of edges: what one run or evaluation detects
    Actionable,   \* the edges that meet the threshold
    HighPriority, \* the edges whose confidence makes a HIGH alert
    Queries,      \* what clients list: [table, priority, live]
    Limit,        \* rows per page
    MaxTime       \* bound on the clock

\* Ids are ordered, as UUIDs are; a batch without edges inserts nothing.
ASSUME BatchAssumption == Batches \subseteq Seq(Nat) \ {<<>>}
ASSUME PageAssumption == Limit \in Nat \ {0} /\ MaxTime \in Nat

VARIABLES
    now,          \* the clock
    writers,      \* [batch -> [step, i, at]]
    tried,        \* [batch -> edges whose publication and record were tried]
    edges,        \* [inserted edges -> [at, stale, expires]]
    alerts,       \* [edges with an alert -> [at, acknowledged]]
    walk          \* the client's walk through the pages of one query

tables == <<edges, alerts>>
feedVars == <<now, writers, tried, tables, walk>>

NotYet == 0

NoWalk == [on |-> FALSE, query |-> CHOOSE q \in Queries : TRUE,
           got |-> <<>>, more |-> FALSE, first |-> {}]

FeedInit ==
    /\ now = 1
    /\ writers = [b \in Batches |-> [step |-> "insert", i |-> 1, at |-> 0]]
    /\ tried = [b \in Batches |-> [publish |-> {}, record |-> {}]]
    /\ edges = <<>>
    /\ alerts = <<>>
    /\ walk = NoWalk

-----------------------------------------------------------------------------
(* Inserting and dispatching.                                              *)

\* The part of a batch dispatch_all is called with.
ToAnnounce(b) ==
    LET kept[i \in 0..Len(b)] ==
            IF i = 0 THEN <<>>
            ELSE IF b[i] \in Actionable THEN Append(kept[i - 1], b[i]) ELSE kept[i - 1]
    IN  kept[Len(b)]

\* The table with the row of e, which stays what it is if it is there already.
WithRow(table, e, row) ==
    [f \in DOMAIN table \cup {e} |-> IF f \in DOMAIN table THEN table[f] ELSE row]

\* The next step after the i-th item of a list is through with `step`.
Advance(b, step, list, after) ==
    LET w == writers[b] IN
    writers' = [writers EXCEPT ![b] =
                   [step |-> IF w.i < Len(list) THEN step ELSE after,
                    i |-> IF w.i < Len(list) THEN w.i + 1 ELSE 1,
                    at |-> 0]]

Move(b, step) == writers' = [writers EXCEPT ![b].step = step]

\* An insert's transaction begins: its rows will carry this time.
Begin(b) ==
    /\ writers[b].step \in {"insert", "record"}
    /\ writers[b].at = 0
    /\ writers' = [writers EXCEPT ![b].at = now]
    /\ UNCHANGED <<now, tried, tables, walk>>

\* The edge is there; it expires with its game, or soon if it is live.
InsertEdge(b) ==
    /\ writers[b].step = "insert" /\ writers[b].at > 0
    /\ \E expires \in {writers[b].at + 1, MaxTime + 1} :
         edges' = WithRow(edges, b[writers[b].i],
                          [at |-> writers[b].at, stale |-> FALSE, expires |-> expires])
    /\ Advance(b, "insert", b,
               IF ToAnnounce(b) = <<>> THEN "end" ELSE "describe")
    /\ UNCHANGED <<now, tried, alerts, walk>>

\* The LLM writes the description, the first few of a dispatch; without an
\* answer in ten seconds, with an error, and beyond the few the template does.
Describe(b) ==
    /\ writers[b].step = "describe"
    /\ Move(b, "publish")
    /\ UNCHANGED <<now, tried, tables, walk>>

\* Mutant of Publish: an alert that could not be published is not recorded.
PublishOrSkip(b) ==
    /\ writers[b].step = "publish"
    /\ tried' = [tried EXCEPT ![b].publish = @ \cup {ToAnnounce(b)[writers[b].i]}]
    /\ Move(b, "record") \/ Advance(b, "describe", ToAnnounce(b), "end")
    /\ UNCHANGED <<now, tables, walk>>

\* PUBLISH events:edge.detected; a failure is logged and forgotten.
Publish(b) ==
    /\ writers[b].step = "publish"
    /\ tried' = [tried EXCEPT ![b].publish = @ \cup {ToAnnounce(b)[writers[b].i]}]
    /\ Move(b, "record")
    /\ UNCHANGED <<now, tables, walk>>

\* The alert's row commits, or its insert fails, which is logged and forgotten.
Record(b) ==
    LET e == ToAnnounce(b)[writers[b].i] IN
    /\ writers[b].step = "record" /\ writers[b].at > 0
    /\ \/ alerts' = WithRow(alerts, e, [at |-> writers[b].at, acknowledged |-> NotYet])
       \/ UNCHANGED alerts
    /\ tried' = [tried EXCEPT ![b].record = @ \cup {e}]
    /\ Advance(b, "describe", ToAnnounce(b), "end")
    /\ UNCHANGED <<now, edges, walk>>

\* The insert of an edge raises, the run or evaluation is cancelled, or its
\* process dies: the rest of the batch is neither inserted nor announced.
Abandon(b) ==
    /\ writers[b].step \notin {"end", "abandoned"}
    /\ Move(b, "abandoned")
    /\ UNCHANGED <<now, tried, tables, walk>>

\* events:lines.updated marks the edge stale.
MarkStale(e) ==
    /\ e \in DOMAIN edges /\ ~edges[e].stale
    /\ edges' = [edges EXCEPT ![e].stale = TRUE]
    /\ UNCHANGED <<now, writers, tried, alerts, walk>>

\* PUT /alerts/{id}/acknowledge: the first call sets the time, another one
\* changes nothing.
Acknowledge(e) ==
    /\ e \in DOMAIN alerts /\ alerts[e].acknowledged = NotYet
    /\ alerts' = [alerts EXCEPT ![e].acknowledged = now]
    /\ UNCHANGED <<now, writers, tried, edges, walk>>

Tick ==
    /\ now < MaxTime
    /\ now' = now + 1
    /\ UNCHANGED <<writers, tried, tables, walk>>

-----------------------------------------------------------------------------
(* Listing.                                                                *)

Rows(table) == IF table = "edges" THEN edges ELSE alerts

\* The rows the WHERE of a query keeps at this moment, cursor apart: fresh
\* edges unless stale ones are asked for, alerts not yet acknowledged or all.
Matching(q) ==
    {e \in DOMAIN Rows(q.table) :
        /\ q.priority = "HIGH" => e \in HighPriority
        /\ q.live =>
             IF q.table = "edges"
             THEN ~edges[e].stale /\ edges[e].expires > now
             ELSE alerts[e].acknowledged = NotYet}

\* Mutant of Before: the cursor compares the times alone.
BeforeInTime(rows, e, f) == rows[e].at < rows[f].at

\* Row e comes after row f in a listing by (time DESC, id DESC).
Before(rows, e, f) ==
    rows[e].at < rows[f].at \/ (rows[e].at = rows[f].at /\ e < f)

Newest(rows, S) == CHOOSE e \in S : \A f \in S \ {e} :
    rows[f].at < rows[e].at \/ (rows[f].at = rows[e].at /\ f < e)

\* The first n rows of S in the order of the listing.
FirstRows(rows, S, n) ==
    LET take[k \in 0..n] ==
            IF k = 0 THEN <<>>
            ELSE LET left == S \ ToSet(take[k - 1])
                 IN  IF left = {} THEN take[k - 1]
                     ELSE Append(take[k - 1], Newest(rows, left))
    IN  take[n]

\* A client starts over with some query; what matches then is remembered.
StartWalk ==
    /\ ~walk.on
    /\ \E q \in Queries :
         walk' = [on |-> TRUE, query |-> q, got |-> <<>>, more |-> TRUE,
                  first |-> Matching(q)]
    /\ UNCHANGED <<now, writers, tried, tables>>

\* One GET: limit + 1 rows are read strictly after the cursor, the last row
\* the client has; the row too many only tells that there are more.
GetPage ==
    /\ walk.on /\ walk.more
    /\ LET rows == Rows(walk.query.table)
           rest == {e \in Matching(walk.query) :
                       walk.got # <<>> => Before(rows, e, Last(walk.got))}
           read == FirstRows(rows, rest, Limit + 1)
       IN  walk' = [walk EXCEPT
                       !.got = @ \o SubSeq(read, 1, IF Len(read) < Limit
                                                    THEN Len(read) ELSE Limit),
                       !.more = Len(read) > Limit]
    /\ UNCHANGED <<now, writers, tried, tables>>

EndWalk ==
    /\ walk.on /\ ~walk.more
    /\ walk' = NoWalk
    /\ UNCHANGED <<now, writers, tried, tables>>

WriterStep(b) ==
    Begin(b) \/ InsertEdge(b) \/ Describe(b) \/ Publish(b) \/ Record(b)

Detected == UNION {ToSet(b) : b \in Batches}

FeedNext ==
    \/ \E b \in Batches : WriterStep(b) \/ Abandon(b)
    \/ \E e \in Detected : MarkStale(e) \/ Acknowledge(e)
    \/ Tick
    \/ StartWalk \/ GetPage \/ EndWalk

\* Each call a writer makes returns: the LLM's within its timeout, Redis' and
\* the database's with a result or an error.
FeedSpec == FeedInit /\ [][FeedNext]_feedVars /\ \A b \in Batches : WF_feedVars(WriterStep(b))

-----------------------------------------------------------------------------
\* Type correctness.
FeedTypeOK ==
    /\ now \in 1..MaxTime
    /\ \A b \in Batches :
         /\ writers[b].step \in {"insert", "describe", "publish", "record", "end", "abandoned"}
         /\ writers[b].i \in 1..Len(b)
         /\ writers[b].at \in 0..now
    /\ DOMAIN edges \subseteq Detected
    /\ DOMAIN alerts \subseteq DOMAIN edges
    /\ ToSet(walk.got) \subseteq Detected

\* A walk to the last page returns every row that matched when it started and
\* still does, and no row twice, although rows are inserted, marked stale,
\* acknowledged and expire between two pages, several share a time, and a row
\* may appear behind the cursor (list_edges, list_alerts, next_cursor).
WalkIsExact ==
    walk.on =>
        /\ IsInjective(walk.got)
        /\ ~walk.more =>
             walk.first \cap Matching(walk.query) \subseteq ToSet(walk.got)

\* Every actionable edge of a batch that is not abandoned is published and
\* recorded, or at least tried to be, whatever fails before: the LLM, the
\* publication or the record of this edge or of another one (dispatch_all,
\* publish_edge_detected, _persist).
EveryEdgeIsTried ==
    \A b \in Batches :
        <>(\/ writers[b].step = "abandoned"
           \/ /\ tried[b].publish = ToSet(ToAnnounce(b))
              /\ tried[b].record = ToSet(ToAnnounce(b)))
=============================================================================
