------------------------------ MODULE Analysis ------------------------------
(***************************************************************************)
(* The LLM analyses (core/analysis.py, core/summary.py and                 *)
(* api/routes/analysis.py): every request is a coroutine that looks for a  *)
(* stored analysis of its subject through a key in Redis, or else gathers  *)
(* a context, asks the LLM, stores the answer and points the key at it.    *)
(* POST /analysis waits for the whole answer, POST /analysis/stream passes *)
(* it on delta by delta, and the cron's daily summary goes the same way    *)
(* without a key.  Redis and the database may fail at every call, a client *)
(* of a stream may leave, and a key expires.                               *)
(*                                                                         *)
(* A text is the sequence of its deltas; a delta carries the request that  *)
(* paid for it.  What the context says is left out: it changes the prompt, *)
(* and of the steps only which failures are tolerated.                     *)
(***************************************************************************)
EXTENDS Naturals, Sequences, FiniteSets, SequencesExt

CONSTANTS
    Requests,   \* the requests made, and the daily summary's runs
    Asks,       \* what they may ask: [form, type, game, edge, question]
    EdgeGame,   \* [stored edges -> the game of the edge]
    MaxDeltas   \* bound: deltas of one answer

ASSUME AskAssumption == \A a \in Asks : a.question \in BOOLEAN
ASSUME BoundAssumption == MaxDeltas \in Nat \ {0}

VARIABLES
    pc,         \* where each coroutine is
    ask,        \* what each request asks
    text,       \* the deltas the LLM has produced for it
    sent,       \* the deltas its client has received
    reply,      \* the record it was answered with (0: none), and from where
    records,    \* agent.analyses, in the order of insertion
    cache       \* [key -> id of a record, or 0]: agent:analysis:*

requestVars == <<pc, ask, text, sent, reply>>
vars == <<requestVars, records, cache>>

-----------------------------------------------------------------------------
NoId == "none"
Nothing == [id |-> 0, cached |-> FALSE]

\* A request that names what its type needs, and an edge that exists: the
\* others get 422 or 404 before anything is read.
Valid(a) ==
    CASE a.type = "EDGE_BREAKDOWN" -> a.edge \in DOMAIN EdgeGame
      [] a.type = "GAME_PREVIEW"   -> a.game # NoId
      [] OTHER                     -> TRUE

\* The game of a breakdown is its edge's, whatever the request names.
Subject(a) ==
    IF a.type = "EDGE_BREAKDOWN"
    THEN [type |-> a.type, game |-> EdgeGame[a.edge], edge |-> a.edge]
    ELSE [type |-> a.type, game |-> a.game, edge |-> NoId]

NoKey == <<>>

\* Mutant of CacheKey: analyses are keyed by the game they are about.
CacheKeyByGame(a) ==
    IF a.question \/ a.type \notin {"EDGE_BREAKDOWN", "GAME_PREVIEW"}
    THEN NoKey
    ELSE <<Subject(a).type, Subject(a).game>>

\* The key a request reads and writes.  A question has none, nor have the
\* reviews and the daily summary.
CacheKey(a) ==
    IF a.question THEN NoKey
    ELSE CASE a.type = "EDGE_BREAKDOWN" -> <<a.type, a.edge>>
           [] a.type = "GAME_PREVIEW"   -> <<a.type, a.game>>
           [] OTHER                     -> NoKey

Keys == {CacheKey(a) : a \in {x \in Asks : Valid(x)}} \ {NoKey}

Places == {"idle", "read", "lookup", "replay", "render", "ask", "stream",
           "store", "fill", "done", "refused", "failed", "error", "gone"}

Init ==
    /\ pc = [r \in Requests |-> "idle"]
    /\ ask \in [Requests -> Asks]
    /\ text = [r \in Requests |-> <<>>]
    /\ sent = [r \in Requests |-> <<>>]
    /\ reply = [r \in Requests |-> Nothing]
    /\ records = <<>>
    /\ cache = [k \in Keys |-> 0]

Go(r, place) == pc' = [pc EXCEPT ![r] = place]
At(r, place) == pc[r] = place
Streams(r) == ask[r].form = "stream"
Key(r) == CacheKey(ask[r])

-----------------------------------------------------------------------------
(* _prepare: validation, and the search for a stored analysis.             *)

Arrive(r) ==
    /\ At(r, "idle")
    /\ Go(r, IF ~Valid(ask[r]) THEN "refused"
             ELSE IF Key(r) = NoKey THEN "render" ELSE "read")
    /\ UNCHANGED <<ask, text, sent, reply, records, cache>>

\* Redis gives the key's value, none, or fails: then there is no entry.
ReadCache(r) ==
    /\ At(r, "read")
    /\ \E id \in {cache[Key(r)], 0} :
         IF id = 0
         THEN Go(r, "render") /\ UNCHANGED reply
         ELSE Go(r, "lookup") /\ reply' = [reply EXCEPT ![r].id = id]
    /\ UNCHANGED <<ask, text, sent, records, cache>>

\* The record behind the key; a failing database fails the request.
Lookup(r) ==
    /\ At(r, "lookup")
    /\ \/ /\ reply[r].id \in DOMAIN records
          /\ Go(r, IF Streams(r) THEN "replay" ELSE "done")
          /\ reply' = [reply EXCEPT ![r].cached = TRUE]
       \/ /\ Go(r, "failed")
          /\ reply' = [reply EXCEPT ![r] = Nothing]
    /\ UNCHANGED <<ask, text, sent, records, cache>>

\* A stored analysis is streamed as one chunk, then done.
Replay(r) ==
    /\ At(r, "replay")
    /\ sent' = [sent EXCEPT ![r] = records[reply[r].id].content]
    /\ Go(r, "done")
    /\ UNCHANGED <<ask, text, reply, records, cache>>

-----------------------------------------------------------------------------
(* _render, and the LLM.                                                   *)

\* Sources upstream that do not answer are left out of the context; edges
\* read from the database are not forgiven.  The daily summary also ends
\* here without a summary when no edge is active.
Render(r) ==
    /\ At(r, "render")
    /\ \/ Go(r, "ask")
       \/ ask[r].type \in {"PERFORMANCE_REVIEW", "DAILY_SUMMARY"} /\ Go(r, "failed")
    /\ UNCHANGED <<ask, text, sent, reply, records, cache>>

Delta(r) == <<r, Len(text[r]) + 1>>

\* The LLM fails before it has said anything (an answer without text is a
\* failure too), and the client gets an error instead of a stream; or it
\* answers: a stream's first delta, or the whole text.
Answer(r) ==
    /\ At(r, "ask")
    /\ \/ Go(r, "refused") /\ UNCHANGED text
       \/ /\ Streams(r)
          /\ text' = [text EXCEPT ![r] = <<Delta(r)>>]
          /\ Go(r, "stream")
       \/ /\ ~Streams(r)
          /\ \E n \in 1..MaxDeltas :
               text' = [text EXCEPT ![r] = [i \in 1..n |-> <<r, i>>]]
          /\ Go(r, "store")
    /\ UNCHANGED <<ask, sent, reply, records, cache>>

\* Mutant of PassedOn: the loop starts with the second delta.
PassedOnFromSecond(r) ==
    IF Len(text[r]) = 1 THEN <<>> ELSE Append(sent[r], Last(text[r]))

\* What the client has received once the loop of run_stream has passed on the
\* delta it holds: the first was pulled by prepare_stream.
PassedOn(r) == Append(sent[r], Last(text[r]))

\* One turn of the loop: the delta goes out, and the LLM has another one,
\* ends with the final text, or fails.
Pump(r) ==
    /\ At(r, "stream")
    /\ sent' = [sent EXCEPT ![r] = PassedOn(r)]
    /\ \/ /\ Len(text[r]) < MaxDeltas
          /\ text' = [text EXCEPT ![r] = Append(@, Delta(r))]
          /\ UNCHANGED pc
       \/ Go(r, "store") /\ UNCHANGED text
       \/ Go(r, "error") /\ UNCHANGED text
    /\ UNCHANGED <<ask, reply, records, cache>>

-----------------------------------------------------------------------------
(* _persist.                                                               *)

\* The insert commits, or fails: a request ends with 500, a stream ends
\* without a last event.
Store(r) ==
    /\ At(r, "store")
    /\ \/ /\ records' = Append(records, [subject |-> Subject(ask[r]),
                                         question |-> ask[r].question,
                                         content |-> text[r]])
          /\ reply' = [reply EXCEPT ![r].id = Len(records')]
          /\ Go(r, IF Key(r) = NoKey THEN "done" ELSE "fill")
       \/ Go(r, "failed") /\ UNCHANGED <<records, reply>>
    /\ UNCHANGED <<ask, text, sent, cache>>

\* The key gets its value, or Redis fails and the record is only in the
\* database; then the answer, or done.
Fill(r) ==
    /\ At(r, "fill")
    /\ \E id \in {reply[r].id, cache[Key(r)]} :
         cache' = [cache EXCEPT ![Key(r)] = id]
    /\ Go(r, "done")
    /\ UNCHANGED <<ask, text, sent, reply, records>>

\* The client of a stream closes the connection: the generator is cancelled
\* at whatever it awaits.
Disconnect(r) ==
    /\ Streams(r)
    /\ pc[r] \in {"replay", "stream", "store", "fill"}
    /\ Go(r, "gone")
    /\ UNCHANGED <<ask, text, sent, reply, records, cache>>

Expire(k) ==
    /\ cache[k] # 0
    /\ cache' = [cache EXCEPT ![k] = 0]
    /\ UNCHANGED <<requestVars, records>>

Step(r) ==
    \/ Arrive(r) \/ ReadCache(r) \/ Lookup(r) \/ Replay(r)
    \/ Render(r) \/ Answer(r) \/ Pump(r) \/ Store(r) \/ Fill(r)

Next ==
    \/ \E r \in Requests : Step(r) \/ Disconnect(r)
    \/ \E k \in Keys : Expire(k)

Spec == Init /\ [][Next]_vars

-----------------------------------------------------------------------------
\* Type correctness of the requests, the records and the cache.
TypeOK ==
    /\ pc \in [Requests -> Places]
    /\ ask \in [Requests -> Asks]
    /\ \A r \in Requests : Len(sent[r]) <= MaxDeltas /\ Len(text[r]) <= MaxDeltas
    /\ reply \in [Requests -> [id : 0..Len(records), cached : BOOLEAN]]
    /\ cache \in [Keys -> 0..Len(records)]

\* A request that is answered from the cache gets an analysis of its own
\* subject that answers no question, and did not ask one itself: the key and
\* the record behind it belong together although they are written by two
\* calls to two stores (_cache_key, _cached_record, _persist).
ReplayAnswersTheAsk ==
    \A r \in Requests :
        At(r, "done") /\ reply[r].cached =>
            /\ ~ask[r].question
            /\ records[reply[r].id].subject = Subject(ask[r])
            /\ ~records[reply[r].id].question

\* A client that has seen done has received, delta by delta, the very text of
\* the record that done names, whether it was generated or replayed; after an
\* error event nothing of the answer is on record (run_stream, _sse_events:
\* "Nothing was persisted or cached").
StreamedIsStored ==
    \A r \in Requests : Streams(r) =>
        /\ At(r, "done") => sent[r] = records[reply[r].id].content
        /\ At(r, "error") => \A i \in DOMAIN records :
                                 records[i].content[1][1] # r
=============================================================================
