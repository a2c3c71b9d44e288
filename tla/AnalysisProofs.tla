---------------------------- MODULE AnalysisProofs ----------------------------
(***************************************************************************)
(* Proofs about Analysis for any requests and any number of deltas.  A key *)
(* names its subject (KeyTellsSubject) and leads to a record written for   *)
(* that key (CacheOK, ReplyOK); what a client has received is a prefix,    *)
(* one delta short, of what the LLM has said (Flowing), and the two meet   *)
(* before the record is written.                                           *)
(***************************************************************************)
EXTENDS Analysis, SequenceTheorems, TLAPS

Deltas == Requests \X Nat

RecordSet == [subject : {Subject(a) : a \in Asks}, question : BOOLEAN, content : Seq(Deltas)]

Types ==
  /\ pc \in [Requests -> Places]
  /\ ask \in [Requests -> Asks]
  /\ text \in [Requests -> Seq(Deltas)]
  /\ sent \in [Requests -> Seq(Deltas)]
  /\ reply \in [Requests -> [id : Nat, cached : BOOLEAN]]
  /\ records \in Seq(RecordSet)
  /\ cache \in [Keys -> Nat]

\* The record i was written for the key k.
WrittenFor(i, k) ==
  /\ i \in 1 .. Len(records)
  /\ \E a \in Asks : /\ CacheKey(a) = k
                     /\ records[i].subject = Subject(a) /\ records[i].question = a.question

CacheOK == \A k \in Keys : cache[k] # 0 => WrittenFor(cache[k], k)

\* Who looks up a key, or fills it, has it, and its record.
ReplyOK(r) ==
  /\ pc[r] \notin {"idle", "refused"} => Valid(ask[r])
  /\ pc[r] = "read" => Key(r) # NoKey
  /\ \/ pc[r] \in {"lookup", "replay", "fill"}
     \/ pc[r] = "done" /\ reply[r].cached
     => Key(r) # NoKey /\ WrittenFor(reply[r].id, Key(r))
  /\ pc[r] \in {"idle", "read", "lookup", "render", "ask", "stream", "store", "fill"} =>
       ~reply[r].cached

\* The text of a request begins with a delta of its own.
Own(q, r) == Len(q) > 0 /\ q[1][1] = r

\* The client is one delta behind the LLM.
OneBehind(q, t) == Len(t) = Len(q) + 1 /\ \A i \in 1 .. Len(q) : q[i] = t[i]

Flowing(r) ==
  /\ pc[r] \in {"idle", "read", "lookup", "replay", "render", "ask"} => sent[r] = <<>>
  /\ pc[r] \in {"stream", "store", "fill"} => Own(text[r], r)
  /\ pc[r] = "stream" => OneBehind(sent[r], text[r])
  /\ Streams(r) /\ pc[r] \in {"store", "fill"} => sent[r] = text[r]
  /\ pc[r] = "fill" =>
       reply[r].id \in 1 .. Len(records) /\ records[reply[r].id].content = text[r]
  /\ Streams(r) /\ pc[r] = "done" =>
       reply[r].id \in 1 .. Len(records) /\ sent[r] = records[reply[r].id].content

\* Every record was written by a request that has got that far.
Written ==
  \A i \in 1 .. Len(records) :
    \E r \in Requests : Own(records[i].content, r) /\ pc[r] \in {"fill", "done", "gone"}

AnalysisInv ==
  /\ Types /\ CacheOK /\ Written
  /\ \A r \in Requests : ReplyOK(r) /\ Flowing(r)

-----------------------------------------------------------------------------
(***************************************************************************)
(* Keys.                                                                   *)
(***************************************************************************)

\* What has a key has one subject and asks no question: two analyses never
\* share a key unless one answers for the other.
LEMMA KeyTellsSubject ==
  ASSUME NEW a \in Asks, NEW b \in Asks, CacheKey(a) = CacheKey(b), CacheKey(a) # NoKey
  PROVE  Subject(a) = Subject(b) /\ ~a.question /\ ~b.question
<1>1. ~a.question /\ ~b.question
  BY AskAssumption DEF CacheKey, NoKey
<1>2. \A x \in {a, b} : \/ x.type = "EDGE_BREAKDOWN" /\ CacheKey(x) = <<x.type, x.edge>>
                        \/ x.type = "GAME_PREVIEW" /\ CacheKey(x) = <<x.type, x.game>>
  BY <1>1 DEF CacheKey
<1>3. \/ a.type = "EDGE_BREAKDOWN" /\ b.type = "EDGE_BREAKDOWN" /\ a.edge = b.edge
      \/ a.type = "GAME_PREVIEW" /\ b.type = "GAME_PREVIEW" /\ a.game = b.game
  BY <1>2
<1> QED
  BY <1>1, <1>3 DEF Subject

-----------------------------------------------------------------------------
(***************************************************************************)
(* The invariant is kept.                                                  *)
(***************************************************************************)

LEMMA InitInv == Init => AnalysisInv
<1> SUFFICES ASSUME Init PROVE AnalysisInv
  OBVIOUS
<1>1. Types
  BY DEF Init, Types, Places, Nothing
<1>2. Len(records) = 0
  BY DEF Init
<1>3. CacheOK /\ Written
  BY <1>2 DEF Init, CacheOK, Written
<1>4. \A r \in Requests : ReplyOK(r) /\ Flowing(r)
  BY DEF Init, ReplyOK, Flowing, Nothing
<1> QED
  BY <1>1, <1>3, <1>4 DEF AnalysisInv

\* The records only grow, and what was written for a key stays so.
Grown == /\ Len(records') >= Len(records)
         /\ \A i \in 1 .. Len(records) : records'[i] = records[i]

LEMMA WrittenStays ==
  ASSUME Types, Types', Grown, NEW i, NEW k, WrittenFor(i, k)
  PROVE  WrittenFor(i, k)'
<1>1. Len(records) \in Nat /\ Len(records') \in Nat
  BY DEF Types
<1> QED
  BY <1>1 DEF Grown, WrittenFor

\* A request is not disturbed by another one's step.
LEMMA OthersKept ==
  ASSUME AnalysisInv, Types', Grown, ask' = ask, NEW q \in Requests,
         pc'[q] = pc[q], text'[q] = text[q], sent'[q] = sent[q], reply'[q] = reply[q]
  PROVE  ReplyOK(q)' /\ Flowing(q)'
<1>1. ReplyOK(q) /\ Flowing(q) /\ Types
  BY DEF AnalysisInv
<1>2. Len(records) \in Nat /\ Len(records') \in Nat
  BY <1>1 DEF Types
<1>3. ReplyOK(q)'
  BY <1>1, WrittenStays DEF ReplyOK, Key
<1>4. Flowing(q)'
  BY <1>1, <1>2 DEF Flowing, Streams, Grown
<1> QED
  BY <1>3, <1>4

\* The steps that write neither a record nor the cache.
LEMMA QuietStep ==
  ASSUME AnalysisInv, NEW r \in Requests, NEW place \in Places, Types',
         UNCHANGED <<ask, records, cache>>, pc' = [pc EXCEPT ![r] = place],
         pc[r] \in {"fill", "done", "gone"} => place \in {"fill", "done", "gone"},
         \A q \in Requests \ {r} :
           text'[q] = text[q] /\ sent'[q] = sent[q] /\ reply'[q] = reply[q],
         ReplyOK(r)', Flowing(r)'
  PROVE  AnalysisInv'
<1>1. Types
  BY DEF AnalysisInv
<1>2. Grown
  BY <1>1 DEF Grown, Types
<1>3. \A q \in Requests \ {r} : pc'[q] = pc[q]
  BY <1>1 DEF Types
<1>4. \A q \in Requests : ReplyOK(q)' /\ Flowing(q)'
  BY <1>2, <1>3, OthersKept
<1>5. CacheOK'
  BY <1>1, <1>2, WrittenStays DEF AnalysisInv, CacheOK
<1>6. Written'
  BY <1>1, <1>3 DEF AnalysisInv, Written, Types
<1> QED
  BY <1>4, <1>5, <1>6 DEF AnalysisInv

LEMMA KeyIsThere ==
  ASSUME Types, NEW r \in Requests, Valid(ask[r]), Key(r) # NoKey
  PROVE  Key(r) \in Keys
BY DEF Types, Keys, Key

LEMMA ArriveInv ==
  ASSUME AnalysisInv, NEW r \in Requests, Arrive(r)
  PROVE  AnalysisInv'
<1>1. PICK place \in {"refused", "render", "read"} :
        /\ pc' = [pc EXCEPT ![r] = place]
        /\ place # "refused" => Valid(ask[r])
        /\ place = "read" => Key(r) # NoKey
  BY DEF Arrive, Go
<1>2. pc[r] = "idle" /\ UNCHANGED <<ask, text, sent, reply, records, cache>>
  BY DEF Arrive, At
<1>3. Types /\ ReplyOK(r) /\ Flowing(r)
  BY DEF AnalysisInv
<1>4. Types' /\ pc'[r] = place
  BY <1>1, <1>2, <1>3 DEF Types, Places
<1>5. ~reply[r].cached
  BY <1>2 DEF AnalysisInv, ReplyOK
<1>6. ReplyOK(r)'
  BY <1>1, <1>2, <1>4, <1>5 DEF ReplyOK, Key
<1>7. Flowing(r)'
  BY <1>2, <1>3, <1>4 DEF Flowing
<1> QED
  BY <1>1, <1>2, <1>4, <1>6, <1>7, QuietStep DEF Places

LEMMA ReadCacheInv ==
  ASSUME AnalysisInv, NEW r \in Requests, ReadCache(r)
  PROVE  AnalysisInv'
<1>1. Types /\ ReplyOK(r) /\ Flowing(r) /\ CacheOK
  BY DEF AnalysisInv
<1>2. pc[r] = "read" /\ UNCHANGED <<ask, text, sent, records, cache>>
  BY DEF ReadCache, At
<1>3. Valid(ask[r]) /\ Key(r) # NoKey /\ Key(r) \in Keys /\ ~reply[r].cached
  BY <1>1, <1>2, KeyIsThere DEF ReplyOK
<1>4. PICK id \in {cache[Key(r)], 0} :
        IF id = 0
        THEN Go(r, "render") /\ UNCHANGED reply
        ELSE Go(r, "lookup") /\ reply' = [reply EXCEPT ![r].id = id]
  BY DEF ReadCache
<1>5. cache[Key(r)] \in Nat
  BY <1>1, <1>3 DEF Types
<1>6. CASE id = 0
  <2>1. pc' = [pc EXCEPT ![r] = "render"] /\ reply' = reply
    BY <1>4, <1>6 DEF Go
  <2>2. Types' /\ pc'[r] = "render"
    BY <1>1, <1>2, <2>1 DEF Types, Places
  <2>3. ReplyOK(r)' /\ Flowing(r)'
    BY <1>1, <1>2, <1>3, <2>1, <2>2 DEF ReplyOK, Flowing
  <2> QED
    BY <1>2, <2>1, <2>2, <2>3, QuietStep DEF Places
<1>7. CASE id # 0
  <2>1. /\ pc' = [pc EXCEPT ![r] = "lookup"] /\ reply' = [reply EXCEPT ![r].id = id]
        /\ id = cache[Key(r)]
    BY <1>4, <1>7 DEF Go
  <2>2. Types' /\ pc'[r] = "lookup"
    BY <1>1, <1>2, <1>5, <2>1 DEF Types, Places
  <2>3. reply'[r].id = id /\ reply'[r].cached = reply[r].cached
    BY <1>1, <2>1 DEF Types
  <2>4. WrittenFor(id, Key(r))
    BY <1>1, <1>3, <1>7, <2>1 DEF CacheOK
  <2>5. WrittenFor(id, Key(r))' /\ Key(r)' = Key(r)
    BY <1>2, <2>4 DEF WrittenFor, Key
  <2>6. ReplyOK(r)'
    BY <1>2, <1>3, <2>2, <2>3, <2>5 DEF ReplyOK
  <2>7. Flowing(r)'
    BY <1>1, <1>2, <2>2 DEF Flowing
  <2>8. \A q \in Requests \ {r} : reply'[q] = reply[q]
    BY <1>1, <2>1 DEF Types
  <2> QED
    BY <1>2, <2>1, <2>2, <2>6, <2>7, <2>8, QuietStep DEF Places
<1> QED
  BY <1>6, <1>7

LEMMA LookupInv ==
  ASSUME AnalysisInv, NEW r \in Requests, Lookup(r)
  PROVE  AnalysisInv'
<1>1. Types /\ ReplyOK(r) /\ Flowing(r)
  BY DEF AnalysisInv
<1>2. pc[r] = "lookup" /\ UNCHANGED <<ask, text, sent, records, cache>>
  BY DEF Lookup, At
<1>3. Valid(ask[r]) /\ Key(r) # NoKey /\ WrittenFor(reply[r].id, Key(r)) /\ sent[r] = <<>>
  BY <1>1, <1>2 DEF ReplyOK, Flowing
<1>4. WrittenFor(reply[r].id, Key(r))' /\ Key(r)' = Key(r)
     <=> WrittenFor(reply'[r].id, Key(r)) /\ Key(r)' = Key(r)
  BY <1>2 DEF WrittenFor, Key
<1>5. CASE /\ Go(r, IF Streams(r) THEN "replay" ELSE "done")
           /\ reply' = [reply EXCEPT ![r].cached = TRUE]
  <2> DEFINE place == IF Streams(r) THEN "replay" ELSE "done"
  <2>1. pc' = [pc EXCEPT ![r] = place] /\ place \in {"replay", "done"}
    BY <1>5 DEF Go
  <2>2. Types'
    BY <1>1, <1>2, <1>5, <2>1 DEF Types, Places
  <2>3. /\ pc'[r] = place /\ reply'[r].id = reply[r].id
        /\ \A q \in Requests \ {r} : reply'[q] = reply[q]
    BY <1>1, <1>5, <2>1 DEF Types
  <2>4. ReplyOK(r)'
    BY <1>2, <1>3, <1>4, <2>1, <2>3 DEF ReplyOK, Key
  <2>5. Flowing(r)'
    BY <1>2, <1>3, <2>3 DEF Flowing, Streams
  <2> HIDE DEF place
  <2> QED
    BY <1>2, <2>1, <2>2, <2>3, <2>4, <2>5, QuietStep DEF Places
<1>6. CASE Go(r, "failed") /\ reply' = [reply EXCEPT ![r] = Nothing]
  <2>1. pc' = [pc EXCEPT ![r] = "failed"]
    BY <1>6 DEF Go
  <2>2. Types'
    BY <1>1, <1>2, <1>6, <2>1 DEF Types, Places, Nothing
  <2>3. pc'[r] = "failed" /\ \A q \in Requests \ {r} : reply'[q] = reply[q]
    BY <1>1, <1>6, <2>1 DEF Types
  <2>4. ReplyOK(r)' /\ Flowing(r)'
    BY <1>2, <1>3, <2>3 DEF ReplyOK, Flowing
  <2> QED
    BY <1>2, <2>1, <2>2, <2>3, <2>4, QuietStep DEF Places
<1> QED
  BY <1>5, <1>6 DEF Lookup

LEMMA ReplayInv ==
  ASSUME AnalysisInv, NEW r \in Requests, Replay(r)
  PROVE  AnalysisInv'
<1>1. Types /\ ReplyOK(r) /\ Flowing(r)
  BY DEF AnalysisInv
<1>2. /\ pc[r] = "replay" /\ pc' = [pc EXCEPT ![r] = "done"]
      /\ UNCHANGED <<ask, text, reply, records, cache>>
      /\ sent' = [sent EXCEPT ![r] = records[reply[r].id].content]
  BY DEF Replay, At, Go
<1>3. Valid(ask[r]) /\ Key(r) # NoKey /\ WrittenFor(reply[r].id, Key(r))
  BY <1>1, <1>2 DEF ReplyOK
<1>4. reply[r].id \in 1 .. Len(records)
  BY <1>3 DEF WrittenFor
<1>5. records[reply[r].id].content \in Seq(Deltas)
  <2>1. records[reply[r].id] \in RecordSet
    BY <1>1, <1>4 DEF Types
  <2> QED
    BY <2>1 DEF RecordSet
<1>6. Types'
  BY <1>1, <1>2, <1>5 DEF Types, Places
<1>7. /\ pc'[r] = "done" /\ sent'[r] = records[reply[r].id].content
      /\ \A q \in Requests \ {r} : sent'[q] = sent[q]
  BY <1>1, <1>2 DEF Types
<1>8. ReplyOK(r)'
  BY <1>2, <1>3, <1>7 DEF ReplyOK, Key, WrittenFor
<1>9. Flowing(r)'
  BY <1>2, <1>4, <1>7 DEF Flowing
<1> QED
  BY <1>2, <1>6, <1>7, <1>8, <1>9, QuietStep DEF Places

LEMMA RenderInv ==
  ASSUME AnalysisInv, NEW r \in Requests, Render(r)
  PROVE  AnalysisInv'
<1>1. Types /\ ReplyOK(r) /\ Flowing(r)
  BY DEF AnalysisInv
<1>2. pc[r] = "render" /\ UNCHANGED <<ask, text, sent, reply, records, cache>>
  BY DEF Render, At
<1>3. PICK place \in {"ask", "failed"} : pc' = [pc EXCEPT ![r] = place]
  BY DEF Render, Go
<1>4. Types' /\ pc'[r] = place
  BY <1>1, <1>2, <1>3 DEF Types, Places
<1>5. ReplyOK(r)' /\ Flowing(r)'
  BY <1>1, <1>2, <1>4 DEF ReplyOK, Flowing
<1> QED
  BY <1>2, <1>3, <1>4, <1>5, QuietStep DEF Places

LEMMA AnswerInv ==
  ASSUME AnalysisInv, NEW r \in Requests, Answer(r)
  PROVE  AnalysisInv'
<1>1. Types /\ ReplyOK(r) /\ Flowing(r)
  BY DEF AnalysisInv
<1>2. pc[r] = "ask" /\ UNCHANGED <<ask, sent, reply, records, cache>>
  BY DEF Answer, At
<1>3. Valid(ask[r]) /\ sent[r] = <<>> /\ ~reply[r].cached /\ Len(text[r]) \in Nat
  BY <1>1, <1>2 DEF ReplyOK, Flowing, Types
<1>4. CASE Go(r, "refused") /\ UNCHANGED text
  <2>1. pc' = [pc EXCEPT ![r] = "refused"]
    BY <1>4 DEF Go
  <2>2. Types' /\ pc'[r] = "refused"
    BY <1>1, <1>2, <1>4, <2>1 DEF Types, Places
  <2>3. ReplyOK(r)' /\ Flowing(r)'
    BY <1>2, <1>3, <1>4, <2>2 DEF ReplyOK, Flowing
  <2> QED
    BY <1>2, <1>4, <2>1, <2>2, <2>3, QuietStep DEF Places
<1>5. CASE Go(r, "stream") /\ text' = [text EXCEPT ![r] = <<<<r, Len(text[r]) + 1>>>>]
  <2>1. pc' = [pc EXCEPT ![r] = "stream"]
    BY <1>5 DEF Go
  <2>2. <<r, Len(text[r]) + 1>> \in Deltas
    BY <1>3 DEF Deltas
  <2>3. Types' /\ pc'[r] = "stream"
    BY <1>1, <1>2, <1>5, <2>1, <2>2 DEF Types, Places
  <2>4. /\ text'[r] = <<<<r, Len(text[r]) + 1>>>>
        /\ \A q \in Requests \ {r} : text'[q] = text[q]
    BY <1>1, <1>5 DEF Types
  <2>5. ReplyOK(r)'
    BY <1>2, <1>3, <2>3 DEF ReplyOK
  <2>6. Own(text'[r], r)
    BY <2>4 DEF Own
  <2>7. OneBehind(sent'[r], text'[r])
    BY <1>2, <1>3, <2>4 DEF OneBehind
  <2>8. Flowing(r)'
    BY <2>3, <2>6, <2>7 DEF Flowing
  <2> QED
    BY <1>2, <2>1, <2>3, <2>4, <2>5, <2>8, QuietStep DEF Places
<1>6. CASE /\ ~Streams(r) /\ Go(r, "store")
           /\ \E n \in 1 .. MaxDeltas : text' = [text EXCEPT ![r] = [i \in 1 .. n |-> <<r, i>>]]
  <2>1. pc' = [pc EXCEPT ![r] = "store"]
    BY <1>6 DEF Go
  <2>2. PICK n \in 1 .. MaxDeltas : text' = [text EXCEPT ![r] = [i \in 1 .. n |-> <<r, i>>]]
    BY <1>6
  <2>3. n \in Nat \ {0}
    BY BoundAssumption
  <2> DEFINE t == [i \in 1 .. n |-> <<r, i>>]
  <2>4. t \in Seq(Deltas) /\ Len(t) = n /\ t[1] = <<r, 1>>
    BY <2>3 DEF Deltas
  <2>5. text' = [text EXCEPT ![r] = t]
    BY <2>2
  <2> HIDE DEF t
  <2>6. Types' /\ pc'[r] = "store"
    BY <1>1, <1>2, <2>1, <2>4, <2>5 DEF Types, Places
  <2>7. text'[r] = t /\ \A q \in Requests \ {r} : text'[q] = text[q]
    BY <1>1, <2>5 DEF Types
  <2>8. ReplyOK(r)'
    BY <1>2, <1>3, <2>6 DEF ReplyOK
  <2>9. Own(text'[r], r)
    BY <2>3, <2>4, <2>7 DEF Own
  <2>10. ~Streams(r)'
    BY <1>2, <1>6 DEF Streams
  <2>11. Flowing(r)'
    BY <2>6, <2>9, <2>10 DEF Flowing
  <2> QED
    BY <1>2, <2>1, <2>6, <2>7, <2>8, <2>11, QuietStep DEF Places
<1> QED
  BY <1>4, <1>5, <1>6 DEF Answer, Delta

\* After one turn of the loop the client has all the LLM had said.
LEMMA PassedOnAll ==
  ASSUME NEW S, NEW q \in Seq(S), NEW t \in Seq(S), OneBehind(q, t)
  PROVE  Append(q, Last(t)) = t
<1>1. Len(q) \in Nat /\ Len(t) = Len(q) + 1 /\ Last(t) = t[Len(t)]
  BY DEF OneBehind, Last
<1>2. Last(t) \in S
  BY <1>1
<1>3. /\ Append(q, Last(t)) \in Seq(S) /\ Len(Append(q, Last(t))) = Len(q) + 1
      /\ \A i \in 1 .. Len(q) : Append(q, Last(t))[i] = q[i]
      /\ Append(q, Last(t))[Len(q) + 1] = Last(t)
  BY <1>2
<1>4. \A i \in 1 .. Len(t) : Append(q, Last(t))[i] = t[i]
  BY <1>1, <1>3 DEF OneBehind
<1> QED
  BY <1>1, <1>3, <1>4, SeqEqual

LEMMA PumpInv ==
  ASSUME AnalysisInv, NEW r \in Requests, Pump(r)
  PROVE  AnalysisInv'
<1>1. Types /\ ReplyOK(r) /\ Flowing(r)
  BY DEF AnalysisInv
<1>2. /\ pc[r] = "stream" /\ UNCHANGED <<ask, reply, records, cache>>
      /\ sent' = [sent EXCEPT ![r] = PassedOn(r)]
  BY DEF Pump, At
<1>3. /\ text[r] \in Seq(Deltas) /\ sent[r] \in Seq(Deltas) /\ pc[r] \in Places
      /\ Own(text[r], r) /\ OneBehind(sent[r], text[r])
      /\ Valid(ask[r]) /\ ~reply[r].cached
  BY <1>1, <1>2 DEF Types, Flowing, ReplyOK
<1>4. PassedOn(r) = text[r]
  BY <1>3, PassedOnAll DEF PassedOn
<1>5. /\ sent' \in [Requests -> Seq(Deltas)] /\ sent'[r] = text[r]
      /\ \A q \in Requests \ {r} : sent'[q] = sent[q]
  BY <1>1, <1>2, <1>3, <1>4 DEF Types
<1>6. CASE text' = [text EXCEPT ![r] = Append(@, Delta(r))] /\ UNCHANGED pc
  <2> DEFINE t == Append(text[r], Delta(r))
  <2>1. Delta(r) \in Deltas
    BY <1>3 DEF Delta, Deltas
  <2>2. /\ t \in Seq(Deltas) /\ Len(t) = Len(text[r]) + 1
        /\ \A i \in 1 .. Len(text[r]) : t[i] = text[r][i]
    BY <1>3, <2>1
  <2>3. text' = [text EXCEPT ![r] = t]
    BY <1>6
  <2> HIDE DEF t
  <2>4. Types' /\ text'[r] = t /\ \A q \in Requests \ {r} : text'[q] = text[q]
    BY <1>1, <1>2, <1>5, <1>6, <2>2, <2>3 DEF Types
  <2>5. ReplyOK(r)'
    BY <1>2, <1>3, <1>6 DEF ReplyOK
  <2>6. Len(text[r]) \in Nat
    BY <1>3
  <2>7. Own(t, r)
    BY <1>3, <2>2, <2>6 DEF Own
  <2>8. OneBehind(text[r], t)
    BY <2>2 DEF OneBehind
  <2>9. Flowing(r)'
    BY <1>2, <1>5, <1>6, <2>4, <2>7, <2>8 DEF Flowing
  <2>10. pc' = [pc EXCEPT ![r] = pc[r]]
    BY <1>1, <1>6 DEF Types
  <2> QED
    BY <1>2, <1>3, <1>5, <2>4, <2>5, <2>9, <2>10, QuietStep
<1>7. CASE \E place \in {"store", "error"} : Go(r, place) /\ UNCHANGED text
  <2>1. PICK place \in {"store", "error"} : pc' = [pc EXCEPT ![r] = place] /\ text' = text
    BY <1>7 DEF Go
  <2>2. Types' /\ pc'[r] = place
    BY <1>1, <1>2, <1>5, <2>1 DEF Types, Places
  <2>3. ReplyOK(r)' /\ Flowing(r)'
    BY <1>2, <1>3, <1>5, <2>1, <2>2 DEF ReplyOK, Flowing
  <2> QED
    BY <1>2, <1>5, <2>1, <2>2, <2>3, QuietStep DEF Places
<1> QED
  BY <1>6, <1>7 DEF Pump

LEMMA StoreInv ==
  ASSUME AnalysisInv, NEW r \in Requests, Store(r)
  PROVE  AnalysisInv'
<1>1. Types /\ ReplyOK(r) /\ Flowing(r) /\ CacheOK /\ Written
  BY DEF AnalysisInv
<1>2. pc[r] = "store" /\ UNCHANGED <<ask, text, sent, cache>>
  BY DEF Store, At
<1>3. /\ text[r] \in Seq(Deltas) /\ ask[r] \in Asks /\ Len(records) \in Nat
      /\ Valid(ask[r]) /\ ~reply[r].cached /\ Own(text[r], r)
      /\ Streams(r) => sent[r] = text[r]
  BY <1>1, <1>2 DEF Types, ReplyOK, Flowing
<1>4. CASE Go(r, "failed") /\ UNCHANGED <<records, reply>>
  <2>1. pc' = [pc EXCEPT ![r] = "failed"]
    BY <1>4 DEF Go
  <2>2. Types' /\ pc'[r] = "failed"
    BY <1>1, <1>2, <1>4, <2>1 DEF Types, Places
  <2>3. ReplyOK(r)' /\ Flowing(r)'
    BY <1>2, <1>3, <2>2 DEF ReplyOK, Flowing
  <2> QED
    BY <1>2, <1>4, <2>1, <2>2, <2>3, QuietStep DEF Places
<1>5. CASE /\ records' = Append(records, [subject |-> Subject(ask[r]),
                                          question |-> ask[r].question, content |-> text[r]])
           /\ reply' = [reply EXCEPT ![r].id = Len(records')]
           /\ Go(r, IF Key(r) = NoKey THEN "done" ELSE "fill")
  <2> DEFINE record == [subject |-> Subject(ask[r]),
                        question |-> ask[r].question, content |-> text[r]]
             id == Len(records) + 1
             place == IF Key(r) = NoKey THEN "done" ELSE "fill"
  <2>1. record \in RecordSet
    BY <1>3, AskAssumption DEF RecordSet
  <2>2. records' = Append(records, record) /\ pc' = [pc EXCEPT ![r] = place]
    BY <1>5 DEF Go
  <2>3. place \in {"done", "fill"} /\ (place = "fill" <=> Key(r) # NoKey)
    OBVIOUS
  <2>4. record.subject = Subject(ask[r]) /\ record.question = ask[r].question
        /\ record.content = text[r]
    OBVIOUS
  <2> HIDE DEF record, place
  <2>5. /\ records' \in Seq(RecordSet) /\ Len(records') = id /\ records'[id] = record
        /\ \A i \in 1 .. Len(records) : records'[i] = records[i]
    BY <1>1, <2>1, <2>2 DEF Types
  <2>6. reply' = [reply EXCEPT ![r].id = id] /\ id \in Nat /\ id \in 1 .. Len(records')
    BY <1>3, <1>5, <2>5
  <2> HIDE DEF id
  <2>7. Types'
    BY <1>1, <1>2, <2>2, <2>3, <2>5, <2>6 DEF Types, Places
  <2>8. /\ pc'[r] = place /\ reply'[r].id = id /\ reply'[r].cached = reply[r].cached
        /\ \A q \in Requests \ {r} : pc'[q] = pc[q] /\ reply'[q] = reply[q]
    BY <1>1, <2>2, <2>6 DEF Types
  <2>9. Grown
    BY <1>3, <2>5 DEF Grown, id
  <2>10. \A q \in Requests \ {r} : ReplyOK(q)' /\ Flowing(q)'
    BY <1>2, <2>7, <2>8, <2>9, OthersKept
  <2>11. WrittenFor(reply[r].id, Key(r))'
    <3>1. Key(r)' = CacheKey(ask[r])
      BY <1>2 DEF Key
    <3>2. records'[id].subject = Subject(ask[r]) /\ records'[id].question = ask[r].question
      BY <2>4, <2>5
    <3> QED
      BY <1>3, <2>6, <2>8, <3>1, <3>2 DEF WrittenFor
  <2>12. ReplyOK(r)'
    <3>1. Key(r)' = Key(r)
      BY <1>2 DEF Key
    <3> QED
      BY <1>2, <1>3, <2>3, <2>8, <2>11, <3>1 DEF ReplyOK
  <2>13. Flowing(r)'
    BY <1>2, <1>3, <2>3, <2>4, <2>5, <2>6, <2>8 DEF Flowing, Streams
  <2>14. CacheOK'
    BY <1>1, <1>2, <2>7, <2>9, WrittenStays DEF CacheOK
  <2>15. ASSUME NEW i \in 1 .. Len(records')
         PROVE  \E q \in Requests : Own(records'[i].content, q) /\ pc'[q] \in {"fill", "done", "gone"}
    <3>1. CASE i = id
      BY <1>3, <2>3, <2>4, <2>5, <2>8, <3>1
    <3>2. CASE i # id
      <4>1. i \in 1 .. Len(records) /\ records'[i] = records[i]
        BY <1>3, <2>5, <3>2 DEF id
      <4>2. PICK q \in Requests : Own(records[i].content, q) /\ pc[q] \in {"fill", "done", "gone"}
        BY <1>1, <4>1 DEF Written
      <4> QED
        BY <1>2, <2>8, <4>1, <4>2
    <3> QED
      BY <3>1, <3>2
  <2> QED
    BY <2>7, <2>10, <2>12, <2>13, <2>14, <2>15 DEF AnalysisInv, Written
<1> QED
  BY <1>4, <1>5 DEF Store

LEMMA FillInv ==
  ASSUME AnalysisInv, NEW r \in Requests, Fill(r)
  PROVE  AnalysisInv'
<1>1. Types /\ ReplyOK(r) /\ Flowing(r) /\ CacheOK /\ Written
  BY DEF AnalysisInv
<1>2. /\ pc[r] = "fill" /\ pc' = [pc EXCEPT ![r] = "done"]
      /\ UNCHANGED <<ask, text, sent, reply, records>>
  BY DEF Fill, At, Go
<1>3. PICK id \in {reply[r].id, cache[Key(r)]} : cache' = [cache EXCEPT ![Key(r)] = id]
  BY DEF Fill
<1>4. /\ Valid(ask[r]) /\ Key(r) # NoKey /\ WrittenFor(reply[r].id, Key(r)) /\ Key(r) \in Keys
      /\ ~reply[r].cached
  BY <1>1, <1>2, KeyIsThere DEF ReplyOK
<1>5. id \in Nat
  BY <1>1, <1>3, <1>4 DEF Types
<1>6. Types' /\ pc'[r] = "done" /\ \A q \in Requests \ {r} : pc'[q] = pc[q]
  BY <1>1, <1>2, <1>3, <1>5 DEF Types, Places
<1>7. Grown
  BY <1>1, <1>2 DEF Grown, Types
<1>8. \A q \in Requests \ {r} : ReplyOK(q)' /\ Flowing(q)'
  BY <1>2, <1>6, <1>7, OthersKept
<1>9. ReplyOK(r)'
  BY <1>2, <1>4, <1>6 DEF ReplyOK
<1>10. Flowing(r)'
  BY <1>1, <1>2, <1>6 DEF Flowing, Streams
<1>11. CacheOK'
  <2>1. id # 0 => WrittenFor(id, Key(r))
    BY <1>1, <1>3, <1>4 DEF CacheOK
  <2>2. \A k \in Keys : cache'[k] = IF k = Key(r) THEN id ELSE cache[k]
    BY <1>1, <1>3, <1>4 DEF Types
  <2>3. \A k \in Keys : cache'[k] # 0 => WrittenFor(cache'[k], k)
    BY <1>1, <2>1, <2>2 DEF CacheOK
  <2> QED
    BY <1>2, <2>3 DEF CacheOK, WrittenFor
<1>12. Written'
  BY <1>1, <1>2, <1>6 DEF Written
<1> QED
  BY <1>6, <1>8, <1>9, <1>10, <1>11, <1>12 DEF AnalysisInv

LEMMA DisconnectInv ==
  ASSUME AnalysisInv, NEW r \in Requests, Disconnect(r)
  PROVE  AnalysisInv'
<1>1. Types /\ ReplyOK(r)
  BY DEF AnalysisInv
<1>2. /\ pc[r] \in {"replay", "stream", "store", "fill"} /\ pc' = [pc EXCEPT ![r] = "gone"]
      /\ UNCHANGED <<ask, text, sent, reply, records, cache>>
  BY DEF Disconnect, Go
<1>3. Types' /\ pc'[r] = "gone" /\ Valid(ask[r])
  BY <1>1, <1>2 DEF Types, Places, ReplyOK
<1>4. ReplyOK(r)' /\ Flowing(r)'
  BY <1>2, <1>3 DEF ReplyOK, Flowing
<1> QED
  BY <1>2, <1>3, <1>4, QuietStep DEF Places

\* What leaves the requests alone: an expiring key, and a step of none.
LEMMA RestInv ==
  ASSUME AnalysisInv,
         UNCHANGED <<requestVars, records>>,
         cache' = cache \/ \E k \in Keys : cache' = [cache EXCEPT ![k] = 0]
  PROVE  AnalysisInv'
<1>1. Types /\ CacheOK /\ Written
  BY DEF AnalysisInv
<1>2. UNCHANGED <<pc, ask, text, sent, reply, records>>
  BY DEF requestVars
<1>3. Types' /\ Grown
  BY <1>1, <1>2 DEF Types, Grown
<1>4. \A q \in Requests : ReplyOK(q)' /\ Flowing(q)'
  BY <1>2, <1>3, OthersKept
<1>5. \A k \in Keys : cache'[k] # 0 => cache'[k] = cache[k]
  BY <1>1 DEF Types
<1>6. CacheOK'
  BY <1>1, <1>2, <1>5 DEF CacheOK, WrittenFor
<1>7. Written'
  BY <1>1, <1>2 DEF Written
<1> QED
  BY <1>3, <1>4, <1>6, <1>7 DEF AnalysisInv

-----------------------------------------------------------------------------
(***************************************************************************)
(* The theorems.                                                           *)
(***************************************************************************)

\* AnalysisInv holds in every state of every behaviour, for any requests, asks
\* and number of deltas (core/analysis.py: run, prepare_stream, run_stream,
\* _persist, interleaved at every await).
THEOREM AnalysisInvariant == Spec => []AnalysisInv
<1>1. AnalysisInv /\ [Next]_vars => AnalysisInv'
  <2> SUFFICES ASSUME AnalysisInv, [Next]_vars PROVE AnalysisInv'
    OBVIOUS
  <2>1. ASSUME NEW r \in Requests, Step(r) PROVE AnalysisInv'
    BY <2>1, ArriveInv, ReadCacheInv, LookupInv, ReplayInv, RenderInv,
       AnswerInv, PumpInv, StoreInv, FillInv DEF Step
  <2>2. ASSUME NEW r \in Requests, Disconnect(r) PROVE AnalysisInv'
    BY <2>2, DisconnectInv
  <2>3. ASSUME NEW k \in Keys, Expire(k) PROVE AnalysisInv'
    BY <2>3, RestInv DEF Expire
  <2>4. CASE UNCHANGED vars
    BY <2>4, RestInv DEF vars
  <2> QED
    BY <2>1, <2>2, <2>3, <2>4 DEF Next
<1> QED
  BY InitInv, <1>1, PTL DEF Spec

\* A request answered from the cache gets an analysis of its own subject that
\* answers no question, however writes, expiries and failures of the two
\* stores interleave (_cache_key, _cached_record, _persist).
THEOREM ReplaysAreRight == Spec => []ReplayAnswersTheAsk
<1>1. AnalysisInv => ReplayAnswersTheAsk
  <2> SUFFICES ASSUME AnalysisInv, NEW r \in Requests, At(r, "done"), reply[r].cached
               PROVE  /\ ~ask[r].question
                      /\ records[reply[r].id].subject = Subject(ask[r])
                      /\ ~records[reply[r].id].question
    BY DEF ReplayAnswersTheAsk
  <2>1. Key(r) # NoKey /\ WrittenFor(reply[r].id, Key(r)) /\ ask[r] \in Asks
    BY DEF AnalysisInv, ReplyOK, At, Types
  <2>2. PICK a \in Asks : /\ CacheKey(a) = Key(r)
                          /\ records[reply[r].id].subject = Subject(a)
                          /\ records[reply[r].id].question = a.question
    BY <2>1 DEF WrittenFor
  <2> QED
    BY <2>1, <2>2, KeyTellsSubject DEF Key
<1> QED
  BY <1>1, AnalysisInvariant, PTL

\* A client that has seen done has received the very text of the record that
\* done names, and a stream that ended with an error left none behind
\* (run_stream, _sse_events).
THEOREM StreamsAreStored == Spec => []StreamedIsStored
<1>1. AnalysisInv => StreamedIsStored
  <2> SUFFICES ASSUME AnalysisInv, NEW r \in Requests, Streams(r)
               PROVE  /\ At(r, "done") => sent[r] = records[reply[r].id].content
                      /\ At(r, "error") => \A i \in DOMAIN records : records[i].content[1][1] # r
    BY DEF StreamedIsStored
  <2>1. At(r, "done") => sent[r] = records[reply[r].id].content
    BY DEF AnalysisInv, Flowing, At
  <2>2. ASSUME At(r, "error"), NEW i \in DOMAIN records PROVE records[i].content[1][1] # r
    <3>1. i \in 1 .. Len(records)
      BY DEF AnalysisInv, Types
    <3>2. PICK q \in Requests : Own(records[i].content, q) /\ pc[q] \in {"fill", "done", "gone"}
      BY <3>1 DEF AnalysisInv, Written
    <3> QED
      BY <2>2, <3>2 DEF Own, At
  <2> QED
    BY <2>1, <2>2
<1> QED
  BY <1>1, AnalysisInvariant, PTL

===============================================================================
