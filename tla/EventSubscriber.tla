---------------------------- MODULE EventSubscriber ----------------------------
(***************************************************************************)
(* The events of the other services, the edges they make stale, and the    *)
(* dashboard cache: EventSubscriber, with the pipeline that inserts edges  *)
(* from the lines it has read, and the readers that fill the cache.        *)
(*                                                                         *)
(* Of the lines an edge was made from, the model keeps whether they have   *)
(* moved since they were read; the lines-service publishes an event with   *)
(* each move.  A handler awaits the database, then redis, then the         *)
(* database: runs, readers and publishers come between.  Only fresh edges  *)
(* (is_stale false) are kept.  The coordinator's side of request is module *)
(* RerunCoordinator; here the leagues asked for are recorded.              *)
(***************************************************************************)
EXTENDS Naturals, Sequences, FiniteSets

CONSTANTS
  Game,         \* games, by their lines-service id
  League,       \* leagues
  LeagueOf,     \* the league of each game
  NoLeague,     \* a payload without a league
  None,         \* no cached dashboard, no reader
  MaxMessages   \* bound: the number of events published

ASSUME LeagueAssumption == LeagueOf \in [Game -> League] /\ NoLeague \notin League
ASSUME MaxMessagesAssumption == MaxMessages \in Nat

VARIABLES
  fresh,      \* the fresh edges
  read,       \* the lines a run at work has read of each game
  channel,    \* the events published and not taken
  published,  \* the number of events published
  connected,  \* the subscriber is subscribed
  handler,    \* where handle_message is
  requested,  \* the leagues the event being handled, or the last, asked for
  cache,      \* the dashboard in redis
  reader,     \* a request for the dashboard, between its read and its set
  excused     \* history: the games for which something in the code's way was lost

runVars == <<fresh, read>>
busVars == <<channel, published, connected>>
cacheVars == <<cache, reader>>
subscriberVars == <<runVars, busVars, handler, requested, cacheVars, excused>>

Edge == [game : Game, outdated : BOOLEAN]
ReadState == {"none", "current", "outdated"}
Message == [kind : {"lines", "live", "stats", "completed", "ignored"},
            games : SUBSET Game, league : League \union {NoLeague}]

\* A dashboard: whether edges were flagged stale since its edges were read,
\* and (history) whether an invalidation that should drop it has failed or
\* came before it was stored.
Dashboard == [behind : BOOLEAN, missed : BOOLEAN]

HandlerPlace == {"idle", "marking", "invalidating", "requesting"}

NoMessage == [kind |-> "ignored", games |-> {}, league |-> NoLeague]
Idle == [at |-> "idle", msg |-> NoMessage, todo |-> {}, affected |-> {}]

SubscriberInit ==
  /\ fresh = {} /\ read = [g \in Game |-> "none"]
  /\ channel = <<>> /\ published = 0 /\ connected = TRUE
  /\ handler = Idle /\ requested = {}
  /\ cache = None /\ reader = None
  /\ excused = {}

EdgesOf(g) == {e \in fresh : e.game = g}

\* leagues_for_game_externals.
LeaguesOf(gs) == {LeagueOf[e.game] : e \in {e \in fresh : e.game \in gs}}

\* The event reaches the games' edges in the future, or has lost its chance.
Pending(g) ==
  \/ \E i \in DOMAIN channel : channel[i].kind = "lines" /\ g \in channel[i].games
  \/ handler.msg.kind = "lines" /\ g \in handler.todo

-----------------------------------------------------------------------------
(***************************************************************************)
(* The other services and the bus.                                         *)
(***************************************************************************)

\* Redis delivers an event to those who are subscribed, and keeps none.
Publish(msg) ==
  /\ published < MaxMessages
  /\ published' = published + 1
  /\ channel' = IF connected THEN Append(channel, msg) ELSE channel
  /\ UNCHANGED <<connected, handler, requested, cacheVars>>

\* The lines of some games of a league move: before the games, or live, while
\* they are played.  A live frame goes to the live debouncer and flags nothing.
LinesMove(gs, l, live) ==
  /\ gs # {}
  /\ l # NoLeague => \A g \in gs : LeagueOf[g] = l
  /\ Publish([kind |-> IF live THEN "live" ELSE "lines", games |-> gs, league |-> l])
  /\ fresh' = {IF e.game \in gs THEN [e EXCEPT !.outdated = TRUE] ELSE e : e \in fresh}
  /\ read' = [g \in Game |-> IF g \in gs /\ read[g] # "none" THEN "outdated" ELSE read[g]]
  /\ excused' = IF connected /\ ~live THEN excused ELSE excused \union gs

\* Other events: statistics move, a game ends, or something the agent ignores.
OtherEvent(kind, gs, l) ==
  /\ kind = "completed" => Cardinality(gs) <= 1
  /\ kind # "completed" => gs = {}
  /\ kind # "stats" => l = NoLeague
  /\ Publish([kind |-> kind, games |-> gs, league |-> l])
  /\ UNCHANGED <<runVars, excused>>

Queued == UNION {channel[i].games : i \in {i \in DOMAIN channel : channel[i].kind = "lines"}}

\* get_message raises; what was not taken is lost.
Disconnect ==
  /\ connected
  /\ handler.at = "idle"
  /\ connected' = FALSE
  /\ channel' = <<>>
  /\ excused' = excused \union Queued
  /\ UNCHANGED <<published, runVars, handler, requested, cacheVars>>

\* The backoff has passed, and subscribe succeeds.
Reconnect ==
  /\ ~connected
  /\ connected' = TRUE
  /\ UNCHANGED <<channel, published, runVars, handler, requested, cacheVars, excused>>

-----------------------------------------------------------------------------
(***************************************************************************)
(* handle_message.                                                         *)
(***************************************************************************)

\* Where the handler of a message begins, and where it goes from the marking.
FirstPlace(msg) ==
  IF msg.kind \in {"lines", "completed"} THEN "marking"
  ELSE IF msg.kind = "stats" THEN "requesting" ELSE "idle"

Handling(msg) ==
  IF FirstPlace(msg) = "idle" THEN Idle
  ELSE [at |-> FirstPlace(msg), msg |-> msg, todo |-> msg.games, affected |-> LeaguesOf(msg.games)]

\* Mutant of TakeMessage: the last event stands for those before it.
TakeLatest ==
  /\ connected
  /\ handler.at = "idle"
  /\ channel # <<>>
  /\ handler' = Handling(channel[Len(channel)])
  /\ channel' = <<>>
  /\ requested' = {}
  /\ UNCHANGED <<published, connected, runVars, cacheVars, excused>>

\* get_message returns an event.
TakeMessage ==
  /\ connected
  /\ handler.at = "idle"
  /\ channel # <<>>
  /\ handler' = Handling(Head(channel))
  /\ channel' = Tail(channel)
  /\ requested' = {}
  /\ UNCHANGED <<published, connected, runVars, cacheVars, excused>>

Behind(dashboard) == IF dashboard = None THEN None ELSE [dashboard EXCEPT !.behind = TRUE]

\* Mutant of MarkStale: the other games of the event are not marked.
MarkFirst(g) ==
  /\ handler.at = "marking"
  /\ g \in handler.todo
  /\ handler' = [handler EXCEPT !.todo = {}]
  /\ fresh' = fresh \ EdgesOf(g)
  /\ excused' = excused \ {g}
  /\ IF EdgesOf(g) = {} THEN UNCHANGED cacheVars
     ELSE cache' = Behind(cache) /\ reader' = Behind(reader)
  /\ UNCHANGED <<busVars, read, requested>>

\* mark_stale_by_game_external.
MarkStale(g) ==
  /\ handler.at = "marking"
  /\ g \in handler.todo
  /\ handler' = [handler EXCEPT !.todo = @ \ {g}]
  /\ fresh' = fresh \ EdgesOf(g)
  /\ excused' = excused \ {g}
  /\ IF EdgesOf(g) = {} THEN UNCHANGED cacheVars
     ELSE cache' = Behind(cache) /\ reader' = Behind(reader)
  /\ UNCHANGED <<busVars, read, requested>>

MarkingDone ==
  /\ handler.at = "marking"
  /\ handler.todo = {}
  /\ handler' = [handler EXCEPT !.at = "invalidating"]
  /\ UNCHANGED <<busVars, runVars, requested, cacheVars, excused>>

Missed(dashboard) ==
  IF dashboard # None /\ dashboard.behind THEN [dashboard EXCEPT !.missed = TRUE] ELSE dashboard

\* Mutant of Invalidate: the keys are not deleted.
InvalidateNothing ==
  /\ handler.at = "invalidating"
  /\ handler' = IF handler.msg.kind = "lines" THEN [handler EXCEPT !.at = "requesting"] ELSE Idle
  /\ UNCHANGED <<busVars, runVars, requested, cacheVars, excused>>

\* _invalidate_caches: a reader that has its edges already is not stopped.
Invalidate ==
  /\ handler.at = "invalidating"
  /\ cache' = None
  /\ reader' = Missed(reader)
  /\ handler' = IF handler.msg.kind = "lines" THEN [handler EXCEPT !.at = "requesting"] ELSE Idle
  /\ UNCHANGED <<busVars, runVars, requested, excused>>

\* The leagues to re-run: "payload first, edges fallback".
Resolved(msg) == IF msg.league # NoLeague THEN {msg.league} ELSE LeaguesOf(msg.games)

\* _request_reruns.
RequestReruns ==
  /\ handler.at = "requesting"
  /\ requested' = Resolved(handler.msg)
  /\ handler' = Idle
  /\ UNCHANGED <<busVars, runVars, cacheVars, excused>>

\* The database or redis raises: handle_message logs it and goes on to the
\* next event; the rest of this one is not done.
HandlerFails ==
  /\ \/ handler.at = "marking" /\ handler.todo # {}
     \/ handler.at = "invalidating"
     \/ handler.at = "requesting" /\ handler.msg.league = NoLeague
  /\ handler' = Idle
  /\ excused' = excused \union handler.todo
  /\ IF handler.at = "requesting" THEN UNCHANGED cacheVars
     ELSE cache' = Missed(cache) /\ reader' = Missed(reader)
  /\ UNCHANGED <<busVars, runVars, requested>>

HandlerStep ==
  \/ TakeMessage
  \/ \E g \in Game : MarkStale(g)
  \/ MarkingDone \/ Invalidate \/ RequestReruns \/ HandlerFails

-----------------------------------------------------------------------------
(***************************************************************************)
(* The pipeline and the readers of the dashboard.                          *)
(***************************************************************************)

\* A run reads the game's lines.
RunReads(g) ==
  /\ read[g] = "none"
  /\ read' = [read EXCEPT ![g] = "current"]
  /\ UNCHANGED <<fresh, busVars, handler, requested, cacheVars, excused>>

\* It inserts an edge after all the games of the run; whether the lines have
\* moved in the meantime is not looked at.
RunInserts(g) ==
  /\ read[g] # "none"
  /\ fresh' = fresh \union {[game |-> g, outdated |-> read[g] = "outdated"]}
  /\ read' = [read EXCEPT ![g] = "none"]
  /\ excused' = IF read[g] = "outdated" /\ ~Pending(g) THEN excused \union {g} ELSE excused
  /\ UNCHANGED <<busVars, handler, requested, cacheVars>>

\* It finds none, or fails.
RunDrops(g) ==
  /\ read[g] # "none"
  /\ read' = [read EXCEPT ![g] = "none"]
  /\ UNCHANGED <<fresh, busVars, handler, requested, cacheVars, excused>>

\* get_dashboard: a miss, and the edges are read.
ReaderReads ==
  /\ cache = None /\ reader = None
  /\ reader' = [behind |-> FALSE, missed |-> FALSE]
  /\ UNCHANGED <<runVars, busVars, handler, requested, cache, excused>>

\* The dashboard is stored; or that fails.
ReaderStores ==
  /\ reader # None
  /\ cache' \in {cache, reader}
  /\ reader' = None
  /\ UNCHANGED <<runVars, busVars, handler, requested, excused>>

CacheExpires ==
  /\ cache # None
  /\ cache' = None
  /\ UNCHANGED <<runVars, busVars, handler, requested, reader, excused>>

-----------------------------------------------------------------------------
SubscriberNext ==
  \/ \E gs \in SUBSET Game, l \in League \union {NoLeague} :
       \/ \E live \in BOOLEAN : LinesMove(gs, l, live)
       \/ \E kind \in {"stats", "completed", "ignored"} : OtherEvent(kind, gs, l)
  \/ Disconnect
  \/ Reconnect
  \/ HandlerStep
  \/ \E g \in Game : RunReads(g) \/ RunInserts(g) \/ RunDrops(g)
  \/ ReaderReads \/ ReaderStores \/ CacheExpires

SubscriberSpec == SubscriberInit /\ [][SubscriberNext]_subscriberVars

\* The event loop resumes the subscriber's task.
FairSubscriberSpec == SubscriberSpec /\ WF_subscriberVars(HandlerStep) /\ WF_subscriberVars(Reconnect)

-----------------------------------------------------------------------------
(***************************************************************************)
(* Properties.                                                             *)
(***************************************************************************)

SubscriberTypeOK ==
  /\ fresh \subseteq Edge
  /\ read \in [Game -> ReadState]
  /\ channel \in Seq(Message) /\ Len(channel) <= published
  /\ published \in 0 .. MaxMessages
  /\ connected \in BOOLEAN
  /\ handler \in [at : HandlerPlace, msg : Message, todo : SUBSET Game, affected : SUBSET League]
  /\ requested \subseteq League
  /\ cache \in {None} \union Dashboard /\ reader \in {None} \union Dashboard
  /\ excused \subseteq Game

\* A fresh edge made from lines that have moved is about to be flagged
\* (subscriber.py:133-134), unless they moved live (subscriber.py:125-131), the
\* event was lost with the connection, its handling failed, or the run inserted
\* the edge after the event was handled.
OutdatedEdgeIsPending ==
  \A e \in fresh : e.outdated => e.game \in excused \/ Pending(e.game)

\* And it is flagged in the end.
OutdatedEdgeIsFlagged ==
  \A g \in Game :
    LET edge == [game |-> g, outdated |-> TRUE] IN
    edge \in fresh ~> (edge \notin fresh \/ g \in excused)

\* A cached dashboard that still shows flagged edges is about to be dropped
\* (subscriber.py:137, 169), unless the invalidation failed, or a reader that
\* had read the edges before it stored the dashboard after it.
CacheBehindIsInFlight ==
  cache # None /\ cache.behind /\ ~cache.missed => handler.at \in {"marking", "invalidating"}

\* "Resolve affected leagues (payload first, edges fallback)"
\* (subscriber.py:152): the leagues that had edges on the event's games when
\* it came are found.
FallbackFindsLeague ==
  handler.at = "requesting" /\ handler.msg.kind = "lines" /\ handler.msg.league = NoLeague
    => handler.affected \subseteq Resolved(handler.msg)
=============================================================================
