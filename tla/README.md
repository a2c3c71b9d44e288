# Verification of bookie-breaker-agent

TLA+ models, model-checking runs and machine-checked proofs for the agent of
Bookie Breaker: the service that runs the pipeline *statistics → simulation →
prediction → edges → bets*, on demand, on a cron schedule and on events, and
serves what it found.  The package is `src/src/agent`; paths below are relative
to it.  Everything runs in one asyncio process over Postgres and Redis, so what
can go wrong is between two awaits: of two requests, of a request and a
background task, of a task and its cancellation.

## The system

| Component | State | Operations | Hard part |
|---|---|---|---|
| Run admission (`core/pipeline.py`, `db/repository.py`, `db/tables.py`) | `pipeline_runs` rows, `_tasks` | `start_run`, `_execute`, `finish` | check and insert in different transactions; cancellation and crash between insert and task |
| Run execution (`core/pipeline.py`) | outcomes of the games, steps map, edges, bets | `_execute_inner`, `_process_game` | concurrent games behind a semaphore, partial failure, unlinked bets |
| Auto-bettor (`core/bettor.py`, `edges/kelly.py`) | a plan per run; the emulator's bets | `fetch_bankroll`, `plan`, `place_bet`, `place_parlay` | the exposure read is stale; retries; rounding |
| Live debouncer (`core/live.py`) | `_timers`, `_running`, `_pending` | `request`, `_debounced_fire`, `_evaluate`, `stop` | hand-over of a frame between three coroutines; shutdown |
| Cron scheduler (`core/scheduler.py`, `api/routes/schedule.py`) | `pipeline_schedules`, the tick's snapshot, `_wake`, `_summary_next` | `_tick`, `_fire`, `_sleep_until`, upsert | a snapshot written back over an edit; crash between run and roll-forward |
| Event re-runs (`core/rerun.py`) | `_timers`, `_last_fired` | `request`, `_fire`, `stop` | cancellation in mid-start; `stop` walks a map that changes |
| Event subscriber (`events/subscriber.py`) | connection, the handler | `_run`, `handle_message`, the three reactions | lost events; a handler that fails half-way; runs and readers in between |
| Dashboard and slate (`core/dashboard.py`, `core/slate.py`) | redis keys with a TTL | cache-aside read | a reader overtaken by an invalidation |
| Edge detector (`core/edge_detector.py`, `edges/`) and props (`core/props.py`) | none: a game's quotes and prediction rows in, edges out | group, de-vig, match, keep the best; request prop probabilities, translate players | boundaries; whose probability; mispaired alternate lines |
| Parlays (`core/parlay.py`, `core/parlay_scanner.py`, `edges/correlation.py`, `place_parlay`) | `parlays` rows; the emulator's parlay bets | `scan_game`, `evaluate`, `place_parlay` | lines that move between two legs; two definitions of "mutually exclusive"; lost answers, crashes |
| Analysis (`core/analysis.py`, `core/summary.py`, `llm/`) | `analyses` rows; redis keys with a TTL | `create`, `prepare_stream` / `run_stream`, `generate` | no single flight; failure and disconnect in mid-stream; record and key are in two stores |
| Alerts and listings (`core/alerts.py`, `events/publisher.py`, `api/pagination.py`) | `edge_alerts` and `edges` rows | `dispatch_all`, `GET /edges`, `GET /alerts`, acknowledge | a batch whose steps fail one by one; pages of a table that changes |
| Clients and retry (`clients/`), the rest of the API (`api/`), wiring (`main.py`, `config.py`, `telemetry.py`) | HTTP sessions | I/O | timeouts after the effect |

How they interact: the API, the scheduler and the re-run timers call
`start_run`; the task it creates calls the upstream services, the detector, the
bettor, the alerts and the parlay scanner.  The subscriber marks edges stale,
drops the caches, calls `RerunCoordinator.request` for a league and
`LiveDebouncer.request` for a game.  At shutdown the lifespan stops the
scheduler, the coordinator and the debouncer *before* the subscriber that feeds
the last two.

What makes each component correct is stated with the modules below.  The list of
hazards, each at its line and with the properties that cover it, is in
`PROJECT.json`.

## The modules

**LeagueLock** (abstract) — a league is a lock; a run takes it when it is
admitted and gives it back when it closes.

**PipelineRuns** — `start_run` has four awaits, so a caller is `idle`,
`resolving` (past the duplicate check), `created` (past the INSERT); then the run's
task is `executing`, `committed` (final status written, not returned),
`failing` (in an except clause) or `done`.  Actions: `CheckActive`,
`ResolveFails`, `CreateRunning` / `CreateConflicts` (the partial unique index is
`IndexAllows`), `Launch`, `LaunchFails`, `Complete`, `Return`, `Raise`,
`FinishRaises`, `MarkFailed`, `MarkFailedRaises`; the environment's
`CancelCaller`, `CancelTask`, `CancelHandler`, `Crash`.  `CheckActive` takes
`QUEUED` and `RUNNING` to be one status: no statement of the code writes `QUEUED`.

**PipelineExecution** — one run: per game `Acquire`, `Resolve`, `Simulate`,
`Predict`, `Detect`, `GameFails` (an ApiError, recorded), `GameRaises` (any other
exception, which leaves `gather` while the siblings go on); then `Collect`,
`Plan`, `InsertEdge`, `Dispatch`, `PlaceBet`, `PlaceBetFails` (with the bet placed
or not), `LinkBet`, `WriteProgress`, `Publish`, `Finish`.  It is shown to take the
steps of PipelineRuns' task (`RefinesTask`), which is how the two compose.

**AutoBettor** — runs of different leagues overlap; runs of one league follow each
other, which is PipelineRuns' `OneTaskPerLeague`.  `Stakes` is
`scale_simultaneous_bets` in integers, with Python's rounding to even.  Money is
in cents.

**Coalescing** (abstract), **LiveDebouncer** — frames are counted; a timer, the
pending flag and an evaluation are what stands for a frame not yet evaluated.
An evaluation is `asking` (its fetches), `storing`, then `dispatching` its alerts; it may
end, by an exception too, at each (`EvaluationEnds`).  `stop` collects the tasks and
cancels and awaits them one by one.

**Scheduler** — the loop works on a snapshot of the rows while the route's steps and
`Restart` come at every await.  A cron expression is a period.  `LoopStep` is
`_run`: list, per schedule backfill / not due / misfire / start and `MarkRan`, the
daily summary, the sleep.  The tick's `now` is read once, in `tickNow`.  The route is a
coroutine in `posts`: `Upsert` reads the clock and computes `next_run_at`, `WriteRow` (or
`PostFails`) commits it some time later, `Wake` sets the event.  Four histories name
what is lost on the way: `twice` (occurrences started twice), `unrolled` (their
roll-forward was lost), `reset` (an upsert wrote them back), `unread` (schedules written
since the tick read the rows).

**RerunCoordinator** — a timer sleeps, checks the schedule, starts a run.
`Request` replaces the timer `_timers` holds, whatever it is doing.  `stop` visits
the leagues of the map; a league that was added makes the iteration raise
(`StopRaises`).

**EventSubscriber** — events are queued, taken, handled in the order mark / invalidate /
request, and each of the three can fail; runs read lines and insert edges, readers fill
the cache, in between.  A live frame (`is_live`) moves the lines and marks nothing.
`excused` and `missed` are history variables: they remember for which games, and for which
dashboard, one of the named losses happened, so that the properties can say *only then*.

**EdgeDetector** — one game of one run: `Fetch` (any sequence of quotes), `PropRows` /
`NoProps` (the best-effort prop step), `Detect` / `SkipGame`.  The algorithm is in
operators that follow the code's passes: `Groups` and `Complete` (`_group_markets`),
`BeatsFair` (de-vig), `Matched` (`_match_prediction`), `IsEdge`, `Detected` (the best
price per outcome).  Arithmetic is exact, on fractions: probabilities in percent,
American odds in tens.  `Bridge`, `Requests` and `Rewritten` are `core/props.py`.

**Parlay** — the rules: `ValidLegs`, `Compatible` (`_validate_legs`), `Prior` and
`Raises` (`correlation_prior`), `SelectCandidates` and `Combinations` (the scanner).

**ParlayScan** — `StartScan`, `NextCombo`, `ScanEnds` are `scan_game`; `Request` is the
route; `Resolve`, `PriceLeg` (one leg at a time, each on the board of that moment),
`JointProbability`, `Discard` / `Persist` are `evaluate`; `PlaceParlay`, `PlaceFails` (the
bet received or not) and `Link` are `place_parlay`; `EvaluationFails`, `PersistFails`
and `Crash` can come at each of them.  The body of the request names the legs and no odds
(`Body`): the emulator, external, prices them itself, and answers a key it knows with the
bet it has.  The odds are in the key (`BetKey`) and in the agent's own table only.

**Analysis** — every request is a coroutine: `Arrive`, `ReadCache`, `Lookup`, `Replay` or
`Render`, `Answer`, `Pump` (one turn of the streaming loop), `Store`, `Fill`.  Each call to
redis, the database or the LLM may fail; `Disconnect` cancels a stream, `Expire` a key.
The daily summary is a request without a key.

**Feed** — a batch is inserted edge by edge, then `Describe`, `Publish`, `Record` per
actionable edge; `Begin` takes the time of an insert's transaction, which commits later.
`Abandon` ends a batch anywhere.  A client's `StartWalk`, `GetPage`, `EndWalk` are the GETs
with keyset cursors, while `MarkStale`, `Acknowledge` and the clock change what matches.

`MC*` modules instantiate the above for TLC; `*Proofs` modules hold the theorems.
Operators commented "Mutant of X" are X with a plausible bug; no specification uses
them.  Each property of a passing run is falsified by one of them put in X's place.

## The runs

| Run | What it asks | Instance |
|---|---|---|
| `runs` | Is the table a lock per league, and does a row stay open only if everyone who would close it is gone? | 2 leagues and all-league runs, 2 callers, 2 runs, all faults |
| `execution` | Do the final status, the steps map and the bets agree, whatever fails? | 3 games behind 2 slots, 3 candidates over 2 games, all faults |
| `bettor` | When is the exposure cap exceeded? | 2 leagues, 3 bets, one parlay, faults |
| `live` | Does the debouncer coalesce and forget nothing? | 2 games, 3 frames each |
| `scheduler` | Is an occurrence started once, does the loop wake in time, and is nothing left due? | 2 schedules, 2 cron expressions, 1 edit, 1 fault, clock to 3, no misfire grace |
| `rerun` | Cooldown, answers, survivors of `stop` | 2 leagues, 3 requests |
| `events` | Which losses leave an outdated edge fresh, or a flagged edge on the dashboard? | 2 games of a league, 2 events |
| `events_fallback` (violation) | Does the edges fallback find the league? | the same |
| `edges` | Whose probability prices an edge, and is the best offer found? | every feed of at most 4 of 13 quotes by 2 books; 3 sets of predictions; 3 players |
| `parlays` | What is stored and bet, on lines that move, with lost answers and crashes? | 3 pools of edges, 5 requests, 2 boards, 3 games, 2 rows of the table |
| `analysis` | Is a replay of the right subject, and a stream what is stored? | 3 requests of 8 kinds over 2 edges of a game, 2 deltas |
| `feed` | Are a client's pages exact, and is every edge announced? | 2 batches of 3 edges, 3 queries, pages of one row, 2 times |

`events_fallback` is a disagreement between the code and its own tests and docs that
takes an interleaving to see.  The other disagreements met while modelling are `findings`
in `PROJECT.json` too, with both sides quoted: a RUNNING row left for good when its
caller is cancelled or the process dies; a game's unexpected exception that fails the
run; the cap exceeded by overlapping runs; a timer armed in the shutdown; spreads of one
handicap paired as a market; a broken Ollama stream taken for a complete answer; one
parlay leg priced twice.  The models contain all of these behaviours, and the properties
of the passing runs say what holds in spite of them.

**Why the bounds are enough.** PipelineRuns' conflicts are between two runs and two
callers, and the proofs lift the safety properties to any number.  In
PipelineExecution the third game waits for a slot the others hold or fail with; one
game has two candidates so that a bet error recorded per game can hide another bet.
AutoBettor's cap is used up by two bets at the 5% a bet may have, so the third is
scaled to what is left.  LiveDebouncer needs one frame evaluated, one in flight, one
more; its proofs cover any number.  The scheduler's clock covers an occurrence
of either expression, an edit from one to the other that is in flight while the first is
fired, and, the grace being 0, a misfire; `MaxTime`, `MaxEdits` and `MaxFaults` are its
bounds, `MaxSleep` the code's own.  With either of its two exceptions taken away
`OccurrenceFiresOnce` fails in this instance, and so does `SleepsNoFurther` without its own:
both happen.  `MaxRequests` is 3: before, during and after `stop` visits the
league.  Two events suffice for one to arrive while the other is handled half-way.
Four quotes make two complete markets, of one book or of two, a three-way market and a
loose quote, or a market with a replaced quote; the probabilities and prices are chosen
on both sides of each threshold.  The parlay pools hold two props that differ only in the
player, duplicates of an offer, and seven edges of which six become candidates with more
combinations than are evaluated; `MaxParlays` lets a parlay be stored, bet on, lost and
evaluated again.  Three requests are a writer, a reader and one that overwrites the key
between them; `MaxDeltas` is a first and a last delta.  A walk in `feed` has up to three
pages; `MaxTime` 2 gives rows of one time and of two, and a commit behind the cursor.

**Fairness.** Weak fairness of a task's steps means that asyncio resumes it and that
each awaited call ends; all HTTP calls have timeouts (`clients/base.py`).  Faults,
cancellations, edits, requests, frames, events and shutdown are never fair: they may
not happen.  Frames, requests and events are bounded, which stands for a burst that
ends: a stream of frames denser than the debounce postpones the evaluation for ever,
by design (`core/live.py`, `core/rerun.py`: "after the *last* event").  In
`scheduler` the clock is fair and stops at `MaxTime`; a sleep that would end later
ends there, so `DueIsHandled` does not see a lost wake-up: that is what `SleepsNoFurther`
is about.  `events` assumes that the subscriber reconnects.
In `feed` each step of a batch is fair: the LLM call ends within its timeout, redis and the
database answer or raise; abandoning a batch, and everything a client does, is not.

**Deadlock** is checked in `runs`, `bettor`, `scheduler`, `rerun`, `events`, `parlays` and
`feed`.  The others end: a run is over, a stopped debouncer is idle, a game is priced, a
request is answered.

## What the properties say

*PipelineRuns.* `OneTaskPerLeague`: two tasks never work on one league, although the check
is stale when the row is inserted.  `ConflictOnlyFromWindow`: an active run that conflicts
with a call in progress was inserted since that call's query; the check is right but for
the window.  `WorkingRunHoldsRow`: nobody closes the row of a working run.
`ClosedOnlyTurnsFailed`: a final status changes only to FAILED and only by the run's own
except clauses — a real case: a run that is cancelled while `finish("COMPLETED")` returns
becomes FAILED. `RunsCloseUnlessAbandoned` is the true form of the comment "a run must
always reach a terminal state", which does not hold as it stands.  It does not catch the
three ways that end in `Abandoned` (the caller is cancelled, the process dies, the write
of FAILED raises): it excuses them by name, and says that a row stays open in no other.

*PipelineExecution.* `CompletedMeansComplete`, `FailedMeansNothingBet`,
`UnlinkedBetIsReported` and `BetsWaitForEveryGame` relate the row to what was really
priced, inserted and bet.  `UnlinkedBetIsReported` is about runs that finish by
themselves: a `set_paper_bet` that raises ends the run FAILED with its error, and the bet
is not counted.  `EveryGameEnds` is about the semaphore.

*AutoBettor.* `CapExceededOnlyBlindly` is the true form of the cap: it is broken only
through exposure no plan looks at.  That a repeated key is not a second bet is the
emulator's promise, and is assumed.

*LiveDebouncer.* `NoFrameForgotten`, `EveryFrameIsEvaluated`, `ShownNeverRegresses`,
`OneEvaluationPerGame`, and with them the promise of Coalescing, liveness included.

*Scheduler.* `OccurrenceFiresOnce`: an occurrence is started twice in two cases only.
Its roll-forward was lost (an exception, a restart), or an upsert that had computed
`next_run_at` before the occurrence was fired committed it after `mark_ran`
(`api/routes/schedule.py:75-89` awaits in between); neither another edit in the middle of a
tick nor a snapshot does it.  `SleepsNoFurther`: the loop sleeps past the fire time of no
schedule but those written after the tick had read the rows, or all, when the tick failed.
`DueIsHandled`.  That `mark_ran`
overwrites the `next_run_at` of an edit made during `start_run`, with an occurrence of the
old cron expression, is in the model and in the hazards, and no property forbids it; it
repairs itself at that occurrence.

*RerunCoordinator.* `CooldownSpacing` holds because a league has one timer that
`_timers` knows; once `stop` has cleared the map that is no longer so, and the
property says so.  `SurvivorsAreLate`: where `stop` returns, only timers requested after it
began outlive it; where it raises, all that is said is that a request came after it began.
`EventIsAnswered`.

*EventSubscriber.* `OutdatedEdgeIsPending` and `OutdatedEdgeIsFlagged`: an edge made from
moved lines stays fresh only if they moved in a live frame, the event was lost, its
handling failed, or the edge was inserted after it.  Those are the ways in this model, in
which every move is published.  `CacheBehindIsInFlight`: likewise for a flagged edge on a
cached dashboard.

*EdgeDetector.* `ProbabilityIsItsOwn`: an edge is never priced by another player's or
outcome's probability, nor by a complement that is not one, but for the one case named
`Crossed`.  `OppositeEdgesAreArbitrage`: both sides of a market become edges only when the
two prices really are an arbitrage (or the predictions contradict each other).
`BestOfferIsKept` is the converse: an offer that deserves an edge is not lost in grouping,
matching or keeping the best.

*ParlayScan.* `BetsAreOnRecord` and `LinkedBetIsItsOwn` relate the table and the emulator
over timeouts, crashes and repeated scans.  `NeverRaises` relates two definitions of
mutually exclusive legs in two files; a disagreement would end a game's scan.  None of them
is about the price the emulator gives a bet, which the agent neither sends nor reads.
`OpposedLegsGainNothing`: the signs of the priors,
through to what is called actionable.  `EveryPairIsTried`: what the cap of 20 cuts off.

*Analysis.* `ReplayAnswersTheAsk` and `StreamedIsStored` tie together what was asked, sent,
stored and cached by different requests.

*Feed.* `WalkIsExact`: a row that matches from the first page to the last is returned
exactly once, whatever happens between the pages.  `EveryEdgeIsTried`: no failure of one
alert keeps another from going out.

## The proofs

`PipelineRunsProofs`, for any sets of leagues, runs and callers and any set of faults
(assumptions: `All` is no league, `NoRun` no run, `Faults` are known faults).  That
two tasks never share a league follows from the unique index only because a working
task's row is still RUNNING, which holds only because no other caller or task can own
the same run; `RunsInv` is the conjunction of the three with the types, and of the
window property.  From it: `TypeCorrect`, `TasksExclusive`, `RowHeldWhileWorking`,
`GuardMissesOnlyWindow`, `ClosedStaysClosed`, and `LockRefined`: every step is a step of
LeagueLock or leaves the locks alone.

`LiveDebouncerProofs`, for any set of games and any number of frames: `DebouncerInv`
adds to the properties that what is shown and what is in flight is never newer than the
lines (`Bounded`), that nothing is armed but for a frame not yet evaluated (`Asked`),
and that the flag stands only beside an evaluation (`Waiting`).  From it: `TypeCorrect`,
`EvaluationsExclusive`, `FramesKept`, `EdgesNeverRegress`, and `DebouncerCoalesces`: the
safety part of Coalescing.

`ParlayProofs`, for any edges, requests, offers and predictions.  First the rules:
`CompatibleNeverRaise` (what `_validate_legs` lets stand together `correlation_prior` does
not call exclusive), `RaisesIsSymmetric`, `PriorIsSymmetric`.  Then `ScanInv`: what is
resolved keeps the game, market, side and subject it was validated with, whatever line and
book it is priced at; a key names every attribute of its legs; the parlay being bet on is
the last row and actionable; so a bet is on record before it is placed, and a link is the
key of the parlay's own legs and leads to a bet whose body names them.  From it
`NoValueError`, `BetsRecorded`, `LinksAreTrue`.

Then `GainInv`: validated legs that point apart have a prior of at most zero
(`OpposedPrior`), so the joint probability of such a pair, whichever end of the interval
is taken, is at most its product, and a parlay's expected value grows with its
probability: `OpposedLegs`.  The folds that multiply, price and gather two legs are
evaluated step by step in lemmas of their own.

Last, `PairsTried`, by counting: the scanner's order of combinations is strict, so each
combination has a place of its own; pairs come first, six candidates make fifteen of them,
and fifteen are within the cap of twenty.

`EdgeDetectorProofs`, for any quotes, rows, haircut and threshold: an edge has a positive
expected value at its own price (`DetectorInv`), and two opposite edges whose probabilities
do not exceed one together are therefore an arbitrage (`OppositeEdges`); the arithmetic is
one lemma about four integers.  `OwnProbabilities` follows a probability from the
prediction service through `_merge_prop_probabilities` and the complement to the edge.
`BestOffers` is the long one: a quote that stands is in its market's group and keeps its
fair share there (the de-vig of a market with two sides is evaluated explicitly), its one
probability makes it a candidate, and among the candidates of one outcome, whatever
number of books quotes them, there is one that none beats; that is an induction over
where a market begins, carried out on a set of numbers.

`AnalysisProofs`, for any requests and any number of deltas: a key tells its subject and
leads to a record written for it; a client is one delta behind the LLM until the last turn
of the loop; a record begins with a delta of the request that wrote it, which is then past
`store`.  From `AnalysisInv`: `ReplaysAreRight`, `StreamsAreStored`.

`PipelineExecutionProofs`, for any finite set of games, any candidates, concurrency and
faults.  `ExecutionInv` says what each stage leaves behind (`Stages`), in which of three
places every attempted bet is (`Booked`: linked, being linked, or an error under its
game), what the row shows at each stage (`Written`) and who may close it (`Closing`).
From it `CompletedIsComplete`, `UnlinkedIsReported`, `BetsWait`, `FailedBetNothing`; and
`RunIsATask`, step by step: the run executed in detail is the task of PipelineRuns, whose
theorems therefore speak of it.

`TriggerProofs`, for any leagues, schedules, periods, games and numbers of events, edits
and faults.  The scheduler (`CronInv`): a started occurrence that is not `Undone` (its
roll-forward lost, or written back) is behind the tick, and neither the row nor any
snapshot still to be handled is due at it; hence `FiresOnce`.  Then `SleepInv`: from the
read to the sleep, each awaited schedule is known to the tick, by a fire time in
`upcoming`, by its snapshot, or by being fired; the sleep is to the least of `upcoming`,
and that a set of times has a least element is argued from the well-foundedness of `<`;
hence `SleepsInTime`.  The events (`BusInv`): the news of a moved line is on the channel,
with the handler, or in the reader that will drop the cache, unless the loss is one of
those named; hence `OutdatedIsPending` and `CacheIsInFlight`.  The re-run timers
(`RerunInv`): each request has one timer, until `stop` has cleared the map a league's only
live timer is the one in it, and one past the check belongs to a league that is not
cooling; hence `SurvivorsLate` and `RunsAreSpaced`.

`InductionProofs`, what AutoBettor's stakes and Feed's pages add up to, for any number of
keys, rows and pages.  The library's induction theorems take a predicate, which the
provers cannot instantiate; these proofs take a *set* instead (of the numbers, or of the
subsets of a finite set, for which something holds) and derive that form of induction
from the existence of minimal elements.  `BetInv`: what is open and planned fits the cap,
up to the rounding of half a cent per bet; so `CapHolds`.  `FeedInv`: the client's rows
are in the order of the listing, and every row that is due is with it or ahead of its
cursor; so `WalksAreExact`.

TriggerProofs and InductionProofs extend several components, so the operators these share
are named for the component: `SubscriberInit`, `CoordinatorNext`, `FeedSpec` and the like.

The assumptions are stated with the constants, and TLC evaluates them in every run.
Leagues, games and idempotency keys are finite sets: they are rows of tables. A page has
at least one row (`limit`, `ge=1` in `api/routes/edges.py`); batches are not empty, since
`dispatch_all` is called for the edges that were inserted; and their rows are numbered
because their UUIDs are ordered. Odds are never between -100 and 100 but for 0, which
stands for a missing price; only spreads have signed lines, and only props a subject; the
roster, the prediction rows and a game's active edges are lists. Periods are positive: a
cron expression's next time is after the time it is asked for.

Only model-checked: everything that says *eventually* (`RunsCloseUnlessAbandoned`,
`RunCloses`, `EveryGameEnds`, `EveryFrameIsEvaluated`, the fairness of
`ImplementsCoalescing`, `DueIsHandled`, `EventIsAnswered`, `OutdatedEdgeIsFlagged`,
`EveryEdgeIsTried`), because liveness under fairness is out of the prover's reach.

Every state machine but ParlayScan and the two abstract ones states its types as an
operator; those of PipelineRuns, PipelineExecution, LiveDebouncer and AutoBettor are
conjuncts of the invariants proved.  In the other proof modules the types an argument
needs are a conjunct named there (`RowsOK`, `BusTypes`, `Numbered`, `TablesOK`, `Shaped`).
The runs are spent on properties that could fail for a reason in the code.

## What is abstracted, and what is not modelled

Identifiers, leagues, games and candidates are model values or small numbers; texts are
sequences of deltas.  Outside EdgeDetector and ParlayScan an offer has no price: a candidate
is found or not, meets the threshold or not.  An upstream call succeeds, fails, or takes
effect and fails.  Debounce and cooldown are not measured.  The lines-service moves a line
and publishes the event in one step; the time between the two is that service's.  The
dashboard's cache is one key.  Settlement of bets is left out.

In EdgeDetector the de-vig method is the default, multiplicative; the additive, power and
Shin methods, the quality score and the Kelly fraction are real-valued formulas that decide
nothing about which edge is kept.  In ParlayScan the joint probability of one game's legs is
an interval, what the marginals allow, narrowed by the signs of the priors when the
simulation has no correlations; one evaluation runs at a time.  That a stream ends without a
final chunk, or without any, is handled in `core/analysis.py` and not modelled: neither
provider can do it.  In Feed the cap on LLM-written descriptions is left out: either kind
of description goes out.

Not modelled, with the reason, in `PROJECT.json` under `components`: decay, quality and
closing-line value (stateless arithmetic), the parsing of upstream payloads, the prompts,
the detail views and serialisation of the API, configuration and telemetry.

## Plan

Done, in this order: PipelineRuns over LeagueLock, with proofs; PipelineExecution, shown to
be PipelineRuns' task; AutoBettor; LiveDebouncer over Coalescing, with proofs; Scheduler;
RerunCoordinator; EventSubscriber; EdgeDetector with the prop step, with proofs; Parlay and
ParlayScan, with proofs; Analysis, with proofs; Feed.

Proved since: PipelineExecution with its refinement, the scheduler, the events and the
re-run timers, the exposure cap, the pages, whose probability prices an edge, the best
offer, opposed legs, and the scanner's combinations.  With that every safety property a
run checks has a theorem.

Next, to model: the gates of `should_bet`; the live evaluator's use of the detector
(`derive_live_state`); the name matching of `clients/reconcile.py`.
