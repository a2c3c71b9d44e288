------------------------------- MODULE Scheduler -------------------------------
(***************************************************************************)
(* The cron scheduler: PipelineScheduler's loop over pipeline_schedules    *)
(* and the daily summary, with the upsert of a schedule by the API.        *)
(*                                                                         *)
(* The loop reads the enabled schedules into memory and then awaits for    *)
(* each of them; the API, and a restart, may come at every await.  The API *)
(* computes next_run_at, awaits the database, and wakes the loop: three    *)
(* steps, of several requests at a time.  Time is a bounded count.  A cron *)
(* expression is a period: it fires at every positive multiple.  start_run *)
(* is modelled in PipelineRuns: here the run starts, is refused (409 or    *)
(* ApiError), or start_run raises.                                         *)
(***************************************************************************)
EXTENDS Integers, FiniteSetsExt

CONSTANTS
  Schedule,       \* the leagues with a row in pipeline_schedules
  Period,         \* the cron expressions
  SummaryPeriod,  \* DAILY_SUMMARY_CRON
  Grace,          \* SCHEDULE_MISFIRE_GRACE_SECONDS
  MaxSleep,       \* MAX_SLEEP_SECONDS
  Never,          \* a next_run_at that is NULL
  MaxTime,        \* bound: the horizon of the clock
  MaxEdits,       \* bound: the number of upserts
  MaxFaults       \* bound: the number of exceptions and restarts

ASSUME PeriodAssumption == Period \subseteq Nat \ {0} /\ SummaryPeriod \in Nat \ {0}
ASSUME TimeAssumption == Grace \in Nat /\ MaxSleep \in Nat /\ MaxTime \in Nat /\ Never \notin Nat
ASSUME BoundAssumption == MaxEdits \in Nat /\ MaxFaults \in Nat

VARIABLES
  now,          \* the clock
  row,          \* the rows: cron, enabled, next (next_run_at)
  loop,         \* where the scheduler's task is
  tickNow,      \* the tick's "now"
  todo,         \* the schedules of this tick not yet looked at, as they were read
  current,      \* the schedule a run was requested for
  upcoming,     \* the fire times the tick has collected
  deadline,     \* the time the sleep ends
  wake,         \* the wake event
  summaryNext,  \* _summary_next, in memory
  posts,        \* the upserts being handled, with what they will write
  fired,        \* history: the occurrences <<schedule, time>> a run was started for
  twice,        \* history: the occurrences a second run was started for
  unrolled,     \* history: the occurrences started and not rolled forward
  reset,        \* history: the occurrences an upsert wrote back after they were fired
  unread,       \* history: the schedules written since the tick read the rows
  edits,        \* the upserts so far
  faults        \* the exceptions and restarts so far

tickVars == <<tickNow, todo, current, upcoming>>
sleepVars == <<deadline, wake>>
history == <<fired, twice, unrolled, reset, unread>>
vars == <<now, row, loop, tickVars, sleepVars, summaryNext, posts, history, edits, faults>>

\* "firing": start_run has ended and mark_ran has not; "fallen": all of the
\* tick is done but its sleep.
LoopPlace == {"ticking", "working", "firing", "fallen", "sleeping"}

\* Mutant of NextFire: the first occurrence at t or later.
NextFireFrom(period, t) == ((t + period - 1) \div period) * period

\* next_fire: the first occurrence strictly after t.
NextFire(period, t) == (t \div period + 1) * period

\* What the loop has in memory of a schedule.
Snapshot(s) == [id |-> s, cron |-> row[s].cron, next |-> row[s].next]

NoSchedule == [id |-> Never, cron |-> Never, next |-> Never]

Init ==
  /\ now = 0
  /\ row \in [Schedule -> {[cron |-> p, enabled |-> TRUE, next |-> Never] : p \in Period}]
  /\ loop = "ticking"
  /\ tickNow = 0 /\ todo = {} /\ current = NoSchedule /\ upcoming = {}
  /\ deadline = 0 /\ wake = FALSE
  /\ summaryNext = Never
  /\ posts = {}
  /\ fired = {} /\ twice = {} /\ unrolled = {} /\ reset = {} /\ unread = Schedule
  /\ edits = 0 /\ faults = 0

-----------------------------------------------------------------------------
(***************************************************************************)
(* _tick.                                                                  *)
(***************************************************************************)

\* list_enabled, awaited with the time the tick began in hand.
List ==
  /\ loop = "ticking"
  /\ loop' = "working"
  /\ todo' = {Snapshot(s) : s \in {s \in Schedule : row[s].enabled}}
  /\ upcoming' = {}
  /\ unread' = {}
  /\ UNCHANGED <<now, row, tickNow, current, sleepVars, summaryNext, posts,
                 fired, twice, unrolled, reset, edits, faults>>

\* set_next_run and mark_ran: the write looks at nothing but the row's id.
RollForward(r) ==
  LET next == NextFire(r.cron, tickNow) IN
  /\ row' = [row EXCEPT ![r.id].next = next]
  /\ upcoming' = upcoming \union {next}

Due(t) == t # Never /\ t <= tickNow
Late(t) == tickNow - t > Grace

\* The loop looks at the next of the schedules it has read.
Take(r) ==
  /\ loop = "working"
  /\ r \in todo
  /\ todo' = todo \ {r}
  /\ UNCHANGED <<now, tickNow, sleepVars, summaryNext, posts, reset, unread, edits, faults>>

\* _ensure_next_run: a row whose next_run_at was never computed.
Backfill(r) ==
  /\ Take(r)
  /\ r.next = Never
  /\ RollForward(r)
  /\ UNCHANGED <<loop, current, fired, twice, unrolled>>

NotDue(r) ==
  /\ Take(r)
  /\ r.next # Never /\ ~Due(r.next)
  /\ upcoming' = upcoming \union {r.next}
  /\ UNCHANGED <<row, loop, current, fired, twice, unrolled>>

\* Mutant of Misfire: the occurrence is skipped and not rolled forward.
MisfireStays(r) ==
  /\ Take(r)
  /\ Due(r.next) /\ Late(r.next)
  /\ upcoming' = upcoming \union {NextFire(r.cron, tickNow)}
  /\ UNCHANGED <<row, loop, current, fired, twice, unrolled>>

\* Later than the grace: the occurrence is skipped.
Misfire(r) ==
  /\ Take(r)
  /\ Due(r.next) /\ Late(r.next)
  /\ RollForward(r)
  /\ UNCHANGED <<loop, current, fired, twice, unrolled>>

\* start_run ends: the run is started, or refused.
StartRun(r) ==
  /\ Take(r)
  /\ Due(r.next) /\ ~Late(r.next)
  /\ loop' = "firing"
  /\ current' = r
  /\ \/ UNCHANGED <<fired, twice>>
     \/ /\ fired' = fired \union {<<r.id, r.next>>}
        /\ twice' = twice \union (fired \intersect {<<r.id, r.next>>})
  /\ UNCHANGED <<row, upcoming, unrolled>>

\* mark_ran.
MarkRan ==
  /\ loop = "firing"
  /\ RollForward(current)
  /\ loop' = "working"
  /\ current' = NoSchedule
  /\ UNCHANGED <<now, tickNow, todo, sleepVars, summaryNext, posts, history, edits, faults>>

\* _tick_daily_summary: the time is rolled forward before the summary is
\* generated, so that a summary is lost rather than sent twice.
Summary ==
  /\ loop = "working" /\ todo = {}
  /\ loop' = "fallen"
  /\ LET next == IF summaryNext = Never \/ Due(summaryNext)
                   THEN NextFire(SummaryPeriod, tickNow) ELSE summaryNext
     IN  /\ summaryNext' = next
         /\ upcoming' = upcoming \union {next}
  /\ UNCHANGED <<now, row, tickNow, todo, current, sleepVars, posts, history, edits, faults>>

-----------------------------------------------------------------------------
(***************************************************************************)
(* _run and _sleep_until.                                                  *)
(***************************************************************************)

Smaller(a, b) == IF a < b THEN a ELSE b

\* _sleep_until clears the wake event and sleeps to the next wakeup, at most
\* MaxSleep; the event may have been set since the rows were read.
SleepUntil(wakeup) ==
  /\ loop' = "sleeping"
  /\ wake' = FALSE
  /\ deadline' = Smaller(wakeup, now + MaxSleep)
  /\ todo' = {} /\ current' = NoSchedule /\ upcoming' = {}
  /\ UNCHANGED <<now, row, tickNow, fired, twice, reset, edits>>

\* Mutant of Sleep: to the time the latest of them fires.
SleepToLast ==
  /\ loop = "fallen"
  /\ SleepUntil(Max(upcoming))
  /\ UNCHANGED <<summaryNext, posts, unrolled, unread, faults>>

Sleep ==
  /\ loop = "fallen"
  /\ SleepUntil(Min(upcoming))
  /\ UNCHANGED <<summaryNext, posts, unrolled, unread, faults>>

\* The roll-forward of the occurrence being fired is lost.
LoseRollForward ==
  unrolled' = unrolled \union
                (IF loop = "firing" THEN fired \intersect {<<current.id, current.next>>} ELSE {})

\* An exception that is not an ApiError leaves the tick: the loop sleeps and
\* tries again.  (It may also leave the summary, whose time is then lost.)
TickFails ==
  /\ faults < MaxFaults
  /\ loop \in {"ticking", "working", "firing"}
  /\ faults' = faults + 1
  /\ LoseRollForward
  /\ SleepUntil(now + MaxSleep)
  /\ unread' = Schedule
  /\ UNCHANGED posts
  /\ \/ UNCHANGED summaryNext
     \/ /\ loop = "working" /\ todo = {}
        /\ Due(summaryNext)
        /\ summaryNext' = NextFire(SummaryPeriod, tickNow)

\* The sleep ends: the event is set, or the time has come (also when the time
\* lies beyond the horizon).  The next tick begins with the time of now.
WakeUp ==
  /\ loop = "sleeping"
  /\ wake \/ now >= deadline \/ now = MaxTime
  /\ loop' = "ticking"
  /\ tickNow' = now
  /\ UNCHANGED <<now, row, todo, current, upcoming, sleepVars, summaryNext, posts, history, edits, faults>>

-----------------------------------------------------------------------------
(***************************************************************************)
(* The API, the process and the clock.                                     *)
(***************************************************************************)

\* upsert_schedule reads the clock and computes next_run_at ...
Upsert(s, period, enabled) ==
  /\ edits < MaxEdits
  /\ edits' = edits + 1
  /\ posts' = posts \union
                {[number |-> edits, at |-> "writing", id |-> s, cron |-> period, enabled |-> enabled,
                  next |-> IF enabled THEN NextFire(period, now) ELSE Never]}
  /\ UNCHANGED <<now, row, loop, tickVars, sleepVars, summaryNext, history, faults>>

\* A run was started for occurrence o, and mark_ran is still to come.
Firing(o) == loop = "firing" /\ current.id = o[1] /\ current.next = o[2]

\* ... upsert_for_league replaces the row, whatever has been fired meanwhile ...
WriteRow(q) ==
  /\ q.at = "writing"
  /\ posts' = (posts \ {q}) \union {[q EXCEPT !.at = "written"]}
  /\ row' = [row EXCEPT ![q.id] = [cron |-> q.cron, enabled |-> q.enabled, next |-> q.next]]
  /\ reset' = reset \union {o \in fired \intersect {<<q.id, q.next>>} : ~Firing(o)}
  /\ unread' = unread \union {q.id}
  /\ UNCHANGED <<now, loop, tickVars, sleepVars, summaryNext, fired, twice, unrolled, edits, faults>>

\* ... or the request ends without waking the loop: the database raises, or it
\* is cancelled, before the write or after it ...
PostFails(q) ==
  /\ posts' = posts \ {q}
  /\ UNCHANGED <<now, row, loop, tickVars, sleepVars, summaryNext, history, edits, faults>>

\* ... and wake() sets the event.
Wake(q) ==
  /\ q.at = "written"
  /\ posts' = posts \ {q}
  /\ wake' = TRUE
  /\ UNCHANGED <<now, row, loop, tickVars, deadline, summaryNext, history, edits, faults>>

PostStep == \E q \in posts : WriteRow(q) \/ PostFails(q) \/ Wake(q)

\* The process dies and starts again: the rows remain.
Restart ==
  /\ faults < MaxFaults
  /\ faults' = faults + 1
  /\ LoseRollForward
  /\ loop' = "ticking"
  /\ tickNow' = now
  /\ todo' = {} /\ current' = NoSchedule /\ upcoming' = {}
  /\ wake' = FALSE
  /\ summaryNext' = Never
  /\ posts' = {}
  /\ unread' = Schedule
  /\ UNCHANGED <<now, row, deadline, fired, twice, reset, edits>>

Clock ==
  /\ now < MaxTime
  /\ now' = now + 1
  /\ UNCHANGED <<row, loop, tickVars, sleepVars, summaryNext, posts, history, edits, faults>>

-----------------------------------------------------------------------------
TakeNext == \E r \in todo : Backfill(r) \/ NotDue(r) \/ Misfire(r) \/ StartRun(r)

LoopStep == List \/ TakeNext \/ MarkRan \/ Summary \/ Sleep \/ TickFails \/ WakeUp

Next ==
  \/ LoopStep
  \/ \E s \in Schedule, p \in Period, enabled \in BOOLEAN : Upsert(s, p, enabled)
  \/ PostStep
  \/ Restart
  \/ Clock

Spec == Init /\ [][Next]_vars

\* The event loop resumes the scheduler's task, and time passes.
FairSpec == Spec /\ WF_vars(LoopStep) /\ WF_vars(Clock)

-----------------------------------------------------------------------------
(***************************************************************************)
(* Properties.                                                             *)
(***************************************************************************)

Time == 0 .. MaxTime
Horizon == Nat \union {Never}
Occurrence == Schedule \X Nat

TypeOK ==
  /\ now \in Time
  /\ row \in [Schedule -> [cron : Period, enabled : BOOLEAN, next : Horizon]]
  /\ loop \in LoopPlace
  /\ tickNow \in Time
  /\ todo \subseteq [id : Schedule, cron : Period, next : Horizon]
  /\ current \in [id : Schedule, cron : Period, next : Horizon] \union {NoSchedule}
  /\ upcoming \subseteq Nat
  /\ deadline \in Nat /\ wake \in BOOLEAN
  /\ summaryNext \in Horizon
  /\ posts \subseteq [number : Nat, at : {"writing", "written"}, id : Schedule, cron : Period,
                      enabled : BOOLEAN, next : Horizon]
  /\ fired \subseteq Occurrence /\ twice \subseteq fired
  /\ unrolled \subseteq fired /\ reset \subseteq fired /\ unread \subseteq Schedule
  /\ edits \in 0 .. MaxEdits /\ faults \in 0 .. MaxFaults

\* Two runs are started for one occurrence in two cases only: the roll-forward
\* of the first was lost (mark_ran raised, or the process died before it,
\* scheduler.py:148-157), or an upsert that had computed next_run_at before the
\* occurrence was fired wrote it after mark_ran (api/routes/schedule.py:75-89).
\* An edit that is written in the middle of a tick, or of start_run, is none of
\* them, nor is one that is written over by the tick.
OccurrenceFiresOnce == twice \subseteq unrolled \union reset

\* The loop does not sleep beyond the next fire time of an enabled schedule,
\* but for one whose edit it may have missed: it was written after the tick
\* had read the rows, so that _sleep_until may have cleared its wake-up
\* (scheduler.py:96), or its wake-up is still to come; or the tick has failed.
SleepsNoFurther ==
  loop = "sleeping" =>
    \A s \in Schedule \ unread :
      row[s].enabled /\ row[s].next # Never => deadline <= row[s].next

\* An occurrence the loop has come to is rolled forward before the tick ends
\* (scheduler.py:105-111): what is due and enabled does not stay due.
DueIsHandled ==
  \A s \in Schedule, t \in Time :
    (row[s].enabled /\ row[s].next = t /\ t <= now) ~> ~(row[s].enabled /\ row[s].next = t)
=============================================================================
