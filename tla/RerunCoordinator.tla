--------------------------- MODULE RerunCoordinator ---------------------------
(***************************************************************************)
(* Event-triggered re-runs: RerunCoordinator (request, _debounced_fire,    *)
(* _fire, stop).  Every request of a league arms a timer in the place of   *)
(* the one before it, whatever that one was doing; a timer that fires      *)
(* looks at the cooldown, at the schedule and asks for a run.              *)
(*                                                                         *)
(* The debounce interval is not measured: an armed timer may fire at any   *)
(* time.  start_run is module PipelineRuns; here it launches a run, or is  *)
(* refused because the league has a RUNNING row, or raises.  The caller of *)
(* request is the subscriber, which is still at work while stop() runs.    *)
(***************************************************************************)
EXTENDS Naturals, FiniteSets

CONSTANTS
  EventLeague,  \* the leagues events can be about
  MaxRequests   \* bound: the number of requests

ASSUME MaxRequestsAssumption == MaxRequests \in Nat

VARIABLES
  timers,     \* the timer tasks that are alive
  known,      \* the keys of _timers
  requests,   \* the requests so far; a timer is numbered by its request
  asked,      \* history: each league's last request
  answered,   \* history: the last request whose timer came to an end by itself
  launched,   \* history: the requests that led to a run
  cooling,    \* the leagues whose _last_fired is within the cooldown
  enabled,    \* the leagues that have an enabled schedule
  active,     \* the leagues that have a RUNNING row
  stopping,   \* where stop() is
  left,       \* the leagues stop() has not come to
  walked,     \* the keys of _timers when stop() began its walk
  stoppedAt   \* history: the requests made when stop() began

timerVars == <<timers, known, requests, asked, answered, launched>>
leagueVars == <<cooling, enabled, active>>
stopVars == <<stopping, left, walked, stoppedAt>>
coordinatorVars == <<timerVars, leagueVars, stopVars>>

\* "sleeping": the debounce; "checking": has_enabled_for_league; "starting":
\* start_run.
TimerPlace == {"sleeping", "checking", "starting"}

CoordinatorInit ==
  /\ timers = {} /\ known = {}
  /\ requests = 0
  /\ asked = [l \in EventLeague |-> 0]
  /\ answered = [l \in EventLeague |-> 0]
  /\ launched = {}
  /\ cooling = {} /\ enabled = EventLeague /\ active = {}
  /\ stopping = "no" /\ left = {} /\ walked = {} /\ stoppedAt = 0

-----------------------------------------------------------------------------
TimersOf(l) == {t \in timers : t.league = l}

\* The live timer _timers holds for l, if any: the last one that was armed.
Armed(l) == {t \in TimersOf(l) : l \in known /\ t.request = asked[l]}

\* A start_run that is cancelled may have inserted its row already.
CancelledStart(tasks) ==
  \E inserted \in SUBSET {t \in tasks : t.at = "starting"} :
    active' = active \union {t.league : t \in inserted}

NewTimer(l, n) == [league |-> l, at |-> "sleeping", request |-> n]

\* Mutant of Request: the timer armed before is left alone.
RequestBeside(l) ==
  /\ requests < MaxRequests
  /\ requests' = requests + 1
  /\ asked' = [asked EXCEPT ![l] = requests']
  /\ timers' = timers \union {NewTimer(l, requests')}
  /\ known' = known \union {l}
  /\ UNCHANGED <<answered, launched, cooling, enabled, active, stopVars>>

\* request: the league's timer is cancelled, if one is alive, and armed anew.
Request(l) ==
  /\ requests < MaxRequests
  /\ requests' = requests + 1
  /\ asked' = [asked EXCEPT ![l] = requests']
  /\ timers' = (timers \ Armed(l)) \union {NewTimer(l, requests')}
  /\ known' = known \union {l}
  /\ CancelledStart(Armed(l))
  /\ UNCHANGED <<answered, launched, cooling, enabled, stopVars>>

\* The timer goes on to another place.
MoveTimer(t, place) ==
  /\ timers' = (timers \ {t}) \union {[t EXCEPT !.at = place]}
  /\ UNCHANGED <<known, requests, asked, answered, launched, leagueVars, stopVars>>

\* The timer's task ends by itself.
EndTimer(t) ==
  /\ timers' = timers \ {t}
  /\ answered' = [answered EXCEPT ![t.league] = t.request]
  /\ UNCHANGED <<known, requests, asked, enabled, stopVars>>

\* The debounce has passed and the league is not cooling down.
Fire(t) ==
  /\ t.at = "sleeping"
  /\ t.league \notin cooling
  /\ MoveTimer(t, "checking")

\* Mutant of FireSuppressed: the timer sleeps again.
FireSleepsAgain(t) ==
  /\ t.at = "sleeping"
  /\ t.league \in cooling
  /\ MoveTimer(t, "sleeping")

\* The cooldown suppresses the re-run.
FireSuppressed(t) ==
  /\ t.at = "sleeping"
  /\ t.league \in cooling
  /\ EndTimer(t)
  /\ UNCHANGED <<launched, cooling, active>>

FindSchedule(t) ==
  /\ t.at = "checking"
  /\ t.league \in enabled
  /\ MoveTimer(t, "starting")

\* No enabled schedule, or the query raises.
FireUnscheduled(t) ==
  /\ t.at = "checking"
  /\ EndTimer(t)
  /\ UNCHANGED <<launched, cooling, active>>

\* start_run returns; _last_fired is set with no await between.
Launch(t) ==
  /\ t.at = "starting"
  /\ t.league \notin active
  /\ active' = active \union {t.league}
  /\ launched' = launched \union {t.request}
  /\ cooling' = cooling \union {t.league}
  /\ EndTimer(t)

\* start_run raises: the 409 of an active run, or a failure.
StartRefused(t) ==
  /\ t.at = "starting"
  /\ EndTimer(t)
  /\ UNCHANGED <<launched, cooling, active>>

TimerStep(t) ==
  \/ Fire(t) \/ FireSuppressed(t) \/ FindSchedule(t) \/ FireUnscheduled(t)
  \/ Launch(t) \/ StartRefused(t)

-----------------------------------------------------------------------------
\* rerun_cooldown_seconds have passed since the league's last EVENT run.
CooldownEnds(l) ==
  /\ l \in cooling
  /\ cooling' = cooling \ {l}
  /\ UNCHANGED <<timerVars, enabled, active, stopVars>>

\* The API enables or disables the league's schedule.
ToggleSchedule(l) ==
  /\ enabled' = IF l \in enabled THEN enabled \ {l} ELSE enabled \union {l}
  /\ UNCHANGED <<timerVars, cooling, active, stopVars>>

\* A manual or scheduled run of the league starts; a run of it ends.
OtherRun(l) ==
  /\ active' = IF l \in active THEN active \ {l} ELSE active \union {l}
  /\ UNCHANGED <<timerVars, cooling, enabled, stopVars>>

-----------------------------------------------------------------------------
(***************************************************************************)
(* stop().  It walks the map itself, and awaits each timer it cancels: the *)
(* subscriber may replace a timer, or add a league, in the meantime.       *)
(***************************************************************************)

StopBegins ==
  /\ stopping = "no"
  /\ stopping' = "cancelling"
  /\ left' = known /\ walked' = known
  /\ stoppedAt' = requests
  /\ UNCHANGED <<timerVars, leagueVars>>

\* Mutant of StopVisits: only a timer that still sleeps is cancelled.
StopVisitsSleeping(l) ==
  /\ stopping = "cancelling"
  /\ known = walked
  /\ l \in left
  /\ left' = left \ {l}
  /\ timers' = timers \ {t \in Armed(l) : t.at = "sleeping"}
  /\ UNCHANGED <<known, requests, asked, answered, launched, leagueVars,
                 stopping, walked, stoppedAt>>

\* The next league of the map: the timer that is there now is cancelled.
StopVisits(l) ==
  /\ stopping = "cancelling"
  /\ known = walked
  /\ l \in left
  /\ left' = left \ {l}
  /\ timers' = timers \ Armed(l)
  /\ CancelledStart(Armed(l))
  /\ UNCHANGED <<known, requests, asked, answered, launched, cooling, enabled,
                 stopping, walked, stoppedAt>>

\* A league was added: "dictionary changed size during iteration" leaves
\* stop(), and the lifespan's other stops are skipped.
StopRaises ==
  /\ stopping = "cancelling"
  /\ known # walked
  /\ stopping' = "raised"
  /\ UNCHANGED <<timerVars, leagueVars, left, walked, stoppedAt>>

\* Every league has been visited: the map is cleared.
StopEnds ==
  /\ stopping = "cancelling"
  /\ known = walked
  /\ left = {}
  /\ stopping' = "stopped"
  /\ known' = {}
  /\ UNCHANGED <<timers, requests, asked, answered, launched, leagueVars,
                 left, walked, stoppedAt>>

-----------------------------------------------------------------------------
StopStep == (\E l \in EventLeague : StopVisits(l)) \/ StopRaises \/ StopEnds

CoordinatorNext ==
  \/ \E t \in timers : TimerStep(t)
  \/ \E l \in EventLeague :
       Request(l) \/ CooldownEnds(l) \/ ToggleSchedule(l) \/ OtherRun(l)
  \/ StopBegins
  \/ StopStep

CoordinatorSpec == CoordinatorInit /\ [][CoordinatorNext]_coordinatorVars

\* The event loop resumes each timer's task, and the task that stops them.
FairCoordinatorSpec ==
  /\ CoordinatorSpec
  /\ \A l \in EventLeague : WF_coordinatorVars(\E t \in TimersOf(l) : TimerStep(t))
  /\ WF_coordinatorVars(StopStep)

-----------------------------------------------------------------------------
(***************************************************************************)
(* Properties.                                                             *)
(***************************************************************************)

CoordinatorTypeOK ==
  /\ requests \in 0 .. MaxRequests
  /\ timers \subseteq [league : EventLeague, at : TimerPlace, request : 1 .. requests]
  /\ known \subseteq EventLeague
  /\ asked \in [EventLeague -> 0 .. requests] /\ answered \in [EventLeague -> 0 .. requests]
  /\ launched \subseteq 1 .. requests
  /\ cooling \subseteq EventLeague /\ enabled \subseteq EventLeague /\ active \subseteq EventLeague
  /\ stopping \in {"no", "cancelling", "stopped", "raised"}
  /\ left \subseteq walked /\ walked \subseteq EventLeague /\ stoppedAt \in 0 .. requests

\* "leagues are spaced by rerun_cooldown_seconds between EVENT runs"
\* (rerun.py:4-6): whatever is cancelled, toggled or refused between the check
\* of the cooldown and start_run, no EVENT run starts inside the cooldown of
\* another.  Until stop() has forgotten the timers: then request arms a second
\* one beside a timer that survived.
CooldownSpacing ==
  [][\A t \in timers :
       t.request \in launched' \ launched /\ stopping # "stopped" => t.league \notin cooling]_coordinatorVars

\* A request is answered - by a run, or by a reason not to start one - by its
\* own timer or by that of a later request (rerun.py:53-58), unless the
\* service stops.
EventIsAnswered ==
  \A l \in EventLeague, n \in 1 .. MaxRequests :
    asked[l] = n ~> answered[l] >= n \/ stopping # "no"

\* A timer that outlives stop() was requested after stop() began
\* (rerun.py:46-51), and stop() fails only if one was.
SurvivorsAreLate ==
  /\ stopping = "stopped" => \A t \in timers : t.request > stoppedAt
  /\ stopping = "raised" => requests > stoppedAt
=============================================================================
