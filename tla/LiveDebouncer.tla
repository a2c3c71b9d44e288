----------------------------- MODULE LiveDebouncer -----------------------------
(***************************************************************************)
(* Live re-evaluation of games: LiveDebouncer (request, _debounced_fire,   *)
(* _evaluate, stop) and the steps of LiveEvaluator.evaluate_game between   *)
(* which other coroutines run.                                             *)
(*                                                                         *)
(* Every in-play frame of a game changes its lines and asks for an         *)
(* evaluation; line counts the frames.  An armed timer may fire at any     *)
(* time (the debounce interval is not measured), so a burst is any number  *)
(* of requests before the timer fires.  evals is the set of evaluation     *)
(* tasks that are alive, whichever of them the maps of the debouncer still *)
(* know.  When stop() has returned, what is left of the evaluations goes   *)
(* on; the process ends before another timer fires.                        *)
(***************************************************************************)
EXTENDS Naturals

CONSTANTS
  Game,     \* the games, by their lines-service id
  MaxLine   \* bound: the number of frames of one game

ASSUME MaxLineAssumption == MaxLine \in Nat

VARIABLES
  line,      \* the version of each game's lines
  armed,     \* the games whose timer in _timers is not done
  pending,   \* _pending
  evals,     \* the evaluation tasks
  begun,     \* history: the version when the game's last evaluation began
  shown,     \* the version the game's newest live edges were derived from
  stopping,  \* where stop() is
  doomed     \* the tasks stop() has collected and not yet cancelled

dataVars == <<line, shown>>
stopVars == <<stopping, doomed>>
vars == <<line, armed, pending, evals, begun, shown, stopping, doomed>>

\* "asking": before the lines are read; "storing": the edges are inserted;
\* "dispatching": their alerts are.
EvalPlace == {"asking", "storing", "dispatching"}

Timer(g) == <<"timer", g>>
Evaluation(g) == <<"evaluation", g>>
Task == {Timer(g) : g \in Game} \union {Evaluation(g) : g \in Game}

Running(g) == \E e \in evals : e.game = g

Init ==
  /\ line = [g \in Game |-> 0]
  /\ armed = {} /\ pending = {} /\ evals = {}
  /\ begun = [g \in Game |-> 0]
  /\ shown = [g \in Game |-> 0]
  /\ stopping = "no" /\ doomed = {}

-----------------------------------------------------------------------------
\* A frame arrives.  request: the timer is cancelled, if any, and armed anew;
\* the new one is not among those stop() has collected.
Request(g) ==
  /\ stopping # "stopped"
  /\ line[g] < MaxLine
  /\ line' = [line EXCEPT ![g] = @ + 1]
  /\ armed' = armed \union {g}
  /\ doomed' = doomed \ {Timer(g)}
  /\ UNCHANGED <<pending, evals, begun, shown, stopping>>

\* Mutant of FireSkips: the frame is left to the evaluation in flight.
FireForgets(g) ==
  /\ stopping # "stopped"
  /\ g \in armed
  /\ Running(g)
  /\ armed' = armed \ {g}
  /\ doomed' = doomed \ {Timer(g)}
  /\ UNCHANGED <<dataVars, pending, evals, begun, stopping>>

\* The timer fires while an evaluation is in flight: a trailing one is due.
FireSkips(g) ==
  /\ stopping # "stopped"
  /\ g \in armed
  /\ Running(g)
  /\ armed' = armed \ {g}
  /\ doomed' = doomed \ {Timer(g)}
  /\ pending' = pending \union {g}
  /\ UNCHANGED <<dataVars, evals, begun, stopping>>

\* Mutant of FireStarts: an evaluation in flight does not matter.
FireStartsAlways(g) ==
  /\ stopping # "stopped"
  /\ g \in armed
  /\ armed' = armed \ {g}
  /\ doomed' = doomed \ {Timer(g)}
  /\ evals' = evals \union {[game |-> g, at |-> "asking", seen |-> 0]}
  /\ begun' = [begun EXCEPT ![g] = line[g]]
  /\ UNCHANGED <<dataVars, pending, stopping>>

\* The timer fires and starts an evaluation.
FireStarts(g) ==
  /\ stopping # "stopped"
  /\ g \in armed
  /\ ~Running(g)
  /\ armed' = armed \ {g}
  /\ doomed' = doomed \ {Timer(g)}
  /\ evals' = evals \union {[game |-> g, at |-> "asking", seen |-> 0]}
  /\ begun' = [begun EXCEPT ![g] = line[g]]
  /\ UNCHANGED <<dataVars, pending, stopping>>

\* The game is in progress, simulated and predicted, and the lines are read.
ReadLines(e) ==
  /\ e.at = "asking"
  /\ evals' = (evals \ {e})
                \union {[game |-> e.game, at |-> "storing", seen |-> line[e.game]]}
  /\ UNCHANGED <<dataVars, armed, pending, begun, stopVars>>

\* Mutants of EndEvaluation: the trailing evaluation is not asked for; one is
\* asked for whether it is due or not.
EndWithoutTrailing(e) ==
  /\ evals' = evals \ {e}
  /\ pending' = pending \ {e.game}
  /\ doomed' = doomed \ {Evaluation(e.game)}
  /\ UNCHANGED <<line, armed, begun, stopping>>

EndAlwaysTrailing(e) ==
  /\ evals' = evals \ {e}
  /\ pending' = pending \ {e.game}
  /\ armed' = armed \union {e.game}
  /\ doomed' = doomed \ {Timer(e.game), Evaluation(e.game)}
  /\ UNCHANGED <<line, begun, stopping>>

\* The end of _evaluate: a trailing evaluation that is due is asked for.
EndEvaluation(e) ==
  /\ evals' = evals \ {e}
  /\ pending' = pending \ {e.game}
  /\ IF e.game \in pending
       THEN /\ armed' = armed \union {e.game}
            /\ doomed' = doomed \ {Timer(e.game), Evaluation(e.game)}
       ELSE /\ doomed' = doomed \ {Evaluation(e.game)}
            /\ UNCHANGED armed
  /\ UNCHANGED <<line, begun, stopping>>

\* The edges of the evaluation are inserted.
Store(e) ==
  /\ e.at = "storing"
  /\ shown' = [shown EXCEPT ![e.game] = e.seen]
  /\ evals' = (evals \ {e}) \union {[e EXCEPT !.at = "dispatching"]}
  /\ UNCHANGED <<line, armed, pending, begun, stopVars>>

\* The alerts are dispatched, or there is nothing to show; or it ends early:
\* the game is not resolved or not in progress, a service or the database
\* raises, and what the evaluation would have shown is dropped.
EvaluationEnds(e) ==
  /\ EndEvaluation(e)
  /\ UNCHANGED shown

-----------------------------------------------------------------------------
\* The tasks stop() finds alive in the two maps.
Alive == {Timer(g) : g \in armed} \union {Evaluation(e.game) : e \in evals}

\* stop() cancels a task of those it has collected, the timers first.
Cancel(t, tasks) ==
  /\ t \in tasks
  /\ t \in {Evaluation(g) : g \in Game} => \A g \in Game : Timer(g) \notin tasks
  /\ doomed' = tasks \ {t}
  /\ armed' = {g \in armed : Timer(g) # t}
  /\ evals' = {e \in evals : Evaluation(e.game) # t}
  /\ pending' = {g \in pending : Evaluation(g) # t}
  /\ UNCHANGED <<dataVars, begun>>

\* stop() collects the tasks of both maps and cancels the first at once ...
StopBegins ==
  /\ stopping = "no"
  /\ stopping' = "cancelling"
  /\ \E t \in Alive : Cancel(t, Alive)

\* ... and each other one when the one before it has ended.
StopCancels ==
  /\ stopping = "cancelling"
  /\ \E t \in doomed : Cancel(t, doomed)
  /\ UNCHANGED stopping

\* Nothing is alive: stop() does not wait for anything.
StopIdle ==
  /\ stopping = "no"
  /\ Alive = {}
  /\ stopping' = "stopped"
  /\ pending' = {}
  /\ UNCHANGED <<dataVars, armed, evals, begun, doomed>>

\* The maps are cleared; what is not in doomed lives on.
StopEnds ==
  /\ stopping = "cancelling"
  /\ doomed = {}
  /\ stopping' = "stopped"
  /\ pending' = {}
  /\ UNCHANGED <<dataVars, armed, evals, begun, doomed>>

-----------------------------------------------------------------------------
FireTimer(g) == FireSkips(g) \/ FireStarts(g)

EvalStep(e) == ReadLines(e) \/ Store(e) \/ EvaluationEnds(e)

EvalStepOf(g) == \E e \in evals : e.game = g /\ EvalStep(e)

Next ==
  \/ \E g \in Game : Request(g) \/ FireTimer(g) \/ EvalStepOf(g)
  \/ StopBegins \/ StopIdle \/ StopCancels \/ StopEnds

Spec == Init /\ [][Next]_vars

\* A timer that is left alone fires, and every awaited call of an evaluation
\* ends: each has a timeout.  Frames need not come, and nobody has to stop.
Fairness ==
  /\ \A g \in Game : WF_vars(FireTimer(g)) /\ WF_vars(EvalStepOf(g))
  /\ WF_vars(StopCancels \/ StopEnds)

FairSpec == Spec /\ Fairness

-----------------------------------------------------------------------------
(***************************************************************************)
(* Properties.                                                             *)
(***************************************************************************)

EvalTask == [game : Game, at : EvalPlace, seen : Nat]

TypeOK ==
  /\ line \in [Game -> Nat] /\ begun \in [Game -> Nat] /\ shown \in [Game -> Nat]
  /\ armed \subseteq Game /\ pending \subseteq Game
  /\ evals \subseteq EvalTask
  /\ stopping \in {"no", "cancelling", "stopped"}
  /\ doomed \subseteq Task

\* At most one evaluation runs per game (live.py:229), also while stop() is
\* cancelling some of the tasks and requests keep coming.
OneEvaluationPerGame == \A e, f \in evals : e.game = f.game => e = f

\* A frame that no evaluation has begun after is never forgotten: a timer is
\* armed for it, or it waits for the evaluation in flight to end.  (The flag
\* and the timer are handed over between three coroutines.)
NoFrameForgotten ==
  stopping = "no" =>
    \A g \in Game : begun[g] < line[g] => g \in armed \/ (g \in pending /\ Running(g))

\* The edges of a game never go back to lines older than those already shown:
\* what an evaluation has read is newer than every edge stored before it.
ShownNeverRegresses ==
  [][\A g \in Game : shown'[g] >= shown[g]]_vars

\* Every frame is followed by an evaluation that begins after it and reads
\* the lines of that frame or newer ones, unless the debouncer is stopped.
EveryFrameIsEvaluated ==
  \A g \in Game, v \in 1 .. MaxLine :
    line[g] = v ~> (begun[g] >= v \/ stopping # "no")

-----------------------------------------------------------------------------
(***************************************************************************)
(* The promise of module Coalescing.                                       *)
(***************************************************************************)

Promise == INSTANCE Coalescing WITH
             Key <- Game,
             dirty <- {g \in Game : begun[g] < line[g]},
             busy <- {g \in Game : Running(g)},
             stopped <- stopping # "no"

\* The timers and the pending flag implement it, with no evaluation begun for
\* nothing: a burst in flight makes exactly one trailing evaluation.
ImplementsCoalescing == Promise!FairSpec
=============================================================================
