-------------------------- MODULE LiveDebouncerProofs --------------------------
(***************************************************************************)
(* Proofs about LiveDebouncer for any set of games and any number of       *)
(* frames.  The safety properties lean on each other: the pending flag     *)
(* keeps a frame only while an evaluation is in flight (Waiting), edges do *)
(* not regress because one evaluation per game is in flight and no edge is *)
(* newer than the lines (Bounded), and no evaluation begins for nothing    *)
(* because timers and flags are always about a frame (Asked).              *)
(***************************************************************************)
EXTENDS LiveDebouncer, TLAPS

-----------------------------------------------------------------------------
\* The evaluation in flight has not read lines of the future, and what it has
\* read is at least as new as what is shown.
Bounded ==
  /\ \A g \in Game : begun[g] <= line[g] /\ shown[g] <= line[g]
  /\ \A e \in evals : e.at = "storing" => e.seen <= line[e.game] /\ shown[e.game] <= e.seen

\* Nothing is armed or due but for a frame that has not been evaluated.
Asked == \A g \in Game : g \in armed \union pending => begun[g] < line[g]

\* The flag is only raised while an evaluation is in flight.
Waiting == \A g \in pending : Running(g)

DebouncerInv ==
  /\ TypeOK
  /\ OneEvaluationPerGame
  /\ NoFrameForgotten
  /\ Bounded
  /\ Asked
  /\ Waiting

-----------------------------------------------------------------------------
LEMMA InitInv == Init => DebouncerInv
BY DEF Init, DebouncerInv, TypeOK, OneEvaluationPerGame, NoFrameForgotten, Bounded, Asked,
       Waiting, Running, Task

LEMMA RequestInv ==
  ASSUME DebouncerInv, NEW g \in Game, Request(g)
  PROVE  DebouncerInv'
<1> USE DEF DebouncerInv, Request
<1>1. TypeOK'
  BY DEF TypeOK, Task
<1>2. OneEvaluationPerGame' /\ Waiting'
  BY DEF OneEvaluationPerGame, Waiting, Running
<1>3. NoFrameForgotten'
  BY DEF NoFrameForgotten, Running, TypeOK
<1>4. Bounded'
  BY DEF Bounded, TypeOK, EvalTask
<1>5. Asked'
  BY DEF Asked, TypeOK, Bounded
<1> QED
  BY <1>1, <1>2, <1>3, <1>4, <1>5

LEMMA FireSkipsInv ==
  ASSUME DebouncerInv, NEW g \in Game, FireSkips(g)
  PROVE  DebouncerInv'
<1> USE DEF DebouncerInv, FireSkips, dataVars
<1>1. TypeOK'
  BY DEF TypeOK, Task
<1>2. OneEvaluationPerGame' /\ Bounded' /\ Asked'
  BY DEF OneEvaluationPerGame, Bounded, Asked
<1>3. NoFrameForgotten' /\ Waiting'
  BY DEF NoFrameForgotten, Waiting, Running
<1> QED
  BY <1>1, <1>2, <1>3

LEMMA FireStartsInv ==
  ASSUME DebouncerInv, NEW g \in Game, FireStarts(g)
  PROVE  DebouncerInv'
<1> USE DEF DebouncerInv, FireStarts, dataVars
<1>1. TypeOK'
  BY DEF TypeOK, Task, EvalTask, EvalPlace
<1>2. OneEvaluationPerGame'
  BY DEF OneEvaluationPerGame, Running
<1>3. NoFrameForgotten' /\ Waiting'
  BY DEF NoFrameForgotten, Waiting, Running, TypeOK
<1>4. Bounded'
  BY DEF Bounded, TypeOK
<1>5. Asked'
  BY DEF Asked, Waiting, TypeOK
<1> QED
  BY <1>1, <1>2, <1>3, <1>4, <1>5

LEMMA ReadLinesInv ==
  ASSUME DebouncerInv, NEW e \in evals, ReadLines(e)
  PROVE  DebouncerInv' /\ \A g \in Game : Running(g)' <=> Running(g)
<1> USE DEF DebouncerInv, ReadLines, dataVars, stopVars
<1> DEFINE read == [game |-> e.game, at |-> "storing", seen |-> line[e.game]]
<1>1. e \in EvalTask
  BY DEF TypeOK
<1>2. read \in EvalTask /\ read.game = e.game /\ read.at = "storing" /\ read.seen = line[e.game]
  BY <1>1 DEF TypeOK, EvalTask, EvalPlace
<1>3. evals' = (evals \ {e}) \union {read}
  OBVIOUS
<1> HIDE DEF read
<1>4. \A g \in Game : Running(g)' <=> Running(g)
  BY <1>2, <1>3 DEF Running
<1>5. TypeOK'
  BY <1>2, <1>3 DEF TypeOK
<1>6. OneEvaluationPerGame'
  BY <1>2, <1>3 DEF OneEvaluationPerGame
<1>7. NoFrameForgotten' /\ Waiting' /\ Asked'
  BY <1>4 DEF NoFrameForgotten, Waiting, Asked, TypeOK
<1>8. Bounded'
  BY <1>1, <1>2, <1>3 DEF Bounded, TypeOK, EvalTask
<1> QED
  BY <1>4, <1>5, <1>6, <1>7, <1>8

\* An evaluation stores its edges.
LEMMA StoreInv ==
  ASSUME DebouncerInv, NEW e \in evals, Store(e)
  PROVE  DebouncerInv' /\ \A g \in Game : Running(g)' <=> Running(g)
<1> USE DEF DebouncerInv, Store, stopVars
<1> DEFINE stored == [e EXCEPT !.at = "dispatching"]
<1>1. e \in EvalTask /\ e.game \in Game /\ e.seen \in Nat
  BY DEF TypeOK, EvalTask
<1>2. stored \in EvalTask /\ stored.game = e.game /\ stored.at = "dispatching"
  BY <1>1 DEF EvalTask, EvalPlace
<1>3. evals' = (evals \ {e}) \union {stored} /\ shown' = [shown EXCEPT ![e.game] = e.seen]
  OBVIOUS
<1>4. e.seen <= line[e.game] /\ shown[e.game] <= e.seen
  BY DEF Bounded
<1> HIDE DEF stored
<1>5. \A g \in Game : Running(g)' <=> Running(g)
  BY <1>2, <1>3 DEF Running
<1>6. TypeOK'
  BY <1>1, <1>2, <1>3 DEF TypeOK
<1>7. OneEvaluationPerGame'
  BY <1>2, <1>3 DEF OneEvaluationPerGame
<1>8. NoFrameForgotten' /\ Waiting' /\ Asked'
  BY <1>5 DEF NoFrameForgotten, Waiting, Asked, TypeOK
<1>9. Bounded'
  <2>1. \A g \in Game : shown'[g] <= line[g]
    BY <1>1, <1>3, <1>4 DEF Bounded, TypeOK
  <2>2. ASSUME NEW f \in evals', f.at = "storing"
        PROVE  f.seen <= line[f.game] /\ shown'[f.game] <= f.seen
    <3>1. f \in evals /\ f # e
      BY <1>2, <1>3, <2>2
    <3>2. f.game # e.game /\ f.game \in Game
      BY <3>1 DEF OneEvaluationPerGame, TypeOK, EvalTask
    <3> QED
      BY <1>1, <1>3, <2>2, <3>1, <3>2 DEF Bounded, TypeOK
  <2> QED
    BY <2>1, <2>2 DEF Bounded
<1> QED
  BY <1>5, <1>6, <1>7, <1>8, <1>9

\* An evaluation ends, and asks for a trailing one if it is due.
LEMMA EndEvaluationInv ==
  ASSUME DebouncerInv, NEW e \in evals, EvaluationEnds(e)
  PROVE  /\ DebouncerInv'
         /\ \A g \in Game : Running(g)' <=> (Running(g) /\ g # e.game)
<1> USE DEF DebouncerInv, EvaluationEnds
<1>1. e \in EvalTask /\ e.game \in Game
  BY DEF TypeOK, EvalTask
<1>2. /\ evals' = evals \ {e} /\ pending' = pending \ {e.game}
      /\ line' = line /\ begun' = begun /\ stopping' = stopping
      /\ armed' = armed \union (pending \intersect {e.game})
  BY DEF EndEvaluation
<1>3. \A g \in Game : Running(g)' <=> (Running(g) /\ g # e.game)
  BY <1>2 DEF Running, OneEvaluationPerGame
<1>4. TypeOK'
  BY <1>1, <1>2 DEF TypeOK, EvalTask, EndEvaluation
<1>5. OneEvaluationPerGame' /\ Asked'
  BY <1>2 DEF OneEvaluationPerGame, Asked
<1>6. Waiting'
  BY <1>2, <1>3 DEF Waiting, TypeOK
<1>7. NoFrameForgotten'
  BY <1>2, <1>3 DEF NoFrameForgotten
<1>8. Bounded'
  <2>1. \A g \in Game : shown'[g] <= line[g]
    BY <1>1 DEF Bounded, TypeOK
  <2>2. \A f \in evals' : f.at = "storing" => f.seen <= line[f.game] /\ shown'[f.game] <= f.seen
    BY <1>1, <1>2 DEF Bounded, TypeOK, EvalTask, OneEvaluationPerGame
  <2> QED
    BY <1>2, <2>1, <2>2 DEF Bounded
<1> QED
  BY <1>3, <1>4, <1>5, <1>6, <1>7, <1>8

\* stop() cancels a task.
LEMMA CancelInv ==
  ASSUME DebouncerInv, NEW tasks \in SUBSET Task, NEW t \in tasks, Cancel(t, tasks),
         stopping' = "cancelling"
  PROVE  DebouncerInv'
<1> USE DEF DebouncerInv, Cancel, dataVars
<1>1. TypeOK'
  BY DEF TypeOK
<1>2. OneEvaluationPerGame' /\ NoFrameForgotten' /\ Bounded' /\ Asked'
  BY DEF OneEvaluationPerGame, NoFrameForgotten, Bounded, Asked
<1>3. Waiting'
  <2> SUFFICES ASSUME NEW g \in pending, Evaluation(g) # t
               PROVE  \E e \in evals : Evaluation(e.game) # t /\ e.game = g
    BY DEF Waiting, Running
  <2> QED
    BY DEF Waiting, Running
<1> QED
  BY <1>1, <1>2, <1>3

LEMMA AliveTasks == ASSUME TypeOK PROVE Alive \in SUBSET Task
BY DEF Alive, Task, TypeOK, EvalTask

LEMMA NextInv == ASSUME DebouncerInv, [Next]_vars PROVE DebouncerInv'
<1>1. ASSUME NEW g \in Game, Request(g) PROVE DebouncerInv'
  BY <1>1, RequestInv
<1>2. ASSUME NEW g \in Game, FireTimer(g) PROVE DebouncerInv'
  BY <1>2, FireSkipsInv, FireStartsInv DEF FireTimer
<1>3. ASSUME NEW e \in evals, EvalStep(e) PROVE DebouncerInv'
  BY <1>3, ReadLinesInv, StoreInv, EndEvaluationInv DEF EvalStep
<1>4. CASE StopBegins
  BY <1>4, AliveTasks, CancelInv DEF StopBegins, DebouncerInv, Cancel
<1>5. CASE StopCancels
  BY <1>5, CancelInv DEF StopCancels, DebouncerInv, TypeOK
<1>6. CASE StopIdle \/ StopEnds
  BY <1>6 DEF StopIdle, StopEnds, dataVars, DebouncerInv, TypeOK, OneEvaluationPerGame,
              NoFrameForgotten, Bounded, Asked, Waiting
<1>7. CASE UNCHANGED vars
  BY <1>7 DEF vars, DebouncerInv, TypeOK, OneEvaluationPerGame, NoFrameForgotten, Bounded,
              Asked, Waiting, Running
<1> QED
  BY <1>1, <1>2, <1>3, <1>4, <1>5, <1>6, <1>7 DEF Next, EvalStepOf

\* The inductive invariant holds in every reachable state.
THEOREM DebouncerInvariant == Spec => []DebouncerInv
BY InitInv, NextInv, PTL DEF Spec

-----------------------------------------------------------------------------
\* The debouncer's state has the types its code gives it (live.py:234).
THEOREM TypeCorrect == Spec => []TypeOK
BY DebouncerInvariant, PTL DEF DebouncerInv

\* Evaluations of a game never overlap, whatever timers, requests and stop()
\* do (live.py:259-269).
THEOREM EvaluationsExclusive == Spec => []OneEvaluationPerGame
BY DebouncerInvariant, PTL DEF DebouncerInv

\* A frame stays known to a timer or to the pending flag until an evaluation
\* begins after it (live.py:259-283).
THEOREM FramesKept == Spec => []NoFrameForgotten
BY DebouncerInvariant, PTL DEF DebouncerInv

\* Newer edges are never followed by edges of older lines (live.py:146-194).
THEOREM EdgesNeverRegress == Spec => ShownNeverRegresses
<1>1. ASSUME DebouncerInv, [Next]_vars PROVE [\A g \in Game : shown'[g] >= shown[g]]_vars
  <2> SUFFICES ASSUME Next PROVE \A g \in Game : shown'[g] >= shown[g]
    BY <1>1
  <2>1. ASSUME NEW e \in evals, Store(e) PROVE \A g \in Game : shown'[g] >= shown[g]
    BY <1>1, <2>1 DEF Store, DebouncerInv, Bounded, TypeOK, EvalTask
  <2>2. ASSUME UNCHANGED shown PROVE \A g \in Game : shown'[g] >= shown[g]
    BY <1>1, <2>2 DEF DebouncerInv, TypeOK
  <2> QED
    BY <2>1, <2>2 DEF Next, Request, FireTimer, FireSkips, FireStarts, EvalStepOf, EvalStep,
       ReadLines, EvaluationEnds, StopBegins, StopIdle, StopCancels, StopEnds, Cancel, dataVars
<1> QED
  BY <1>1, DebouncerInvariant, PTL DEF Spec, ShownNeverRegresses

-----------------------------------------------------------------------------
(***************************************************************************)
(* The refinement, without its fairness.                                   *)
(***************************************************************************)

\* The debouncer is a coalescer: requests, timers, flags and cancellations
\* amount to asking, beginning, ending and stopping (live.py:224-283).
THEOREM DebouncerCoalesces == Spec => Promise!Spec
<1>1. Init => Promise!Init
  BY DEF Init, Promise!Init, Running
<1>2. ASSUME DebouncerInv, DebouncerInv', [Next]_vars
      PROVE  [Promise!Next]_(Promise!coalescingVars)
  <2> USE <1>2
  <2> USE DEF Promise!Next, Promise!coalescingVars
  <2>1. ASSUME NEW g \in Game, Request(g) PROVE Promise!Ask(g)
    <3>1. \A h \in Game : begun'[h] < line'[h] <=> begun[h] < line[h] \/ h = g
      BY <2>1 DEF Request, DebouncerInv, TypeOK, Bounded
    <3> QED
      BY <2>1, <3>1 DEF Request, Promise!Ask, Running
  <2>2. ASSUME NEW g \in Game, FireSkips(g) PROVE UNCHANGED Promise!coalescingVars
    BY <2>2 DEF FireSkips, dataVars, Running
  <2>3. ASSUME NEW g \in Game, FireStarts(g) PROVE Promise!Begin(g)
    <3>1. begun[g] < line[g]
      BY <2>3 DEF FireStarts, DebouncerInv, Asked
    <3>2. \A h \in Game : begun'[h] < line'[h] <=> begun[h] < line[h] /\ h # g
      BY <2>3 DEF FireStarts, dataVars, DebouncerInv, TypeOK
    <3>3. \A h \in Game : Running(h)' <=> Running(h) \/ h = g
      <4> DEFINE started == [game |-> g, at |-> "asking", seen |-> 0]
      <4>1. evals' = evals \union {started} /\ started.game = g
        BY <2>3 DEF FireStarts
      <4> HIDE DEF started
      <4> QED
        BY <4>1 DEF Running
    <3> QED
      BY <2>3, <3>1, <3>2, <3>3 DEF FireStarts, Promise!Begin
  <2>4. ASSUME NEW e \in evals, ReadLines(e) PROVE UNCHANGED Promise!coalescingVars
    BY <2>4, ReadLinesInv DEF ReadLines, dataVars, stopVars
  <2>5. ASSUME NEW e \in evals, EvaluationEnds(e)
        PROVE  Promise!End(e.game)
    <3>1. e.game \in Game /\ Running(e.game)
      BY DEF DebouncerInv, TypeOK, EvalTask, Running
    <3>2. \A g \in Game : Running(g)' <=> (Running(g) /\ g # e.game)
      BY <2>5, EndEvaluationInv
    <3> QED
      BY <2>5, <3>1, <3>2 DEF EvaluationEnds, EndEvaluation, Promise!End
  <2>5a. ASSUME NEW e \in evals, Store(e) PROVE UNCHANGED Promise!coalescingVars
    BY <2>5a, StoreInv DEF Store, stopVars
  <2>6. ASSUME NEW e \in evals, EvalStep(e)
        PROVE  Promise!Next \/ UNCHANGED Promise!coalescingVars
    <3>1. e.game \in Game
      BY DEF DebouncerInv, TypeOK, EvalTask
    <3> QED
      BY <2>4, <2>5, <2>5a, <2>6, <3>1 DEF EvalStep
  <2>7. CASE StopBegins \/ StopIdle \/ StopCancels \/ StopEnds
    <3>1. \A g \in Game : Running(g)' => Running(g)
      BY <2>7 DEF StopBegins, StopIdle, StopCancels, StopEnds, Cancel, Running
    <3>2. line' = line /\ begun' = begun /\ stopping' # "no"
      BY <2>7 DEF StopBegins, StopIdle, StopCancels, StopEnds, Cancel, dataVars
    <3> QED
      BY <3>1, <3>2 DEF Promise!Stop
  <2>8. CASE UNCHANGED vars
    BY <2>8 DEF vars, Running
  <2> QED
    BY <2>1, <2>2, <2>3, <2>6, <2>7, <2>8 DEF Next, FireTimer, EvalStepOf
<1> QED
  BY <1>1, <1>2, DebouncerInvariant, PTL DEF Spec, Promise!Spec
=============================================================================
