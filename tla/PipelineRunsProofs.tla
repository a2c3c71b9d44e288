-------------------------- MODULE PipelineRunsProofs --------------------------
(***************************************************************************)
(* Proofs about PipelineRuns for any leagues, callers, runs and faults.    *)
(*                                                                         *)
(* The safety properties are not inductive: that two tasks never share a   *)
(* league follows from the unique index only because a working task's row  *)
(* is still RUNNING, and that holds only because no other caller or task   *)
(* can own the same run.  RunsInv puts the three together.                 *)
(***************************************************************************)
EXTENDS PipelineRuns, TLAPS

-----------------------------------------------------------------------------
(***************************************************************************)
(* The inductive invariant.                                                *)
(***************************************************************************)

\* What the unique index keeps true of the table.
IndexHolds ==
  \A r, s \in Run :
    /\ status[r] = "RUNNING" /\ status[s] = "RUNNING"
    /\ scope[r] = scope[s] /\ scope[r] # All
    => r = s

\* A run that was never inserted has no task.
TaskHasRow == \A r \in Run : status[r] = "absent" => task[r] = "none"

\* A caller past the INSERT owns a RUNNING run that nobody launched, and no
\* other caller owns it.
OwnRun ==
  \A c \in Caller : pc[c] = "created" =>
    /\ own[c] \in Run
    /\ status[own[c]] = "RUNNING"
    /\ task[own[c]] = "none"
    /\ \A d \in Caller : pc[d] = "created" /\ own[d] = own[c] => d = c

\* A task past its final write has closed its row.
CommittedClosed == \A r \in Run : task[r] = "committed" => status[r] \in Terminal

RunsInv ==
  /\ TypeOK
  /\ IndexHolds
  /\ TaskHasRow
  /\ OwnRun
  /\ WorkingRunHoldsRow
  /\ CommittedClosed
  /\ ConflictOnlyFromWindow

-----------------------------------------------------------------------------
LEMMA InitInv == Init => RunsInv
BY ScopeAssumption
   DEF Init, RunsInv, TypeOK, IndexHolds, TaskHasRow, OwnRun, WorkingRunHoldsRow,
       CommittedClosed, ConflictOnlyFromWindow, ActiveFor, Scope, Status, Terminal,
       CallPlace, TaskPlace

\* The steps of start_run that only drop the caller's local state.
LEMMA LeaveInv ==
  ASSUME RunsInv, NEW c \in Caller, Leave(c), UNCHANGED <<rowVars, task>>
  PROVE  RunsInv'
<1> USE DEF RunsInv, Leave, rowVars
<1>1. TypeOK'
  BY DEF TypeOK, Scope, CallPlace
<1>2. IndexHolds' /\ TaskHasRow' /\ WorkingRunHoldsRow' /\ CommittedClosed'
  BY DEF IndexHolds, TaskHasRow, WorkingRunHoldsRow, CommittedClosed
<1>3. OwnRun'
  BY DEF OwnRun, TypeOK
<1>4. ConflictOnlyFromWindow'
  BY DEF ConflictOnlyFromWindow, ActiveFor, TypeOK
<1> QED
  BY <1>1, <1>2, <1>3, <1>4

LEMMA CheckActiveInv ==
  ASSUME RunsInv, NEW c \in Caller, NEW l \in Scope, CheckActive(c, l)
  PROVE  RunsInv'
<1> USE DEF RunsInv, CheckActive, rowVars
<1>1. TypeOK'
  BY DEF TypeOK, Scope, CallPlace
<1>2. IndexHolds' /\ TaskHasRow' /\ WorkingRunHoldsRow' /\ CommittedClosed'
  BY DEF IndexHolds, TaskHasRow, WorkingRunHoldsRow, CommittedClosed
<1>3. OwnRun'
  BY DEF OwnRun, TypeOK
<1>4. ConflictOnlyFromWindow'
  BY DEF ConflictOnlyFromWindow, ActiveFor, TypeOK
<1> QED
  BY <1>1, <1>2, <1>3, <1>4

LEMMA CreateRunningInv ==
  ASSUME RunsInv, NEW c \in Caller, NEW r \in Run, CreateRunning(c, r)
  PROVE  RunsInv'
<1> USE DEF RunsInv, CreateRunning
<1>1. TypeOK'
  BY DEF TypeOK, Scope, CallPlace, Status
<1>2. IndexHolds'
  BY DEF IndexHolds, IndexAllows, TypeOK
<1>3. TaskHasRow' /\ WorkingRunHoldsRow' /\ CommittedClosed'
  BY DEF TaskHasRow, WorkingRunHoldsRow, CommittedClosed, TypeOK, Terminal
<1>4. OwnRun'
  <2> SUFFICES ASSUME NEW d \in Caller, pc'[d] = "created"
               PROVE  /\ own'[d] \in Run
                      /\ status'[own'[d]] = "RUNNING"
                      /\ task'[own'[d]] = "none"
                      /\ \A e \in Caller : pc'[e] = "created" /\ own'[e] = own'[d] => e = d
    BY DEF OwnRun
  <2>1. \A e \in Caller \ {c} : pc'[e] = "created" => pc[e] = "created" /\ own'[e] = own[e]
    BY DEF TypeOK
  <2>2. \A e \in Caller : pc[e] = "created" => own[e] # r
    BY DEF OwnRun
  <2>3. own'[c] = r /\ status'[r] = "RUNNING" /\ task'[r] = "none"
    BY DEF TypeOK, TaskHasRow
  <2>4. CASE d = c
    BY <2>1, <2>2, <2>3, <2>4
  <2>5. CASE d # c
    <3>1. /\ pc[d] = "created" /\ own'[d] = own[d] /\ own[d] \in Run /\ own[d] # r
          /\ status[own[d]] = "RUNNING" /\ task[own[d]] = "none"
      BY <2>1, <2>2, <2>5 DEF OwnRun
    <3>2. status'[own[d]] = "RUNNING" /\ task'[own[d]] = "none"
      BY <3>1 DEF TypeOK
    <3>3. \A e \in Caller : pc'[e] = "created" /\ own'[e] = own'[d] => e = d
      BY <2>1, <2>3, <2>5, <3>1 DEF OwnRun
    <3> QED
      BY <3>1, <3>2, <3>3
  <2> QED
    BY <2>4, <2>5
<1>5. ConflictOnlyFromWindow'
  <2> SUFFICES ASSUME NEW d \in Caller, pc'[d] = "resolving",
                      NEW s \in ActiveFor(want[d])'
               PROVE  s \in window'[d]
    BY DEF ConflictOnlyFromWindow
  <2>1. d # c /\ pc[d] = "resolving" /\ window'[d] = window[d] \union {r}
    BY DEF TypeOK
  <2>2. s = r \/ s \in ActiveFor(want[d])
    BY DEF ActiveFor, TypeOK
  <2> QED
    BY <2>1, <2>2 DEF ConflictOnlyFromWindow
<1> QED
  BY <1>1, <1>2, <1>3, <1>4, <1>5

LEMMA LaunchInv ==
  ASSUME RunsInv, NEW c \in Caller, Launch(c)
  PROVE  RunsInv'
<1> USE DEF RunsInv, Launch, Leave, rowVars
<1>0. own[c] \in Run /\ status[own[c]] = "RUNNING"
  BY DEF OwnRun
<1>1. TypeOK'
  BY <1>0 DEF TypeOK, Scope, CallPlace, TaskPlace
<1>2. IndexHolds'
  BY DEF IndexHolds
<1>3. TaskHasRow' /\ WorkingRunHoldsRow' /\ CommittedClosed'
  BY <1>0 DEF TaskHasRow, WorkingRunHoldsRow, CommittedClosed, TypeOK
<1>4. OwnRun'
  BY <1>0 DEF OwnRun, TypeOK
<1>5. ConflictOnlyFromWindow'
  BY DEF ConflictOnlyFromWindow, ActiveFor, TypeOK
<1> QED
  BY <1>1, <1>2, <1>3, <1>4, <1>5

\* The steps of a task that do not write its row.
LEMMA MoveTaskInv ==
  ASSUME RunsInv, NEW r \in Run, NEW place \in {"failing", "done"},
         task[r] # "none", MoveTask(r, place)
  PROVE  RunsInv'
<1> USE DEF RunsInv, MoveTask, rowVars, callVars
<1>1. TypeOK'
  BY DEF TypeOK, TaskPlace
<1>2. IndexHolds' /\ ConflictOnlyFromWindow'
  BY DEF IndexHolds, ConflictOnlyFromWindow, ActiveFor
<1>3. TaskHasRow' /\ WorkingRunHoldsRow' /\ CommittedClosed'
  BY DEF TaskHasRow, WorkingRunHoldsRow, CommittedClosed, TypeOK
<1>4. OwnRun'
  BY DEF OwnRun, TypeOK
<1> QED
  BY <1>1, <1>2, <1>3, <1>4

\* The steps of a task that close its row.
LEMMA FinishInv ==
  ASSUME RunsInv, NEW r \in Run, NEW final \in Terminal,
         NEW place \in {"committed", "done"}, task[r] # "none", Finish(r, final, place)
  PROVE  RunsInv'
<1> USE DEF RunsInv, Finish, callVars
<1>0. final \in Status /\ final # "RUNNING" /\ final # "absent"
  BY DEF Terminal, Status
<1>1. TypeOK'
  BY <1>0 DEF TypeOK, TaskPlace
<1>2. IndexHolds'
  BY <1>0 DEF IndexHolds, TypeOK
<1>3. TaskHasRow' /\ WorkingRunHoldsRow' /\ CommittedClosed'
  BY <1>0 DEF TaskHasRow, WorkingRunHoldsRow, CommittedClosed, TypeOK
<1>4. OwnRun'
  BY DEF OwnRun, TypeOK
<1>5. ConflictOnlyFromWindow'
  BY <1>0 DEF ConflictOnlyFromWindow, ActiveFor, TypeOK
<1> QED
  BY <1>1, <1>2, <1>3, <1>4, <1>5

LEMMA CrashInv == ASSUME RunsInv, Crash PROVE RunsInv'
<1> USE DEF RunsInv, Crash, rowVars
<1>1. TypeOK'
  BY DEF TypeOK, Scope, CallPlace, TaskPlace
<1>2. IndexHolds' /\ TaskHasRow' /\ WorkingRunHoldsRow' /\ CommittedClosed'
  BY DEF IndexHolds, TaskHasRow, WorkingRunHoldsRow, CommittedClosed
<1>3. OwnRun' /\ ConflictOnlyFromWindow'
  BY DEF OwnRun, ConflictOnlyFromWindow
<1> QED
  BY <1>1, <1>2, <1>3

LEMMA NextInv == RunsInv /\ [Next]_vars => RunsInv'
<1> SUFFICES ASSUME RunsInv, [Next]_vars PROVE RunsInv'
  OBVIOUS
<1>1. ASSUME NEW c \in Caller, NEW l \in Scope, CheckActive(c, l) PROVE RunsInv'
  BY <1>1, CheckActiveInv
<1>2. ASSUME NEW c \in Caller, CallStep(c) \/ CancelCaller(c) PROVE RunsInv'
  <2>1. CASE ResolveFails(c) \/ CreateConflicts(c) \/ LaunchFails(c) \/ CancelCaller(c)
    BY <2>1, LeaveInv DEF ResolveFails, CreateConflicts, LaunchFails, CancelCaller
  <2>2. CASE \E r \in Run : CreateRunning(c, r)
    BY <2>2, CreateRunningInv
  <2>3. CASE Launch(c)
    BY <2>3, LaunchInv
  <2> QED
    BY <1>2, <2>1, <2>2, <2>3 DEF CallStep
<1>3. ASSUME NEW r \in Run, TaskStep(r) \/ CancelTask(r) \/ CancelHandler(r)
      PROVE  RunsInv'
  <2>1. CASE \/ Return(r) \/ Raise(r) \/ FinishRaises(r) \/ MarkFailedRaises(r)
             \/ CancelTask(r) \/ CancelHandler(r)
    BY <2>1, MoveTaskInv
       DEF Return, Raise, FinishRaises, MarkFailedRaises, CancelTask, CancelHandler
  <2>2. CASE MarkFailed(r) \/ \E final \in Terminal : Complete(r, final)
    BY <2>2, FinishInv DEF MarkFailed, Complete, Terminal
  <2> QED
    BY <1>3, <2>1, <2>2 DEF TaskStep
<1>4. CASE Crash
  BY <1>4, CrashInv
<1>5. CASE UNCHANGED vars
  BY <1>5 DEF vars, RunsInv, TypeOK, IndexHolds, TaskHasRow, OwnRun, WorkingRunHoldsRow,
              CommittedClosed, ConflictOnlyFromWindow, ActiveFor
<1> QED
  BY <1>1, <1>2, <1>3, <1>4, <1>5 DEF Next

\* The run table and its callers and tasks keep the inductive invariant.
THEOREM RunsInvariant == Spec => []RunsInv
BY InitInv, NextInv, PTL DEF Spec

-----------------------------------------------------------------------------
\* Every variable keeps its type.
THEOREM TypeCorrect == Spec => []TypeOK
BY RunsInvariant, PTL DEF RunsInv

\* Two tasks never work on the same league at the same time (pipeline.py:121,
\* tables.py:72), under every fault and for any number of callers.
THEOREM TasksExclusive == Spec => []OneTaskPerLeague
<1>1. RunsInv => OneTaskPerLeague
  BY DEF RunsInv, IndexHolds, WorkingRunHoldsRow, OneTaskPerLeague
<1> QED
  BY <1>1, RunsInvariant, PTL

\* A working task's row is RUNNING: its league is not given away under it.
THEOREM RowHeldWhileWorking == Spec => []WorkingRunHoldsRow
BY RunsInvariant, PTL DEF RunsInv

\* The duplicate guard misses only what is inserted after its query.
THEOREM GuardMissesOnlyWindow == Spec => []ConflictOnlyFromWindow
BY RunsInvariant, PTL DEF RunsInv

\* A closed run is never reopened; only its own task's except clauses may
\* still turn its status, to FAILED.
THEOREM ClosedStaysClosed == Spec => ClosedOnlyTurnsFailed
<1>1. ASSUME RunsInv, [Next]_vars, NEW r \in Run,
             status[r] \in Terminal, status'[r] # status[r]
      PROVE  task[r] = "failing" /\ status'[r] = "FAILED"
  <2> USE <1>1
  <2>1. status[r] # "absent" /\ status[r] # "RUNNING"
    BY DEF Terminal
  <2>2. status' # status
    OBVIOUS
  <2>3. ASSUME NEW c \in Caller, NEW s \in Run, CreateRunning(c, s) PROVE FALSE
    BY <2>1, <2>3 DEF CreateRunning, RunsInv, TypeOK
  <2>4. ASSUME NEW s \in Run, NEW final \in Terminal, Complete(s, final) PROVE FALSE
    BY <2>1, <2>4 DEF Complete, Finish, RunsInv, WorkingRunHoldsRow, TypeOK
  <2>5. ASSUME NEW s \in Run, MarkFailed(s)
        PROVE  task[r] = "failing" /\ status'[r] = "FAILED"
    BY <2>5 DEF MarkFailed, Finish, RunsInv, TypeOK
  <2> QED
    BY <2>2, <2>3, <2>4, <2>5
       DEF Next, CallStep, TaskStep, CheckActive, ResolveFails, CreateConflicts, Launch,
           LaunchFails, CancelCaller, Return, Raise, FinishRaises, CancelTask, CancelHandler,
           MarkFailedRaises, MoveTask, Crash, rowVars, vars
<1>2. RunsInv /\ [Next]_vars
        => [\A r \in Run : status[r] \in Terminal /\ status'[r] # status[r]
              => task[r] = "failing" /\ status'[r] = "FAILED"]_vars
  BY <1>1
<1> QED
  BY <1>2, RunsInvariant, PTL DEF Spec, ClosedOnlyTurnsFailed

-----------------------------------------------------------------------------
(***************************************************************************)
(* The table implements a lock per league.                                 *)
(***************************************************************************)

LEMMA HolderFact ==
  ASSUME TypeOK, IndexHolds, NEW l \in League
  PROVE  /\ \A r \in Run : status[r] = "RUNNING" /\ scope[r] = l => HolderOf(l) = r
         /\ (\A r \in Run : ~(status[r] = "RUNNING" /\ scope[r] = l)) => HolderOf(l) = NoRun
<1>1. ASSUME NEW r \in Run, status[r] = "RUNNING", scope[r] = l PROVE HolderOf(l) = r
  <2>1. RunningOf(l) = {r}
    BY <1>1, ScopeAssumption DEF RunningOf, IndexHolds
  <2> QED
    BY <2>1 DEF HolderOf
<1>2. ASSUME \A r \in Run : ~(status[r] = "RUNNING" /\ scope[r] = l)
      PROVE  HolderOf(l) = NoRun
  BY <1>2 DEF HolderOf, RunningOf
<1> QED
  BY <1>1, <1>2

\* A step that leaves the rows alone is a stuttering step of the locks.
LEMMA RowsUnchanged ==
  ASSUME UNCHANGED rowVars
  PROVE  UNCHANGED Lock!lockVars
BY DEF rowVars, Lock!lockVars, HolderOf, RunningOf, AdmittedRuns

\* The accepted INSERT takes the lock.
LEMMA CreateAcquires ==
  ASSUME RunsInv, RunsInv', NEW c \in Caller, NEW r \in Run, CreateRunning(c, r)
  PROVE  Lock!Next
<1> DEFINE holder == [l \in League |-> HolderOf(l)]
<1>1. want[c] \in Scope /\ status'[r] = "RUNNING" /\ scope'[r] = want[c] /\ r \notin AdmittedRuns
  BY DEF CreateRunning, RunsInv, TypeOK, AdmittedRuns
<1>2. \A s \in Run \ {r} : status'[s] = status[s] /\ scope'[s] = scope[s]
  BY DEF CreateRunning, RunsInv, TypeOK
<1>3. AdmittedRuns' = AdmittedRuns \union {r}
  BY <1>1, <1>2 DEF AdmittedRuns
<1>4. status[r] = "absent"
  BY DEF CreateRunning
<1>5. ASSUME NEW l \in League, l # want[c] PROVE HolderOf(l)' = HolderOf(l)
  <2>1. RunningOf(l)' = RunningOf(l)
    BY <1>1, <1>2, <1>4, <1>5 DEF RunningOf
  <2> QED
    BY <2>1 DEF HolderOf
<1>6. CASE want[c] = All
  <2>1. holder' = holder
    BY <1>5, <1>6, ScopeAssumption
  <2>2. Lock!AdmitUnlocked(r)
    BY <1>1, <1>3, <2>1 DEF Lock!AdmitUnlocked
  <2> QED
    BY <2>2 DEF Lock!Next
<1>7. CASE want[c] # All
  <2>1. PICK l \in League : l = want[c]
    BY <1>1, <1>7 DEF Scope
  <2>2. HolderOf(l) = NoRun
    BY <2>1, <1>7, HolderFact DEF RunsInv, CreateRunning, IndexAllows
  <2>3. HolderOf(l)' = r
    <3>1. RunningOf(l)' = {r}
      BY <1>1, <1>7, <2>1 DEF RunningOf, RunsInv, IndexHolds
    <3> QED
      BY <3>1 DEF HolderOf
  <2>4. \A k \in League : HolderOf(k)' = IF k = l THEN r ELSE HolderOf(k)
    BY <1>5, <2>1, <2>3
  <2>5. holder' = [holder EXCEPT ![l] = r] /\ holder[l] = NoRun
    BY <2>2, <2>4
  <2>6. Lock!Acquire(l, r)
    BY <1>1, <1>3, <2>5 DEF Lock!Acquire
  <2> QED
    BY <2>6 DEF Lock!Next
<1> QED
  BY <1>6, <1>7

\* The write of a final status gives the lock back, once.
LEMMA FinishReleases ==
  ASSUME RunsInv, RunsInv', NEW r \in Run, NEW final \in Terminal,
         NEW place \in TaskPlace, task[r] # "none", Finish(r, final, place)
  PROVE  Lock!Next \/ UNCHANGED Lock!lockVars
<1> DEFINE holder == [l \in League |-> HolderOf(l)]
<1>0. final # "RUNNING" /\ final # "absent"
  BY DEF Terminal
<1>1. status'[r] = final /\ scope' = scope /\ status[r] # "absent" /\ status'[r] # "absent"
  BY <1>0 DEF Finish, RunsInv, TypeOK, TaskHasRow
<1>2. \A s \in Run \ {r} : status'[s] = status[s]
  BY DEF Finish, RunsInv, TypeOK
<1>3. AdmittedRuns' = AdmittedRuns
  BY <1>1, <1>2 DEF AdmittedRuns
<1>4. ASSUME NEW l \in League, scope[r] # l \/ status[r] # "RUNNING"
      PROVE  HolderOf(l)' = HolderOf(l)
  <2>1. RunningOf(l)' = RunningOf(l)
    BY <1>0, <1>1, <1>2, <1>4 DEF RunningOf
  <2> QED
    BY <2>1 DEF HolderOf
<1>5. CASE scope[r] = All \/ status[r] # "RUNNING"
  <2>1. holder' = holder
    BY <1>4, <1>5, ScopeAssumption
  <2> QED
    BY <1>3, <2>1 DEF Lock!lockVars
<1>6. CASE scope[r] # All /\ status[r] = "RUNNING"
  <2>1. PICK l \in League : l = scope[r]
    BY <1>6 DEF RunsInv, TypeOK, Scope
  <2>2. HolderOf(l) = r /\ r # NoRun
    BY <1>6, <2>1, HolderFact, NoRunAssumption DEF RunsInv
  <2>3. HolderOf(l)' = NoRun
    <3>1. RunningOf(l)' = {}
      BY <1>0, <1>1, <1>2, <1>6, <2>1 DEF RunningOf, RunsInv, IndexHolds
    <3> QED
      BY <3>1 DEF HolderOf
  <2>4. \A k \in League : HolderOf(k)' = IF k = l THEN NoRun ELSE HolderOf(k)
    BY <1>4, <2>1, <2>3
  <2>5. holder' = [holder EXCEPT ![l] = NoRun] /\ holder[l] # NoRun
    BY <2>2, <2>4
  <2>6. Lock!Release(l)
    BY <1>3, <2>5 DEF Lock!Release
  <2> QED
    BY <2>6 DEF Lock!Next
<1> QED
  BY <1>5, <1>6

\* The run table implements one lock per league: whatever callers, tasks and
\* faults do, a league is held by one run at a time (tables.py:72-80).
THEOREM LockRefined == Spec => RefinesLock
<1>1. Init => Lock!Init
  <2> SUFFICES ASSUME Init PROVE Lock!Init
    OBVIOUS
  <2>1. \A l \in League : HolderOf(l) = NoRun
    BY DEF Init, HolderOf, RunningOf
  <2>2. AdmittedRuns = {}
    BY DEF Init, AdmittedRuns
  <2> QED
    BY <2>1, <2>2 DEF Lock!Init
<1>2. ASSUME RunsInv, RunsInv', [Next]_vars PROVE [Lock!Next]_(Lock!lockVars)
  <2> USE <1>2
  <2>1. CASE UNCHANGED rowVars
    BY <2>1, RowsUnchanged
  <2>2. ASSUME NEW c \in Caller, NEW r \in Run, CreateRunning(c, r) PROVE Lock!Next
    BY <2>2, CreateAcquires
  <2>3. ASSUME NEW r \in Run, NEW final \in Terminal, Complete(r, final)
        PROVE  Lock!Next \/ UNCHANGED Lock!lockVars
    BY <2>3, FinishReleases DEF Complete, TaskPlace
  <2>4. ASSUME NEW r \in Run, MarkFailed(r)
        PROVE  Lock!Next \/ UNCHANGED Lock!lockVars
    BY <2>4, FinishReleases DEF MarkFailed, TaskPlace, Terminal
  <2> QED
    BY <2>1, <2>2, <2>3, <2>4
       DEF Next, CallStep, TaskStep, CheckActive, ResolveFails, CreateConflicts, Launch,
           LaunchFails, CancelCaller, Return, Raise, FinishRaises, CancelTask, CancelHandler,
           MarkFailedRaises, MoveTask, Crash, vars, rowVars
<1> QED
  BY <1>1, <1>2, RunsInvariant, PTL DEF Spec, RefinesLock, Lock!Spec
=============================================================================
