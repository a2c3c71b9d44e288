----------------------------- MODULE PipelineRuns -----------------------------
(***************************************************************************)
(* Admission and lifecycle of pipeline runs: PipelineRunner.start_run and  *)
(* _execute over the pipeline_runs table.                                  *)
(*                                                                         *)
(* A caller of start_run is an HTTP request, the scheduler's tick or a     *)
(* re-run timer.  start_run awaits four times (the guard's query, the game *)
(* list, the INSERT, the first progress write) and every other caller and  *)
(* task may run at each await; the caller may also be cancelled there.     *)
(* The task of an admitted run is a separate asyncio task.  What the task  *)
(* does between its first and its last step is module PipelineExecution's  *)
(* subject: here it succeeds with some final status or raises.             *)
(***************************************************************************)
EXTENDS FiniteSets

CONSTANTS
  League,   \* the leagues
  All,      \* league = None: a run of all leagues
  Run,      \* run identifiers
  NoRun,    \* no run
  Caller,   \* concurrent callers of start_run
  Faults    \* the faults the environment may cause

FaultKind == {"cancel_caller", "cancel_task", "cancel_handler", "db", "crash"}

ASSUME ScopeAssumption == All \notin League
ASSUME NoRunAssumption == NoRun \notin Run
ASSUME FaultsAssumption == Faults \subseteq FaultKind

VARIABLES
  status,   \* pipeline_runs.status of each run, "absent" before the INSERT
  scope,    \* pipeline_runs.league of each run, NULL being All
  pc,       \* where each caller is in start_run
  want,     \* the league the caller asked for
  own,      \* the run the caller has inserted
  window,   \* history: the runs inserted since the caller's guard query
  task      \* the asyncio task of each run

rowVars == <<status, scope>>
callVars == <<pc, want, own, window>>
vars == <<status, scope, pc, want, own, window, task>>

Scope == League \union {All}
Terminal == {"COMPLETED", "COMPLETED_WITH_ERRORS", "FAILED"}
Status == {"absent", "RUNNING"} \union Terminal

\* "resolving": past the duplicate guard; "created": past the INSERT.
CallPlace == {"idle", "resolving", "created"}

\* "committed": finish() has written the final status and has not returned.
TaskPlace == {"none", "executing", "committed", "failing", "done"}

Init ==
  /\ status = [r \in Run |-> "absent"]
  /\ scope = [r \in Run |-> All]
  /\ pc = [c \in Caller |-> "idle"]
  /\ want = [c \in Caller |-> All]
  /\ own = [c \in Caller |-> NoRun]
  /\ window = [c \in Caller |-> {}]
  /\ task = [r \in Run |-> "none"]

-----------------------------------------------------------------------------
(***************************************************************************)
(* The pipeline_runs table.                                                *)
(***************************************************************************)

\* get_active_for_league: for all leagues every active run conflicts, for
\* one league the runs of that league and of all leagues.
ActiveFor(l) ==
  {r \in Run : status[r] = "RUNNING" /\ (l = All \/ scope[r] \in {l, All})}

\* Mutant of IndexAllows: the index is missing.
IndexMissing(l) == TRUE

\* The unique partial index: no second RUNNING row of a league; NULL leagues
\* are distinct from each other.
IndexAllows(l) ==
  l = All \/ \A r \in Run : ~(status[r] = "RUNNING" /\ scope[r] = l)

-----------------------------------------------------------------------------
(***************************************************************************)
(* start_run.                                                              *)
(***************************************************************************)

\* start_run returns or raises: its local state is gone.
Leave(c) ==
  /\ pc' = [pc EXCEPT ![c] = "idle"]
  /\ want' = [want EXCEPT ![c] = All]
  /\ own' = [own EXCEPT ![c] = NoRun]
  /\ window' = [window EXCEPT ![c] = {}]

\* Mutant of CheckActive: the query looks for the very same scope only.
CheckSameScope(c, l) ==
  /\ pc[c] = "idle"
  /\ \A r \in Run : status[r] = "RUNNING" => scope[r] # l
  /\ pc' = [pc EXCEPT ![c] = "resolving"]
  /\ want' = [want EXCEPT ![c] = l]
  /\ UNCHANGED <<rowVars, own, window, task>>

\* The duplicate guard's query finds no active run.  (When it finds one,
\* start_run raises the 409 and has changed nothing.)
CheckActive(c, l) ==
  /\ pc[c] = "idle"
  /\ ActiveFor(l) = {}
  /\ pc' = [pc EXCEPT ![c] = "resolving"]
  /\ want' = [want EXCEPT ![c] = l]
  /\ UNCHANGED <<rowVars, own, window, task>>

\* The statistics service cannot list the games: the ApiError propagates.
ResolveFails(c) ==
  /\ pc[c] = "resolving"
  /\ Leave(c)
  /\ UNCHANGED <<rowVars, task>>

\* Mutant of CreateRunning: the INSERT is an upsert and reopens a closed row.
CreateOrReopen(c, r) ==
  /\ pc[c] = "resolving"
  /\ status[r] # "RUNNING"
  /\ IndexAllows(want[c])
  /\ status' = [status EXCEPT ![r] = "RUNNING"]
  /\ scope' = [scope EXCEPT ![r] = want[c]]
  /\ pc' = [pc EXCEPT ![c] = "created"]
  /\ own' = [own EXCEPT ![c] = r]
  /\ window' = [d \in Caller |->
                  IF d # c /\ pc[d] = "resolving" THEN window[d] \union {r} ELSE {}]
  /\ UNCHANGED <<want, task>>

\* The games are listed and the INSERT is accepted by the index.
CreateRunning(c, r) ==
  /\ pc[c] = "resolving"
  /\ status[r] = "absent"
  /\ IndexAllows(want[c])
  /\ status' = [status EXCEPT ![r] = "RUNNING"]
  /\ scope' = [scope EXCEPT ![r] = want[c]]
  /\ pc' = [pc EXCEPT ![c] = "created"]
  /\ own' = [own EXCEPT ![c] = r]
  /\ window' = [d \in Caller |->
                  IF d # c /\ pc[d] = "resolving" THEN window[d] \union {r} ELSE {}]
  /\ UNCHANGED <<want, task>>

\* The games are listed and the index rejects the INSERT: 409.
CreateConflicts(c) ==
  /\ pc[c] = "resolving"
  /\ ~IndexAllows(want[c])
  /\ Leave(c)
  /\ UNCHANGED <<rowVars, task>>

\* The pending steps are written; the task is created with no await between.
Launch(c) ==
  /\ pc[c] = "created"
  /\ task' = [task EXCEPT ![own[c]] = "executing"]
  /\ Leave(c)
  /\ UNCHANGED rowVars

\* The write of the pending steps raises: start_run ends, the row stays.
LaunchFails(c) ==
  /\ "db" \in Faults
  /\ pc[c] = "created"
  /\ Leave(c)
  /\ UNCHANGED <<rowVars, task>>

\* The caller's task is cancelled at one of start_run's awaits: a new event
\* re-arms the re-run timer, or the scheduler or the timers are stopped.
CancelCaller(c) ==
  /\ "cancel_caller" \in Faults
  /\ pc[c] # "idle"
  /\ Leave(c)
  /\ UNCHANGED <<rowVars, task>>

-----------------------------------------------------------------------------
(***************************************************************************)
(* _execute.  finish() updates the row whatever its status is.             *)
(***************************************************************************)

Finish(r, final, place) ==
  /\ status' = [status EXCEPT ![r] = final]
  /\ task' = [task EXCEPT ![r] = place]
  /\ UNCHANGED <<scope, callVars>>

MoveTask(r, place) ==
  /\ task' = [task EXCEPT ![r] = place]
  /\ UNCHANGED <<rowVars, callVars>>

\* _execute_inner reaches its end and commits the final status.
Complete(r, final) ==
  /\ task[r] = "executing"
  /\ Finish(r, final, "committed")

\* finish() returns and the task ends.
Return(r) ==
  /\ task[r] = "committed"
  /\ MoveTask(r, "done")

\* _execute_inner raises before its final write.
Raise(r) ==
  /\ task[r] = "executing"
  /\ MoveTask(r, "failing")

\* The reply to the final write is lost: the write stands, finish() raises.
FinishRaises(r) ==
  /\ "db" \in Faults
  /\ task[r] = "committed"
  /\ MoveTask(r, "failing")

\* The task is cancelled, before its final write or while it awaits the reply.
CancelTask(r) ==
  /\ "cancel_task" \in Faults
  /\ task[r] \in {"executing", "committed"}
  /\ MoveTask(r, "failing")

\* Mutant of MarkFailed: an update of every row of the league.
MarkLeagueFailed(r) ==
  /\ task[r] = "failing"
  /\ status' = [s \in Run |-> IF status[s] # "absent" /\ scope[s] = scope[r]
                               THEN "FAILED" ELSE status[s]]
  /\ task' = [task EXCEPT ![r] = "done"]
  /\ UNCHANGED <<scope, callVars>>

\* Both except clauses of _execute: the row is set to FAILED.
MarkFailed(r) ==
  /\ task[r] = "failing"
  /\ Finish(r, "FAILED", "done")

\* Mutant of MarkFailedRaises: the task starts the run again.
MarkFailedRetries(r) ==
  /\ "db" \in Faults
  /\ task[r] = "failing"
  /\ MoveTask(r, "executing")

\* The write of the except clause raises in its turn.
MarkFailedRaises(r) ==
  /\ "db" \in Faults
  /\ task[r] = "failing"
  /\ MoveTask(r, "done")

\* The task is cancelled while the except clause awaits its write.
CancelHandler(r) ==
  /\ "cancel_handler" \in Faults
  /\ task[r] = "failing"
  /\ MoveTask(r, "done")

-----------------------------------------------------------------------------
\* The process dies and starts again: tasks and calls are lost, rows remain,
\* and nothing at startup looks at the rows.
Crash ==
  /\ "crash" \in Faults
  /\ pc' = [c \in Caller |-> "idle"]
  /\ want' = [c \in Caller |-> All]
  /\ own' = [c \in Caller |-> NoRun]
  /\ window' = [c \in Caller |-> {}]
  /\ task' = [r \in Run |-> IF task[r] = "none" THEN "none" ELSE "done"]
  /\ UNCHANGED rowVars

CallStep(c) ==
  \/ ResolveFails(c)
  \/ \E r \in Run : CreateRunning(c, r)
  \/ CreateConflicts(c)
  \/ Launch(c)
  \/ LaunchFails(c)

TaskStep(r) ==
  \/ \E final \in Terminal : Complete(r, final)
  \/ Return(r)
  \/ Raise(r)
  \/ FinishRaises(r)
  \/ MarkFailed(r)
  \/ MarkFailedRaises(r)

Next ==
  \/ \E c \in Caller, l \in Scope : CheckActive(c, l)
  \/ \E c \in Caller : CallStep(c) \/ CancelCaller(c)
  \/ \E r \in Run : TaskStep(r) \/ CancelTask(r) \/ CancelHandler(r)
  \/ Crash

Spec == Init /\ [][Next]_vars

\* The event loop resumes every call and every task whose awaited operation
\* ended; every client call has a timeout.  Nobody has to call start_run.
Fairness ==
  /\ \A c \in Caller : WF_vars(CallStep(c))
  /\ \A r \in Run : WF_vars(TaskStep(r))

FairSpec == Spec /\ Fairness

-----------------------------------------------------------------------------
(***************************************************************************)
(* Properties.                                                             *)
(***************************************************************************)

TypeOK ==
  /\ status \in [Run -> Status]
  /\ scope \in [Run -> Scope]
  /\ pc \in [Caller -> CallPlace]
  /\ want \in [Caller -> Scope]
  /\ own \in [Caller -> Run \union {NoRun}]
  /\ window \in [Caller -> SUBSET Run]
  /\ task \in [Run -> TaskPlace]

\* Two tasks never work on the same league at the same time, whatever the
\* order in which callers of start_run interleave, fail and are cancelled
\* (pipeline.py:121, tables.py:72).
OneTaskPerLeague ==
  \A r, s \in Run :
    /\ task[r] = "executing" /\ task[s] = "executing"
    /\ scope[r] = scope[s] /\ scope[r] # All
    => r = s

\* The duplicate guard only misses what was inserted after its query: a run
\* that conflicts with a call in progress is one inserted since the call's
\* query (the window between pipeline.py:129 and pipeline.py:138).
ConflictOnlyFromWindow ==
  \A c \in Caller : pc[c] = "resolving" => ActiveFor(want[c]) \subseteq window[c]

\* A run whose task still works is RUNNING in the table: nobody else closes
\* it, so its league is not given away under it (pipeline.py:160).
WorkingRunHoldsRow ==
  \A r \in Run : task[r] = "executing" => status[r] = "RUNNING"

\* A closed run is never reopened, and only the except clauses of its own
\* task may still change the final status, to FAILED (pipeline.py:163-168:
\* finish() does not look at the status it replaces).
ClosedOnlyTurnsFailed ==
  [][\A r \in Run :
       status[r] \in Terminal /\ status'[r] # status[r]
         => task[r] = "failing" /\ status'[r] = "FAILED"]_vars

\* Nobody is left who would close the row: no task works on the run, and no
\* caller is about to launch one.
Abandoned(r) ==
  /\ status[r] = "RUNNING"
  /\ task[r] \in {"none", "done"}
  /\ \A c \in Caller : own[c] # r

\* The row of an inserted run reaches a terminal status or is abandoned: there
\* is no third way for it to stay open, whatever is cancelled, lost or killed
\* between the INSERT and the final write (pipeline.py:121-168).
RunsCloseUnlessAbandoned ==
  \A r \in Run : status[r] = "RUNNING" ~> status[r] \in Terminal \/ Abandoned(r)

-----------------------------------------------------------------------------
(***************************************************************************)
(* The table as a lock per league (module LeagueLock): the holder of a     *)
(* league is its RUNNING row.                                              *)
(***************************************************************************)

RunningOf(l) == {r \in Run : status[r] = "RUNNING" /\ scope[r] = l}

HolderOf(l) == IF RunningOf(l) = {} THEN NoRun ELSE CHOOSE r \in RunningOf(l) : TRUE

AdmittedRuns == {r \in Run : status[r] # "absent"}

Lock == INSTANCE LeagueLock WITH
          Free <- NoRun,
          holder <- [l \in League |-> HolderOf(l)],
          admitted <- AdmittedRuns

\* Every step of the runs is a step of the locks: a league's lock is taken
\* by one run at a time, released once, and no run is admitted twice.
RefinesLock == Lock!Spec
=============================================================================
