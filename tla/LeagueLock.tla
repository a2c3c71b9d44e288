------------------------------ MODULE LeagueLock ------------------------------
(***************************************************************************)
(* What the run table promises the rest of the agent, with no mention of   *)
(* callers, tasks or statuses: every league is a lock, a pipeline run      *)
(* takes the lock of its league when it is admitted and gives it back when *)
(* it closes, and a run is admitted at most once.  A run of all leagues is *)
(* admitted without holding any lock: the unique index ignores the NULL    *)
(* league.                                                                 *)
(***************************************************************************)

CONSTANTS
  League,   \* the leagues a run can be for
  Run,      \* the identifiers of runs
  Free      \* the value of a lock nobody holds

VARIABLES
  holder,   \* the run that holds the lock of each league, or Free
  admitted  \* the runs admitted so far

lockVars == <<holder, admitted>>

Init ==
  /\ holder = [l \in League |-> Free]
  /\ admitted = {}

\* A run of one league is admitted: it takes a lock that is free.
Acquire(l, r) ==
  /\ holder[l] = Free
  /\ r \notin admitted
  /\ holder' = [holder EXCEPT ![l] = r]
  /\ admitted' = admitted \union {r}

\* A run of all leagues is admitted: no lock is involved.
AdmitUnlocked(r) ==
  /\ r \notin admitted
  /\ admitted' = admitted \union {r}
  /\ UNCHANGED holder

\* The run that holds a lock closes.
Release(l) ==
  /\ holder[l] # Free
  /\ holder' = [holder EXCEPT ![l] = Free]
  /\ UNCHANGED admitted

Next ==
  \/ \E l \in League, r \in Run : Acquire(l, r)
  \/ \E r \in Run : AdmitUnlocked(r)
  \/ \E l \in League : Release(l)

Spec == Init /\ [][Next]_lockVars
=============================================================================
