---------------------------- MODULE TriggerProofs ----------------------------
(***************************************************************************)
(* Proofs about what makes runs start: the cron scheduler (Scheduler), the *)
(* events of the other services (EventSubscriber) and the timers they arm  *)
(* (RerunCoordinator), for any leagues, schedules, periods, games and      *)
(* numbers of events, edits and faults.                                    *)
(*                                                                         *)
(* The three have no state in common.  Each has an inductive invariant of  *)
(* its own: where a started occurrence may still be on record, where the   *)
(* news of a moved line still is, and which of a league's timers is alive. *)
(***************************************************************************)
EXTENDS Scheduler, EventSubscriber, RerunCoordinator, SequenceTheorems,
        WellFoundedInduction, TLAPS

-----------------------------------------------------------------------------
(***************************************************************************)
(* Scheduler.                                                              *)
(***************************************************************************)

SnapshotType == [id : Schedule, cron : Period, next : Horizon]
PostType == [number : Nat, at : {"writing", "written"}, id : Schedule, cron : Period,
             enabled : BOOLEAN, next : Horizon]
RowType == [Schedule -> [cron : Period, enabled : BOOLEAN, next : Horizon]]

RowsOK ==
  /\ now \in Nat /\ tickNow \in Nat /\ tickNow <= now
  /\ row \in RowType
  /\ todo \subseteq SnapshotType /\ posts \subseteq PostType
  /\ loop = "firing" => current \in SnapshotType
  /\ fired \subseteq Occurrence
  /\ edits \in Nat

\* The tick has read every schedule once.
OneSnapshot == \A r, q \in todo : r.id = q.id => r = q

\* The occurrences that may be fired again.
Undone == unrolled \union reset

\* An occurrence a run was started for is past, and it is nowhere to be found
\* any more - neither in its row, nor in what the tick has read - but where it
\* is being fired, unless its roll-forward was lost or an upsert has undone it.
Passed ==
  /\ \A o \in fired : o[2] <= tickNow
  /\ \A o \in fired \ Undone :
       /\ Firing(o) \/ row[o[1]].next # o[2]
       /\ \A r \in todo : r.id = o[1] => r.next # o[2]

CronInv == RowsOK /\ OneSnapshot /\ Passed /\ OccurrenceFiresOnce

\* next_fire is strictly after the time it is asked for.
LEMMA NextFireLater ==
  ASSUME NEW p \in Period, NEW t \in Nat
  PROVE  NextFire(p, t) \in Nat /\ NextFire(p, t) > t
<1>1. p \in Nat \ {0}
  BY PeriodAssumption
<1> DEFINE q == t \div p
           m == t % p
<1>2. q \in Nat /\ m \in Nat /\ m < p /\ t = p * q + m
  BY <1>1
<1>3. (q + 1) * p = p * q + p
  BY <1>1, <1>2
<1>4. (q + 1) * p \in Nat
  BY <1>1, <1>2
<1> QED
  BY <1>1, <1>2, <1>3, <1>4 DEF NextFire

LEMMA CronInit == Init => CronInv
<1> SUFFICES ASSUME Init PROVE CronInv
  OBVIOUS
<1> USE DEF Init
<1> DEFINE Fresh == {[cron |-> p, enabled |-> TRUE, next |-> Never] : p \in Period}
<1>1. Fresh \subseteq [cron : Period, enabled : BOOLEAN, next : Horizon]
  <2>1. Never \in Horizon /\ TRUE \in BOOLEAN
    BY DEF Horizon
  <2>2. ASSUME NEW p \in Period
        PROVE  [cron |-> p, enabled |-> TRUE, next |-> Never]
                 \in [cron : Period, enabled : BOOLEAN, next : Horizon]
    BY <2>1
  <2> QED
    BY <2>2
<1>2. row \in [Schedule -> Fresh]
  OBVIOUS
<1> HIDE DEF Fresh
<1>3. row \in RowType
  BY <1>1, <1>2 DEF RowType
<1>4. RowsOK
  BY <1>3 DEF RowsOK
<1> QED
  BY <1>4 DEF CronInv, OneSnapshot, Passed, OccurrenceFiresOnce

LEMMA ListInv == ASSUME CronInv, List PROVE CronInv'
<1> USE DEF CronInv, List
<1>1. RowsOK'
  BY DEF RowsOK, RowType, SnapshotType, Snapshot
<1>2. OneSnapshot'
  BY DEF OneSnapshot, Snapshot
<1>3. Passed'
  BY DEF Passed, Undone, Firing, Snapshot, RowsOK, Occurrence
<1>4. OccurrenceFiresOnce'
  BY DEF OccurrenceFiresOnce
<1> QED
  BY <1>1, <1>2, <1>3, <1>4

\* A roll-forward leaves every occurrence that was started behind.
LEMMA RollForwardInv ==
  ASSUME CronInv, NEW r \in SnapshotType, RollForward(r),
         loop \in {"working", "firing"}, loop' = "working",
         \A o \in fired : Firing(o) => o[1] = r.id,
         todo' \subseteq todo, UNCHANGED <<now, tickNow, posts, fired, twice, unrolled, reset, edits>>
  PROVE  CronInv'
<1> USE DEF CronInv
<1> DEFINE next == NextFire(r.cron, tickNow)
<1>1. r.id \in Schedule /\ next \in Nat /\ next > tickNow
  BY NextFireLater DEF SnapshotType, RowsOK
<1>2. row' = [row EXCEPT ![r.id].next = next]
  BY DEF RollForward
<1> HIDE DEF next
<1>3. RowsOK'
  BY <1>1, <1>2 DEF RowsOK, RowType, Horizon
<1>4. OneSnapshot'
  BY DEF OneSnapshot
<1>5. Passed'
  <2> SUFFICES ASSUME NEW o \in fired \ Undone PROVE row'[o[1]].next # o[2]
    BY DEF Passed, Undone
  <2>1. o[1] \in Schedule /\ o[2] \in Nat /\ o[2] <= tickNow
    BY DEF RowsOK, Occurrence, Passed
  <2>2. CASE o[1] = r.id
    BY <1>1, <1>2, <2>1, <2>2 DEF RowsOK, RowType
  <2>3. CASE o[1] # r.id
    BY <1>1, <1>2, <2>1, <2>3 DEF RowsOK, RowType, Passed
  <2> QED
    BY <2>2, <2>3
<1>6. OccurrenceFiresOnce'
  BY DEF OccurrenceFiresOnce
<1> QED
  BY <1>3, <1>4, <1>5, <1>6

LEMMA StartRunInv == ASSUME CronInv, NEW r \in todo, StartRun(r) PROVE CronInv'
<1> USE DEF CronInv, StartRun, Take
<1> DEFINE o == <<r.id, r.next>>
<1>1. r \in SnapshotType /\ r.next \in Nat /\ r.next <= tickNow
  BY TimeAssumption DEF RowsOK, Due, Horizon, SnapshotType
<1>2. o \in Occurrence /\ o[1] = r.id /\ o[2] = r.next
  BY <1>1 DEF Occurrence, SnapshotType
<1>3. fired' \in {fired, fired \union {o}} /\ twice' \subseteq twice \union (fired \intersect {o})
  OBVIOUS
<1>4. RowsOK' /\ OneSnapshot'
  BY <1>1, <1>2, <1>3 DEF RowsOK, OneSnapshot
<1>5. Firing(o)'
  BY <1>2 DEF Firing
<1>6. o \notin fired \ Undone /\ Undone' = Undone
  BY <1>2 DEF Passed, Undone
<1>7. Passed'
  <2>1. \A x \in fired' : x[2] <= tickNow'
    BY <1>1, <1>2, <1>3 DEF Passed
  <2>2. ASSUME NEW x \in fired' \ Undone'
        PROVE  /\ Firing(x)' \/ row'[x[1]].next # x[2]
               /\ \A q \in todo' : q.id = x[1] => q.next # x[2]
    <3>1. CASE x = o
      BY <1>2, <1>5, <3>1 DEF OneSnapshot
    <3>2. CASE x # o
      <4>1. x \in fired \ Undone
        BY <1>3, <1>6, <2>2, <3>2
      <4> QED
        BY <4>1 DEF Passed, Firing
    <3> QED
      BY <3>1, <3>2
  <2> QED
    BY <2>1, <2>2 DEF Passed
<1>8. OccurrenceFiresOnce'
  BY <1>3, <1>6 DEF OccurrenceFiresOnce, Undone
<1> QED
  BY <1>4, <1>7, <1>8

\* The tick is left: what it was firing is excused.
LEMMA LeaveTickInv ==
  ASSUME CronInv, loop' # "firing", todo' = {}, posts' \subseteq posts,
         tickNow' \in {tickNow, now},
         unrolled' = unrolled \/ LoseRollForward, loop # "firing" \/ LoseRollForward,
         UNCHANGED <<now, row, fired, twice, reset, edits>>
  PROVE  CronInv'
<1> USE DEF CronInv
<1>1. Undone \subseteq Undone' /\ unrolled \subseteq unrolled'
  BY DEF LoseRollForward, Undone
<1>2. RowsOK' /\ OneSnapshot' /\ OccurrenceFiresOnce'
  BY <1>1 DEF RowsOK, OneSnapshot, OccurrenceFiresOnce
<1>3. ASSUME NEW o \in fired \ Undone'
      PROVE  ~Firing(o) /\ o \in fired \ Undone
  BY <1>1 DEF Firing, LoseRollForward, RowsOK, Occurrence, Undone
<1>4. \A o \in fired' : o[2] <= tickNow'
  BY DEF RowsOK, Occurrence, Passed
<1> QED
  BY <1>2, <1>3, <1>4 DEF Passed

\* An upsert that is written may bring an occurrence back: it is in reset then.
LEMMA WriteRowInv == ASSUME CronInv, NEW q \in posts, WriteRow(q) PROVE CronInv'
<1> USE DEF CronInv, WriteRow, tickVars
<1>1. /\ q.id \in Schedule /\ q.cron \in Period /\ q.enabled \in BOOLEAN /\ q.next \in Horizon
      /\ [q EXCEPT !.at = "written"] \in PostType
  BY DEF RowsOK, PostType
<1>2. row' = [row EXCEPT ![q.id] = [cron |-> q.cron, enabled |-> q.enabled, next |-> q.next]]
  OBVIOUS
<1>3. reset' = reset \union {o \in fired \intersect {<<q.id, q.next>>} : ~Firing(o)}
  OBVIOUS
<1>4. RowsOK'
  BY <1>1, <1>2 DEF RowsOK, RowType
<1>5. OneSnapshot' /\ OccurrenceFiresOnce'
  BY <1>3 DEF OneSnapshot, OccurrenceFiresOnce
<1>6. Passed'
  <2> SUFFICES ASSUME NEW o \in fired \ Undone'
               PROVE  Firing(o) \/ row'[o[1]].next # o[2]
    BY <1>3 DEF Passed, Firing, Undone
  <2>1. o[1] \in Schedule /\ o[2] \in Nat /\ o = <<o[1], o[2]>>
    BY DEF RowsOK, Occurrence
  <2>2. CASE o[1] = q.id
    <3>1. row'[o[1]].next = q.next
      BY <1>1, <1>2, <2>1, <2>2 DEF RowsOK, RowType
    <3>2. q.next = o[2] => o \in {<<q.id, q.next>>}
      BY <2>1, <2>2
    <3> QED
      BY <1>3, <3>1, <3>2 DEF Undone
  <2>3. CASE o[1] # q.id
    BY <1>2, <1>3, <2>1, <2>3 DEF RowsOK, RowType, Passed, Undone
  <2> QED
    BY <2>2, <2>3
<1> QED
  BY <1>4, <1>5, <1>6

\* The steps that touch neither the rows nor what the tick fires.
LEMMA CronFrame ==
  ASSUME CronInv, loop # "firing" \/ loop' = loop, loop' # "firing" \/ loop = "firing",
         todo' \subseteq todo, current' = current, posts' \subseteq PostType,
         now' \in Nat, now <= now', tickNow' \in {tickNow, now},
         edits' \in Nat, UNCHANGED <<row, fired, twice, unrolled, reset>>
  PROVE  CronInv'
<1> USE DEF CronInv
<1>1. RowsOK' /\ OneSnapshot' /\ OccurrenceFiresOnce'
  BY DEF RowsOK, OneSnapshot, OccurrenceFiresOnce
<1>2. tickNow <= tickNow' /\ tickNow' \in Nat
  BY DEF RowsOK
<1>3. \A o \in fired : o[2] <= tickNow'
  BY <1>2 DEF Passed, RowsOK, Occurrence
<1>4. Passed'
  BY <1>3 DEF Passed, Firing, Undone
<1> QED
  BY <1>1, <1>4

\* An upsert that begins changes the posts alone.
LEMMA UpsertInv ==
  ASSUME CronInv, NEW s \in Schedule, NEW p \in Period, NEW on \in BOOLEAN,
         Upsert(s, p, on)
  PROVE  CronInv'
<1>1. now \in Nat /\ posts \subseteq PostType /\ edits \in Nat
  BY DEF CronInv, RowsOK
<1> DEFINE next == IF on THEN NextFire(p, now) ELSE Never
           q == [number |-> edits, at |-> "writing", id |-> s, cron |-> p, enabled |-> on, next |-> next]
<1>2. next \in Horizon
  BY <1>1, NextFireLater DEF Horizon
<1>3. posts' = posts \union {q}
  BY DEF Upsert
<1> HIDE DEF next
<1>4. q \in PostType
  BY <1>1, <1>2 DEF PostType
<1> HIDE DEF q
<1> QED
  BY <1>1, <1>3, <1>4, CronFrame DEF Upsert, tickVars, history

LEMMA CronNext == ASSUME CronInv, [Next]_vars PROVE CronInv'
<1>0. /\ now \in Nat /\ now <= now /\ todo \subseteq SnapshotType /\ posts \subseteq PostType
      /\ loop = "firing" => current \in SnapshotType
      /\ edits \in Nat
  BY DEF CronInv, RowsOK
<1>1. CASE List
  BY <1>1, ListInv
<1>2. ASSUME NEW r \in todo, Backfill(r) \/ Misfire(r) PROVE CronInv'
  BY <1>0, <1>2, RollForwardInv DEF Backfill, Misfire, Take, Firing
<1>3. ASSUME NEW r \in todo, NotDue(r) PROVE CronInv'
  BY <1>0, <1>3, CronFrame DEF NotDue, Take
<1>4. ASSUME NEW r \in todo, StartRun(r) PROVE CronInv'
  BY <1>4, StartRunInv
<1>5. CASE MarkRan
  BY <1>0, <1>5, RollForwardInv DEF MarkRan, Firing, history
<1>6. CASE Summary
  BY <1>0, <1>6, CronFrame DEF Summary, history
<1>7. CASE Sleep
  BY <1>7, LeaveTickInv DEF Sleep, SleepUntil
<1>8. CASE TickFails
  BY <1>8, LeaveTickInv DEF TickFails, SleepUntil
<1>9. CASE WakeUp
  BY <1>0, <1>9, CronFrame DEF WakeUp, history
<1>10. ASSUME NEW s \in Schedule, NEW p \in Period, NEW on \in BOOLEAN, Upsert(s, p, on)
       PROVE  CronInv'
  BY <1>10, UpsertInv
<1>11. ASSUME NEW q \in posts, WriteRow(q) PROVE CronInv'
  BY <1>11, WriteRowInv
<1>12. ASSUME NEW q \in posts, PostFails(q) \/ Wake(q) PROVE CronInv'
  BY <1>0, <1>12, CronFrame DEF PostFails, Wake, tickVars, history
<1>13. CASE Restart
  BY <1>13, LeaveTickInv DEF Restart
<1>14. CASE Clock
  BY <1>0, <1>14, CronFrame DEF Clock, tickVars, history
<1>15. CASE UNCHANGED vars
  BY <1>0, <1>15, CronFrame DEF vars, tickVars, history
<1> QED
  BY <1>1, <1>2, <1>3, <1>4, <1>5, <1>6, <1>7, <1>8, <1>9, <1>10, <1>11, <1>12, <1>13, <1>14, <1>15
     DEF Next, LoopStep, TakeNext, PostStep

\* Two runs of an occurrence are explained by a lost roll-forward or by an
\* upsert that was written after it: for any schedules, periods, upserts in
\* flight, exceptions, restarts and lengths of a tick.
THEOREM FiresOnce == Spec => []OccurrenceFiresOnce
<1>1. CronInv => OccurrenceFiresOnce
  BY DEF CronInv
<1> QED
  BY <1>1, CronInit, CronNext, PTL DEF Spec

-----------------------------------------------------------------------------
\* Schedule s fires next at t, and the tick knows: t or an earlier time is in
\* upcoming, or s has not been looked at, or it is being fired.
Known(s, t) ==
  \/ \E u \in upcoming : u <= t
  \/ \E r \in todo : r.id = s /\ r.next = t
  \/ loop = "firing" /\ current.id = s

\* What a tick is to take into account: the enabled schedules with a next fire
\* time that have not been written since the tick read the rows.
Awaited(s) == s \notin unread /\ row[s].enabled /\ row[s].next # Never

SleepInv ==
  /\ upcoming \subseteq Nat /\ summaryNext \in Horizon
  /\ loop = "fallen" => todo = {} /\ upcoming # {}
  /\ loop \in {"working", "firing", "fallen"} =>
       \A s \in Schedule : Awaited(s) => Known(s, row[s].next)
  /\ SleepsNoFurther

LEMMA SmallestIsFirst ==
  ASSUME NEW T \in SUBSET Nat, NEW u \in T
  PROVE  Min(T) \in Nat /\ Min(T) <= u
<1>0. T \subseteq Nat /\ u \in T
  OBVIOUS
<1> DEFINE R == OpToRel(<, Nat)
<1>1. IsWellFoundedOn(R, Nat) /\ T \subseteq Nat /\ T # {}
  BY NatLessThanWellFounded
<1> HIDE DEF R
<1>2. PICK x \in T : \A y \in T : <<y, x>> \notin R
  BY <1>1, WFMin
<1>3. \A y \in T : ~(y < x)
  BY <1>0, <1>2 DEF R, OpToRel
<1>4. \E z \in T : \A y \in T : z <= y
  BY <1>0, <1>3
<1>5. Min(T) \in T /\ \A y \in T : Min(T) <= y
  BY <1>4, Zenon DEF Min
<1> QED
  BY <1>0, <1>5

LEMMA SleepInit == Init => SleepInv
BY DEF Init, SleepInv, SleepsNoFurther, Horizon

\* The tick reads the rows.
LEMMA ListSleepInv == ASSUME CronInv, SleepInv, List PROVE SleepInv'
<1> USE DEF SleepInv, List
<1>1. ASSUME NEW s \in Schedule, Awaited(s)' PROVE Known(s, row[s].next)'
  <2>1. Snapshot(s) \in todo'
    BY <1>1 DEF Awaited
  <2> QED
    BY <2>1 DEF Known, Snapshot
<1> QED
  BY <1>1 DEF SleepsNoFurther

\* A schedule that is rolled forward is known by its new time.
LEMMA RollForwardSleepInv ==
  ASSUME CronInv, SleepInv, NEW r \in SnapshotType, RollForward(r),
         loop \in {"working", "firing"}, loop' = "working",
         loop = "firing" => current.id = r.id,
         \A q \in todo \ todo' : q = r, UNCHANGED <<summaryNext, tickNow, unread>>
  PROVE  SleepInv'
<1> USE DEF SleepInv
<1> DEFINE next == NextFire(r.cron, tickNow)
<1>1. r.id \in Schedule /\ next \in Nat /\ row \in RowType
  BY NextFireLater DEF SnapshotType, CronInv, RowsOK
<1>2. row' = [row EXCEPT ![r.id].next = next] /\ upcoming' = upcoming \union {next}
  BY DEF RollForward
<1> HIDE DEF next
<1>3. ASSUME NEW s \in Schedule, Awaited(s)' PROVE Known(s, row[s].next)'
  <2>1. CASE s = r.id
    BY <1>1, <1>2, <2>1 DEF Known, RowType
  <2>2. CASE s # r.id
    <3>1. row'[s] = row[s]
      BY <1>1, <1>2, <2>2 DEF RowType
    <3>2. Known(s, row[s].next)
      BY <1>3, <3>1 DEF Awaited
    <3> QED
      BY <1>2, <2>2, <3>1, <3>2 DEF Known
  <2> QED
    BY <2>1, <2>2
<1> QED
  BY <1>1, <1>2, <1>3 DEF SleepsNoFurther

\* A schedule that is not due, or is being fired, is known otherwise.
LEMMA LookSleepInv ==
  ASSUME CronInv, SleepInv, NEW r \in todo, NotDue(r) \/ StartRun(r)
  PROVE  SleepInv'
<1> USE DEF SleepInv, NotDue, StartRun, Take
<1>1. r \in SnapshotType
  BY DEF CronInv, RowsOK
<1>2. upcoming' \subseteq Nat
  BY <1>1 DEF SnapshotType, Horizon
<1>3. ASSUME NEW s \in Schedule, Awaited(s)' PROVE Known(s, row[s].next)'
  <2>1. Known(s, row[s].next) /\ loop = "working"
    BY <1>3 DEF Awaited
  <2>2. CASE \E u \in upcoming : u <= row[s].next
    BY <2>2 DEF Known
  <2>3. ASSUME NEW q \in todo, q.id = s, q.next = row[s].next PROVE Known(s, row[s].next)'
    <3>1. CASE q # r
      BY <2>3, <3>1 DEF Known
    <3>2. CASE q = r /\ StartRun(r)
      BY <2>3, <3>2 DEF Known
    <3>3. CASE q = r /\ NotDue(r)
      <4>1. r.next \in upcoming' /\ r.next \in Nat /\ row'[s].next = r.next
        BY <1>2, <2>3, <3>3
      <4> QED
        BY <4>1 DEF Known
    <3> QED
      BY <3>1, <3>2, <3>3
  <2> QED
    BY <2>1, <2>2, <2>3 DEF Known
<1> QED
  BY <1>2, <1>3 DEF SleepsNoFurther

LEMMA SummarySleepInv == ASSUME CronInv, SleepInv, Summary PROVE SleepInv'
<1> USE DEF SleepInv, Summary, history
<1>1. summaryNext' \in Nat /\ upcoming' = upcoming \union {summaryNext'}
  <2>1. NextFire(SummaryPeriod, tickNow) \in Nat
    <3>1. SummaryPeriod \in Nat \ {0} /\ tickNow \in Nat
      BY PeriodAssumption DEF CronInv, RowsOK
    <3> QED
      BY <3>1 DEF NextFire
  <2> QED
    BY <2>1 DEF Horizon
<1>2. ASSUME NEW s \in Schedule, Awaited(s)' PROVE Known(s, row[s].next)'
  BY <1>1, <1>2 DEF Awaited, Known
<1> QED
  BY <1>1, <1>2 DEF SleepsNoFurther, Horizon

\* The loop sleeps until the first of the times it knows, or less.
LEMMA SleepSleepInv == ASSUME CronInv, SleepInv, Sleep PROVE SleepInv'
<1> USE DEF SleepInv, Sleep, SleepUntil
<1>1. ASSUME NEW s \in Schedule, Awaited(s) PROVE deadline' <= row[s].next
  <2>1. PICK u \in upcoming : u <= row[s].next
    BY <1>1 DEF Known
  <2>2. row[s].next \in Nat /\ u \in Nat /\ now + MaxSleep \in Nat
    BY <1>1, TimeAssumption DEF Awaited, CronInv, RowsOK, RowType, Horizon
  <2>3. Min(upcoming) \in Nat /\ Min(upcoming) <= u
    BY SmallestIsFirst
  <2> QED
    BY <2>1, <2>2, <2>3 DEF Smaller
<1>2. SleepsNoFurther'
  BY <1>1 DEF SleepsNoFurther, Awaited
<1> QED
  BY <1>2

\* A tick that failed, and a restart, have missed whatever was written.
LEMMA MissedSleepInv ==
  ASSUME SleepInv, loop' \in {"sleeping", "ticking"}, upcoming' = {}, unread' = Schedule,
         summaryNext' \in Horizon
  PROVE  SleepInv'
BY DEF SleepInv, SleepsNoFurther

LEMMA WriteRowSleepInv ==
  ASSUME CronInv, SleepInv, NEW q \in posts, WriteRow(q) PROVE SleepInv'
<1> USE DEF SleepInv, WriteRow, tickVars, sleepVars
<1>1. ASSUME NEW s \in Schedule, s \notin unread'
      PROVE  s \notin unread /\ row'[s] = row[s]
  BY <1>1 DEF CronInv, RowsOK, RowType
<1>2. ASSUME NEW s \in Schedule, Awaited(s)' PROVE Awaited(s) /\ row'[s] = row[s]
  BY <1>1, <1>2 DEF Awaited
<1>3. ASSUME NEW s \in Schedule, Awaited(s)', Known(s, row[s].next)
      PROVE  Known(s, row[s].next)'
  BY <1>2, <1>3 DEF Known
<1>4. SleepsNoFurther'
  BY <1>1 DEF SleepsNoFurther
<1> QED
  BY <1>2, <1>3, <1>4

LEMMA SleepFrame ==
  ASSUME SleepInv, loop' = loop \/ loop' = "ticking",
         UNCHANGED <<row, todo, upcoming, current, deadline, summaryNext, unread>>
  PROVE  SleepInv'
BY DEF SleepInv, SleepsNoFurther, Awaited, Known

LEMMA SleepNext == ASSUME CronInv, SleepInv, [Next]_vars PROVE SleepInv'
<1>0. /\ todo \subseteq SnapshotType /\ (loop = "firing" => current \in SnapshotType)
      /\ tickNow \in Nat /\ Never \in Horizon
  BY DEF CronInv, RowsOK, Horizon
<1>1. CASE List
  BY <1>1, ListSleepInv
<1>2. ASSUME NEW r \in todo, Backfill(r) \/ Misfire(r) PROVE SleepInv'
  BY <1>0, <1>2, RollForwardSleepInv DEF Backfill, Misfire, Take
<1>3. ASSUME NEW r \in todo, NotDue(r) \/ StartRun(r) PROVE SleepInv'
  BY <1>3, LookSleepInv
<1>4. CASE MarkRan
  BY <1>0, <1>4, RollForwardSleepInv DEF MarkRan, history
<1>5. CASE Summary
  BY <1>5, SummarySleepInv
<1>6. CASE Sleep
  BY <1>6, SleepSleepInv
<1>7. CASE TickFails
  <2>1. NextFire(SummaryPeriod, tickNow) \in Nat
    BY <1>0, PeriodAssumption DEF NextFire
  <2>2. summaryNext' \in Horizon
    BY <1>7, <2>1 DEF TickFails, SleepInv, Horizon
  <2> QED
    BY <1>7, <2>2, MissedSleepInv DEF TickFails, SleepUntil
<1>8. CASE WakeUp
  BY <1>8, SleepFrame DEF WakeUp, history, sleepVars
<1>9. ASSUME NEW s \in Schedule, NEW p \in Period, NEW on \in BOOLEAN, Upsert(s, p, on)
      PROVE  SleepInv'
  BY <1>9, SleepFrame DEF Upsert, tickVars, sleepVars, history
<1>10. ASSUME NEW q \in posts, WriteRow(q) PROVE SleepInv'
  BY <1>10, WriteRowSleepInv
<1>11. ASSUME NEW q \in posts, PostFails(q) \/ Wake(q) PROVE SleepInv'
  BY <1>11, SleepFrame DEF PostFails, Wake, tickVars, sleepVars, history
<1>12. CASE Restart
  BY <1>0, <1>12, MissedSleepInv DEF Restart
<1>13. CASE Clock
  BY <1>13, SleepFrame DEF Clock, tickVars, sleepVars, history
<1>14. CASE UNCHANGED vars
  BY <1>14, SleepFrame DEF vars, tickVars, sleepVars, history
<1> QED
  BY <1>1, <1>2, <1>3, <1>4, <1>5, <1>6, <1>7, <1>8, <1>9, <1>10, <1>11, <1>12, <1>13, <1>14
     DEF Next, LoopStep, TakeNext, PostStep

\* The loop does not sleep beyond a fire time it could know of: only an edit
\* that was written after the rows were read, or a tick that failed, can keep
\* it asleep, for any number of schedules and of upserts in flight.
THEOREM SleepsInTime == Spec => []SleepsNoFurther
<1>1. SleepInv => SleepsNoFurther
  BY DEF SleepInv
<1> QED
  BY <1>1, CronInit, CronNext, SleepInit, SleepNext, PTL DEF Spec

-----------------------------------------------------------------------------
(***************************************************************************)
(* EventSubscriber.                                                        *)
(***************************************************************************)

BusTypes ==
  /\ fresh \subseteq Edge
  /\ read \in [Game -> ReadState]
  /\ channel \in Seq(Message)
  /\ handler.at \in HandlerPlace
  /\ handler.msg \in Message
  /\ handler.todo \in SUBSET Game
  /\ handler = [at |-> handler.at, msg |-> handler.msg, todo |-> handler.todo,
                affected |-> handler.affected]
  /\ cache \in {None} \union Dashboard
  /\ reader \in {None} \union Dashboard

\* Between two events the handler knows of none; past the marking it has no
\* game left to mark.
HandlerRests ==
  /\ handler.at = "idle" => handler = Idle
  /\ handler.at \in {"invalidating", "requesting"} /\ handler.msg.kind = "lines"
       => handler.todo = {}

\* What a dashboard shows too much of is about to be invalidated, or is excused.
InFlight(dashboard) ==
  dashboard # None /\ dashboard.behind /\ ~dashboard.missed
    => handler.at \in {"marking", "invalidating"}

BusInv ==
  /\ BusTypes
  /\ HandlerRests
  /\ OutdatedEdgeIsPending
  /\ InFlight(cache)
  /\ InFlight(reader)

LEMMA BusInit == SubscriberInit => BusInv
<1> SUFFICES ASSUME SubscriberInit PROVE BusInv
  OBVIOUS
<1> USE DEF SubscriberInit, Idle, NoMessage
<1>1. BusTypes
  BY DEF BusTypes, ReadState, HandlerPlace, Message
<1> QED
  BY <1>1 DEF BusInv, HandlerRests, OutdatedEdgeIsPending, InFlight

\* An event is published while the lines of its games move: it is on its way
\* to the handler, or it is a live frame or nobody is listening, and the games
\* are excused.
LEMMA LinesMoveInv ==
  ASSUME BusInv, NEW gs \in SUBSET Game, NEW l \in League \union {NoLeague},
         NEW live \in BOOLEAN, LinesMove(gs, l, live)
  PROVE  BusInv'
<1> USE DEF BusInv, LinesMove, Publish, cacheVars
<1> DEFINE msg == [kind |-> IF live THEN "live" ELSE "lines", games |-> gs, league |-> l]
<1>1. msg \in Message
  BY DEF Message
<1>2. /\ channel' \in Seq(Message)
      /\ \A i \in DOMAIN channel : i \in DOMAIN channel' /\ channel'[i] = channel[i]
      /\ connected => \E i \in DOMAIN channel' : channel'[i] = msg
  BY <1>1 DEF BusTypes
<1>3. fresh' \subseteq Edge
  BY DEF BusTypes, Edge
<1>4. read' \in [Game -> ReadState]
  BY DEF BusTypes, ReadState
<1>5. BusTypes' /\ HandlerRests' /\ InFlight(cache)' /\ InFlight(reader)'
  BY <1>2, <1>3, <1>4 DEF BusTypes, HandlerRests, InFlight
<1>6. \A g \in Game : Pending(g) => Pending(g)'
  BY <1>2 DEF Pending
<1>7. ASSUME NEW g \in gs PROVE g \in excused' \/ Pending(g)'
  BY <1>2, <1>7 DEF Pending
<1>8. OutdatedEdgeIsPending'
  <2> SUFFICES ASSUME NEW e \in fresh', e.outdated
               PROVE  e.game \in excused' \/ Pending(e.game)'
    BY DEF OutdatedEdgeIsPending
  <2>1. PICK f \in fresh : e = IF f.game \in gs THEN [f EXCEPT !.outdated = TRUE] ELSE f
    OBVIOUS
  <2>2. f \in Edge /\ e.game = f.game /\ f.game \in Game
    BY <2>1 DEF BusTypes, Edge
  <2>3. CASE f.game \in gs
    BY <1>7, <2>2, <2>3
  <2>4. CASE f.game \notin gs
    BY <1>6, <2>1, <2>2, <2>4 DEF OutdatedEdgeIsPending
  <2> QED
    BY <2>3, <2>4
<1> QED
  BY <1>5, <1>8

LEMMA OtherEventInv ==
  ASSUME BusInv, NEW kind \in {"stats", "completed", "ignored"}, NEW gs \in SUBSET Game,
         NEW l \in League \union {NoLeague}, OtherEvent(kind, gs, l)
  PROVE  BusInv'
<1> USE DEF BusInv, OtherEvent, Publish, cacheVars, runVars
<1> DEFINE msg == [kind |-> kind, games |-> gs, league |-> l]
<1>1. msg \in Message
  BY DEF Message
<1>2. /\ channel' \in Seq(Message)
      /\ \A i \in DOMAIN channel : i \in DOMAIN channel' /\ channel'[i] = channel[i]
  BY <1>1 DEF BusTypes
<1>3. BusTypes' /\ HandlerRests' /\ InFlight(cache)' /\ InFlight(reader)'
  BY <1>2 DEF BusTypes, HandlerRests, InFlight
<1>4. \A g : Pending(g) => Pending(g)'
  BY <1>2 DEF Pending
<1>5. OutdatedEdgeIsPending'
  BY <1>4 DEF OutdatedEdgeIsPending
<1> QED
  BY <1>3, <1>5

\* The connection is lost between two events: all that was on its way is excused.
LEMMA DisconnectInv == ASSUME BusInv, Disconnect PROVE BusInv'
<1> USE DEF BusInv, Disconnect, runVars, cacheVars
<1>1. BusTypes' /\ HandlerRests' /\ InFlight(cache)' /\ InFlight(reader)'
  BY DEF BusTypes, HandlerRests, InFlight
<1>2. handler.msg.kind # "lines"
  BY DEF HandlerRests, Idle, NoMessage
<1>3. \A g : Pending(g) => g \in Queued
  BY <1>2 DEF Pending, Queued
<1>4. OutdatedEdgeIsPending'
  BY <1>3 DEF OutdatedEdgeIsPending
<1> QED
  BY <1>1, <1>4

LEMMA BusTakeInv == ASSUME BusInv, TakeMessage PROVE BusInv'
<1> USE DEF BusInv, TakeMessage, runVars, cacheVars
<1> DEFINE msg == Head(channel)
<1>1. /\ msg \in Message /\ msg = channel[1]
      /\ channel' \in Seq(Message)
      /\ \A i \in DOMAIN channel : i # 1 => i - 1 \in DOMAIN channel' /\ channel'[i - 1] = channel[i]
  BY DEF BusTypes
<1>2. handler' = Handling(msg)
  OBVIOUS
<1> HIDE DEF msg
<1>3. \/ handler' = Idle /\ msg.kind # "lines"
      \/ /\ handler'.at \in {"marking", "requesting"} /\ handler'.msg = msg
         /\ handler'.todo = msg.games /\ (msg.kind = "lines" => handler'.at = "marking")
         /\ handler' = [at |-> handler'.at, msg |-> handler'.msg, todo |-> handler'.todo,
                         affected |-> handler'.affected]
  BY <1>1, <1>2 DEF Handling, FirstPlace, Message
<1>4. BusTypes'
  <2>1. msg.games \in SUBSET Game
    BY <1>1 DEF Message
  <2>2. CASE handler' = Idle
    BY <1>1, <2>2 DEF BusTypes, Idle, NoMessage, Message, HandlerPlace
  <2>3. CASE handler' # Idle
    BY <1>1, <1>3, <2>1, <2>3 DEF BusTypes, HandlerPlace
  <2> QED
    BY <2>2, <2>3
<1>5. HandlerRests'
  BY <1>3 DEF HandlerRests, Idle
<1>6. InFlight(cache)' /\ InFlight(reader)'
  BY DEF InFlight
<1>7. ASSUME NEW g, Pending(g) PROVE Pending(g)'
  <2>1. handler.msg.kind # "lines"
    BY DEF HandlerRests, Idle, NoMessage
  <2>2. PICK i \in DOMAIN channel : channel[i].kind = "lines" /\ g \in channel[i].games
    BY <1>7, <2>1 DEF Pending
  <2>3. CASE i = 1
    BY <1>1, <1>3, <2>2, <2>3 DEF Pending
  <2>4. CASE i # 1
    BY <1>1, <2>2, <2>4 DEF Pending
  <2> QED
    BY <2>3, <2>4
<1>8. OutdatedEdgeIsPending'
  BY <1>7 DEF OutdatedEdgeIsPending
<1> QED
  BY <1>4, <1>5, <1>6, <1>8

LEMMA MarkStaleInv == ASSUME BusInv, NEW g \in Game, MarkStale(g) PROVE BusInv'
<1> USE DEF BusInv, MarkStale, busVars, cacheVars
<1>1. /\ handler'.at = "marking" /\ handler'.msg = handler.msg
      /\ handler'.todo = handler.todo \ {g} /\ handler'.affected = handler.affected
      /\ handler' = [at |-> handler'.at, msg |-> handler'.msg, todo |-> handler'.todo,
                      affected |-> handler'.affected]
  BY DEF BusTypes
<1>2. cache' \in {None} \union Dashboard /\ reader' \in {None} \union Dashboard
  BY DEF BusTypes, Behind, Dashboard
<1>3. BusTypes'
  BY <1>1, <1>2 DEF BusTypes, HandlerPlace, EdgesOf
<1>4. HandlerRests' /\ InFlight(cache)' /\ InFlight(reader)'
  BY <1>1 DEF HandlerRests, InFlight
<1>5. \A h : h # g /\ Pending(h) => Pending(h)'
  BY <1>1 DEF Pending
<1>6. OutdatedEdgeIsPending'
  BY <1>5 DEF OutdatedEdgeIsPending, EdgesOf
<1> QED
  BY <1>3, <1>4, <1>6

\* The handler goes on to its next call.
LEMMA HandlerMovesOn ==
  ASSUME BusInv, MarkingDone \/ Invalidate \/ RequestReruns
  PROVE  BusInv'
<1> USE DEF BusInv, MarkingDone, Invalidate, RequestReruns, busVars, runVars,
            cacheVars
<1>1. \/ handler' = Idle
      \/ /\ handler'.at \in {"invalidating", "requesting"} /\ handler'.msg = handler.msg
         /\ handler'.todo = handler.todo /\ handler'.affected = handler.affected
         /\ handler' = [at |-> handler'.at, msg |-> handler'.msg, todo |-> handler'.todo,
                         affected |-> handler'.affected]
  BY DEF BusTypes
<1>2. handler' = Idle => handler.msg.kind # "lines" \/ handler.todo = {}
  BY DEF HandlerRests
<1>3. cache' \in {None} \union Dashboard /\ reader' \in {None} \union Dashboard
  BY DEF BusTypes, Missed, Dashboard
<1>4. BusTypes'
  BY <1>1, <1>3 DEF BusTypes, HandlerPlace, Idle, NoMessage, Message
<1>5. HandlerRests'
  BY <1>1 DEF HandlerRests, Idle
<1>6. InFlight(cache)' /\ InFlight(reader)'
  BY DEF InFlight, Missed, BusTypes, Dashboard
<1>7. \A g : Pending(g) => Pending(g)'
  BY <1>1, <1>2 DEF Pending
<1>8. OutdatedEdgeIsPending'
  BY <1>7 DEF OutdatedEdgeIsPending
<1> QED
  BY <1>4, <1>5, <1>6, <1>8

\* The rest of the event is given up: its games, and what the caches miss, are
\* excused.
LEMMA HandlerFailsInv == ASSUME BusInv, HandlerFails PROVE BusInv'
<1> USE DEF BusInv, HandlerFails, busVars, runVars, cacheVars
<1>1. cache' \in {None} \union Dashboard /\ reader' \in {None} \union Dashboard
  BY DEF BusTypes, Missed, Dashboard
<1>2. BusTypes' /\ HandlerRests'
  BY <1>1 DEF BusTypes, HandlerRests, HandlerPlace, Idle, NoMessage, Message
<1>3. InFlight(cache)' /\ InFlight(reader)'
  BY DEF InFlight, Missed, BusTypes, Dashboard
<1>4. \A g : Pending(g) => Pending(g)' \/ g \in excused'
  BY DEF Pending
<1>5. OutdatedEdgeIsPending'
  BY <1>4 DEF OutdatedEdgeIsPending
<1> QED
  BY <1>2, <1>3, <1>5

LEMMA RunInsertsInv == ASSUME BusInv, NEW g \in Game, RunInserts(g) PROVE BusInv'
<1> USE DEF BusInv, RunInserts, busVars, cacheVars
<1> DEFINE late == read[g] = "outdated"
           edge == [game |-> g, outdated |-> late]
<1>1. edge \in Edge /\ edge.game = g /\ edge.outdated = late
  <2>1. late \in BOOLEAN
    OBVIOUS
  <2> HIDE DEF late
  <2> QED
    BY <2>1 DEF Edge
<1>2. fresh' = fresh \union {edge}
  OBVIOUS
<1>3. excused \subseteq excused' /\ (late => Pending(g) \/ g \in excused')
  OBVIOUS
<1> HIDE DEF edge
<1>4. read' \in [Game -> ReadState]
  BY DEF BusTypes, ReadState
<1>5. BusTypes' /\ HandlerRests' /\ InFlight(cache)' /\ InFlight(reader)'
  BY <1>1, <1>2, <1>4 DEF BusTypes, HandlerRests, InFlight
<1>6. \A h : Pending(h) => Pending(h)'
  BY DEF Pending
<1>7. OutdatedEdgeIsPending'
  <2> HIDE DEF late
  <2> QED
    BY <1>1, <1>2, <1>3, <1>6 DEF OutdatedEdgeIsPending
<1> QED
  BY <1>5, <1>7

\* The steps of runs and readers that insert no edge.
LEMMA BusFrame ==
  ASSUME BusInv, UNCHANGED <<fresh, channel, handler, excused>>,
         read' \in [Game -> ReadState],
         cache' \in {None, cache, reader},
         reader' \in {None, reader, [behind |-> FALSE, missed |-> FALSE]}
  PROVE  BusInv'
<1> USE DEF BusInv
<1> DEFINE new == [behind |-> FALSE, missed |-> FALSE]
<1>0. new \in Dashboard
  <2>1. FALSE \in BOOLEAN
    OBVIOUS
  <2> QED
    BY <2>1 DEF Dashboard
<1>1. ~new.behind /\ reader' \in {None, reader, new}
  OBVIOUS
<1> HIDE DEF new
<1>2. BusTypes' /\ HandlerRests'
  BY <1>0, <1>1 DEF BusTypes, HandlerRests
<1>3. InFlight(cache)' /\ InFlight(reader)'
  BY <1>1 DEF InFlight
<1>4. \A h : Pending(h) => Pending(h)'
  BY DEF Pending
<1>5. OutdatedEdgeIsPending'
  BY <1>4 DEF OutdatedEdgeIsPending
<1> QED
  BY <1>2, <1>3, <1>5

LEMMA BusNext == ASSUME BusInv, [SubscriberNext]_subscriberVars PROVE BusInv'
<1>0. read \in [Game -> ReadState]
  BY DEF BusInv, BusTypes
<1>1. ASSUME NEW gs \in SUBSET Game, NEW l \in League \union {NoLeague},
             \/ \E live \in BOOLEAN : LinesMove(gs, l, live)
             \/ \E kind \in {"stats", "completed", "ignored"} : OtherEvent(kind, gs, l)
      PROVE  BusInv'
  BY <1>1, LinesMoveInv, OtherEventInv
<1>2. CASE Disconnect
  BY <1>2, DisconnectInv
<1>3. CASE Reconnect
  BY <1>0, <1>3, BusFrame DEF Reconnect, runVars, cacheVars
<1>4. CASE HandlerStep
  BY <1>4, BusTakeInv, MarkStaleInv, HandlerMovesOn, HandlerFailsInv DEF HandlerStep
<1>5. ASSUME NEW g \in Game, RunReads(g) \/ RunDrops(g) PROVE BusInv'
  BY <1>0, <1>5, BusFrame
     DEF RunReads, RunDrops, busVars, cacheVars, ReadState
<1>6. ASSUME NEW g \in Game, RunInserts(g) PROVE BusInv'
  BY <1>6, RunInsertsInv
<1>7. CASE ReaderReads \/ ReaderStores \/ CacheExpires
  BY <1>0, <1>7, BusFrame
     DEF ReaderReads, ReaderStores, CacheExpires, busVars, runVars
<1>8. CASE UNCHANGED subscriberVars
  BY <1>0, <1>8, BusFrame DEF subscriberVars, busVars, runVars, cacheVars
<1> QED
  BY <1>1, <1>2, <1>3, <1>4, <1>5, <1>6, <1>7, <1>8 DEF SubscriberNext

\* Where the news of a moved line still is, in every reachable state: on the
\* channel, with the handler, or excused; and what the caches then hold.
THEOREM BusInvariant == SubscriberSpec => []BusInv
<1> QED
  BY BusInit, BusNext, PTL DEF SubscriberSpec

\* A fresh edge of moved lines is about to be flagged: in whatever order edges
\* are inserted, events come and are handled, and whatever fails or is lost.
THEOREM OutdatedIsPending == SubscriberSpec => []OutdatedEdgeIsPending
<1>1. BusInv => OutdatedEdgeIsPending
  BY DEF BusInv
<1> QED
  BY <1>1, BusInvariant, PTL

\* A cached dashboard that shows flagged edges is about to be dropped.
THEOREM CacheIsInFlight == SubscriberSpec => []CacheBehindIsInFlight
<1>1. BusInv => CacheBehindIsInFlight
  BY DEF BusInv, InFlight, CacheBehindIsInFlight
<1> QED
  BY <1>1, BusInvariant, PTL

-----------------------------------------------------------------------------
(***************************************************************************)
(* RerunCoordinator.                                                       *)
(***************************************************************************)

\* A timer has the number of its request, and no other timer has it.
Numbered ==
  /\ requests \in Nat /\ stoppedAt \in Nat /\ stoppedAt <= requests
  /\ asked \in [EventLeague -> Nat]
  /\ \A t \in timers :
       /\ t \in [league : EventLeague, at : TimerPlace, request : Nat]
       /\ t.request <= requests
  /\ \A t, u \in timers : t.request = u.request => t = u

\* Until stop() has cleared the map, the only live timer of a league is the
\* one the map holds.
Latest == stopping # "stopped" => \A t \in timers : t.league \in known /\ t.request = asked[t.league]

\* And a timer past the check of the cooldown is of a league that still is
\* out of it.
Warm ==
  stopping # "stopped" =>
    \A t \in timers : t.at \in {"checking", "starting"} => t.league \notin cooling

\* What stop() has not cancelled was requested since it began, or is still to
\* be visited; a map that has changed under it has grown.
Walk ==
  stopping = "cancelling" =>
    /\ walked \subseteq known
    /\ known # walked => requests > stoppedAt
    /\ known = walked => \A t \in timers : t.request > stoppedAt \/ t.league \in left

RerunInv ==
  /\ Numbered
  /\ Latest
  /\ Warm
  /\ Walk
  /\ SurvivorsAreLate

LEMMA RerunInit == CoordinatorInit => RerunInv
BY DEF CoordinatorInit, RerunInv, Numbered, Latest, Warm, Walk, SurvivorsAreLate

LEMMA ArmedIsAll ==
  ASSUME RerunInv, stopping # "stopped", NEW l \in EventLeague
  PROVE  Armed(l) = {t \in timers : t.league = l}
BY DEF RerunInv, Latest, Armed, TimersOf

LEMMA RequestInv == ASSUME RerunInv, NEW l \in EventLeague, Request(l) PROVE RerunInv'
<1> USE DEF RerunInv, Request, stopVars
<1> DEFINE new == NewTimer(l, requests + 1)
<1>1. /\ requests \in Nat /\ requests' = requests + 1
      /\ new \in [league : EventLeague, at : TimerPlace, request : Nat]
      /\ new.league = l /\ new.at = "sleeping" /\ new.request = requests + 1
  BY DEF Numbered, NewTimer, TimerPlace
<1>2. timers' = (timers \ Armed(l)) \union {new} /\ known' = known \union {l}
  BY <1>1
<1> HIDE DEF new
<1>3. asked' = [asked EXCEPT ![l] = requests + 1]
  BY <1>1
<1>4. Numbered'
  BY <1>1, <1>2, <1>3 DEF Numbered
<1>5. Latest'
  BY <1>1, <1>2, <1>3, ArmedIsAll DEF Latest, Numbered
<1>6. Warm'
  BY <1>1, <1>2 DEF Warm
<1>7. Walk'
  BY <1>1, <1>2 DEF Walk, Numbered
<1>8. SurvivorsAreLate'
  BY <1>1, <1>2 DEF SurvivorsAreLate, Numbered
<1> QED
  BY <1>4, <1>5, <1>6, <1>7, <1>8

\* A timer passes a check; only one of a league out of its cooldown passes the
\* first.
LEMMA MoveTimerInv ==
  ASSUME RerunInv, NEW t \in timers, NEW place \in {"checking", "starting"},
         place = "starting" => t.at = "checking",
         place = "checking" => t.league \notin cooling,
         MoveTimer(t, place)
  PROVE  RerunInv'
<1> USE DEF RerunInv, MoveTimer, leagueVars, stopVars
<1> DEFINE moved == [t EXCEPT !.at = place]
<1>1. /\ moved \in [league : EventLeague, at : TimerPlace, request : Nat]
      /\ moved.league = t.league /\ moved.request = t.request /\ moved.at = place
  BY DEF Numbered, TimerPlace
<1>2. timers' = (timers \ {t}) \union {moved}
  OBVIOUS
<1> HIDE DEF moved
<1>3. Numbered'
  BY <1>1, <1>2 DEF Numbered
<1>4. Latest'
  BY <1>1, <1>2 DEF Latest
<1>5. Warm'
  BY <1>1, <1>2 DEF Warm
<1>6. Walk'
  BY <1>1, <1>2 DEF Walk
<1>7. SurvivorsAreLate'
  BY <1>1, <1>2 DEF SurvivorsAreLate
<1> QED
  BY <1>3, <1>4, <1>5, <1>6, <1>7

\* Timers that end, cooldowns that begin for a league without another timer,
\* and cooldowns that end.
LEMMA TimersEndInv ==
  ASSUME RerunInv, timers' \subseteq timers,
         stopping # "stopped" =>
           \A l \in cooling' \ cooling : \A u \in timers' : u.league # l,
         UNCHANGED <<known, requests, asked, stopVars>>
  PROVE  RerunInv'
<1> USE DEF RerunInv, stopVars
<1>1. Numbered' /\ Latest' /\ Walk' /\ SurvivorsAreLate'
  BY DEF Numbered, Latest, Walk, SurvivorsAreLate
<1>2. Warm'
  BY DEF Warm
<1> QED
  BY <1>1, <1>2

\* The timer that starts a run is its league's only one.
LEMMA LaunchInv == ASSUME RerunInv, NEW t \in timers, Launch(t) PROVE RerunInv'
<1> USE DEF Launch, EndTimer
<1>1. \A u \in timers : stopping # "stopped" /\ u.league = t.league => u = t
  BY DEF RerunInv, Latest, Numbered
<1> QED
  BY <1>1, TimersEndInv DEF stopVars

LEMMA StopBeginsInv == ASSUME RerunInv, StopBegins PROVE RerunInv'
<1> USE DEF RerunInv, StopBegins, timerVars, leagueVars
<1>1. Numbered' /\ Latest' /\ Warm'
  BY DEF Numbered, Latest, Warm
<1>2. Walk' /\ SurvivorsAreLate'
  BY DEF Walk, Latest, SurvivorsAreLate
<1> QED
  BY <1>1, <1>2

\* The visited league is left with no timer at all.
LEMMA StopVisitsInv ==
  ASSUME RerunInv, NEW l \in EventLeague, StopVisits(l)
  PROVE  RerunInv'
<1> USE DEF RerunInv, StopVisits
<1>1. timers' = {t \in timers : t.league # l}
  BY ArmedIsAll
<1>2. Numbered' /\ Latest' /\ Warm'
  BY <1>1 DEF Numbered, Latest, Warm
<1>3. Walk' /\ SurvivorsAreLate'
  BY <1>1 DEF Walk, SurvivorsAreLate
<1> QED
  BY <1>2, <1>3

\* stop() leaves its walk: it has visited every league, or a request was made.
LEMMA StopLeavesInv ==
  ASSUME RerunInv, StopRaises \/ StopEnds
  PROVE  RerunInv'
<1> USE DEF RerunInv, StopRaises, StopEnds, timerVars, leagueVars
<1>1. Numbered' /\ Latest' /\ Warm' /\ Walk'
  BY DEF Numbered, Latest, Warm, Walk
<1>2. SurvivorsAreLate'
  BY DEF Walk, SurvivorsAreLate
<1> QED
  BY <1>1, <1>2

LEMMA RerunNext == ASSUME RerunInv, [CoordinatorNext]_coordinatorVars PROVE RerunInv'
<1>1. ASSUME NEW t \in timers, Fire(t) \/ FindSchedule(t) PROVE RerunInv'
  BY <1>1, MoveTimerInv DEF Fire, FindSchedule
<1>2. ASSUME NEW t \in timers,
             FireSuppressed(t) \/ FireUnscheduled(t) \/ StartRefused(t)
      PROVE  RerunInv'
  BY <1>2, TimersEndInv
     DEF FireSuppressed, FireUnscheduled, StartRefused, EndTimer, stopVars
<1>3. ASSUME NEW t \in timers, Launch(t) PROVE RerunInv'
  BY <1>3, LaunchInv
<1>4. ASSUME NEW l \in EventLeague, Request(l) PROVE RerunInv'
  BY <1>4, RequestInv
<1>5. ASSUME NEW l \in EventLeague,
             CooldownEnds(l) \/ ToggleSchedule(l) \/ OtherRun(l)
      PROVE  RerunInv'
  BY <1>5, TimersEndInv
     DEF CooldownEnds, ToggleSchedule, OtherRun, timerVars
<1>6. CASE StopBegins
  BY <1>6, StopBeginsInv
<1>7. CASE StopStep
  BY <1>7, StopVisitsInv, StopLeavesInv DEF StopStep
<1>8. CASE UNCHANGED coordinatorVars
  BY <1>8, TimersEndInv DEF coordinatorVars, timerVars, leagueVars
<1> QED
  BY <1>1, <1>2, <1>3, <1>4, <1>5, <1>6, <1>7, <1>8 DEF CoordinatorNext, TimerStep

\* Before the map is cleared a league has one live timer, the one of its last
\* request, and a timer past the check of the cooldown stays out of it.
THEOREM RerunInvariant == CoordinatorSpec => []RerunInv
<1> QED
  BY RerunInit, RerunNext, PTL DEF CoordinatorSpec

\* A timer that outlives stop() was requested after stop() began, and stop()
\* fails only if one was: whatever requests come while it walks.
THEOREM SurvivorsLate == CoordinatorSpec => []SurvivorsAreLate
<1>1. RerunInv => SurvivorsAreLate
  BY DEF RerunInv
<1> QED
  BY <1>1, RerunInvariant, PTL

\* No EVENT run starts inside the cooldown of another while the map holds the
\* timers: cancellations, toggles and refusals between the check and start_run
\* do not matter.
THEOREM RunsAreSpaced == CoordinatorSpec => CooldownSpacing
<1> DEFINE Spaced ==
      \A t \in timers :
        t.request \in launched' \ launched /\ stopping # "stopped" => t.league \notin cooling
<1>1. ASSUME RerunInv, [CoordinatorNext]_coordinatorVars PROVE [Spaced]_coordinatorVars
  <2>1. ASSUME NEW u \in timers, Launch(u) PROVE Spaced
    BY <1>1, <2>1 DEF RerunInv, Numbered, Warm, Launch
  <2>2. CASE launched' = launched
    BY <2>2
  <2>3. \/ UNCHANGED coordinatorVars \/ launched' = launched
        \/ \E u \in timers : Launch(u)
    BY <1>1 DEF CoordinatorNext, TimerStep, Fire, FireSuppressed,
       FindSchedule, FireUnscheduled, StartRefused, MoveTimer,
       Request, CooldownEnds, ToggleSchedule, OtherRun,
       StopBegins, StopStep, StopVisits, StopRaises,
       StopEnds, timerVars
  <2> QED
    BY <2>1, <2>2, <2>3
<1> QED
  BY <1>1, RerunInvariant, PTL DEF CoordinatorSpec, CooldownSpacing
=============================================================================
