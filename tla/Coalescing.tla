------------------------------ MODULE Coalescing ------------------------------
(***************************************************************************)
(* What the live debouncer promises, with no mention of timers: whatever   *)
(* happens for a key after the last piece of work on it began is served by *)
(* one more piece of work, begun later; work on a key never overlaps       *)
(* itself; nothing is begun that nobody asked for; and everything asked    *)
(* for is served as long as the component is not stopped.                  *)
(***************************************************************************)

CONSTANT Key

VARIABLES
  dirty,    \* the keys something has happened for since their last work began
  busy,     \* the keys being worked on
  stopped   \* the component is being stopped

coalescingVars == <<dirty, busy, stopped>>

Init ==
  /\ dirty = {}
  /\ busy = {}
  /\ stopped = FALSE

Ask(k) ==
  /\ dirty' = dirty \union {k}
  /\ UNCHANGED <<busy, stopped>>

Begin(k) ==
  /\ k \in dirty \ busy
  /\ dirty' = dirty \ {k}
  /\ busy' = busy \union {k}
  /\ UNCHANGED stopped

End(k) ==
  /\ k \in busy
  /\ busy' = busy \ {k}
  /\ UNCHANGED <<dirty, stopped>>

\* Stopping may abandon work.
Stop ==
  /\ stopped' = TRUE
  /\ busy' \in SUBSET busy
  /\ UNCHANGED dirty

Next ==
  \/ \E k \in Key : Ask(k) \/ Begin(k) \/ End(k)
  \/ Stop

Spec == Init /\ [][Next]_coalescingVars

\* Work that has been asked for begins unless the component stops, and ends.
Fairness ==
  \A k \in Key :
    /\ WF_coalescingVars(~stopped /\ Begin(k))
    /\ WF_coalescingVars(End(k))

FairSpec == Spec /\ Fairness
=============================================================================
