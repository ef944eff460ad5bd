-------------------------- MODULE TumblingWindows --------------------------
(***************************************************************************)
(* What feature-service's windowing promises, without topic, batches, sweeps  *)
(* and awaits: each event that arrives is put into its entity's open window;  *)
(* windows follow each other on a grid of fixed step, close when they are due *)
(* and only with events in them; the open ones, and nothing else, are gone     *)
(* when the process dies.                                                    *)
(***************************************************************************)
EXTENDS Naturals

CONSTANTS
  Entity,
  WindowSize, \* per entity, the age at which a window may close
  WindowStep, \* per entity, the step of the grid: WindowSize, or less
  Arrival     \* the events that may arrive: records with an entity and a time `at`

VARIABLES
  clock,
  current,    \* per entity its open window, [start, events]: at most one
  closed,     \* the windows closed, [entity, start, events]
  gone        \* events that were in an open window when the process died

windowVars == <<clock, current, closed, gone>>

CurrentEvents == UNION {w.events : w \in UNION {current[e] : e \in Entity}}
ClosedEvents  == UNION {c.events : c \in closed}

WindowsInit ==
  /\ clock = 0 /\ current = [e \in Entity |-> {}] /\ closed = {} /\ gone = {}

Advance ==
  /\ clock' = clock + 1
  /\ UNCHANGED <<current, closed, gone>>

\* the first event of an entity opens its first window
Arrive(ev) ==
  /\ ev.at = clock /\ ev \notin CurrentEvents \cup ClosedEvents \cup gone
  /\ current' = [current EXCEPT ![ev.entity] =
       IF @ = {} THEN {[start |-> clock, events |-> {ev}]}
       ELSE {[w EXCEPT !.events = @ \cup {ev}] : w \in @}]
  /\ UNCHANGED <<clock, closed, gone>>

Close(e) ==
  \E w \in current[e] :
    /\ w.start + WindowSize[e] <= clock
    /\ current' = [current EXCEPT ![e] = {[start |-> w.start + WindowStep[e], events |-> {}]}]
    /\ closed' = closed \cup {[entity |-> e, start |-> w.start, events |-> x] : x \in {w.events} \ {{}}}
    /\ UNCHANGED <<clock, gone>>

Die ==
  /\ gone' = gone \cup CurrentEvents
  /\ current' = [e \in Entity |-> {}]
  /\ UNCHANGED <<clock, closed>>

WindowsNext ==
  \/ Advance \/ Die
  \/ \E ev \in Arrival : Arrive(ev)
  \/ \E e \in Entity : Close(e)

WindowsSpec == WindowsInit /\ [][WindowsNext]_windowVars
=============================================================================
