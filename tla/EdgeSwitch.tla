----------------------------- MODULE EdgeSwitch -----------------------------
(***************************************************************************)
(* Switching by mouse (main.c): the pointer's arrivals at and departures   *)
(* from the edges of one node's screen, the ring of recent event times     *)
(* that each edge keeps, and the multi-tap test on it.  A switch away from *)
(* the master may wait for the clipboard, and the events handled meanwhile *)
(* re-enter check_edgeevents while its loop over the directions is halted. *)
(***************************************************************************)
EXTENDS Integers, Sequences, FiniteSets

CONSTANTS
  Directions,    \* directions considered
  HISTLEN,       \* EDGESTATE_HISTLEN
  Num, Window,   \* config->mouseswitch.num and .window
  StartTime,     \* time of the first event
  MaxTime,       \* bound: time of the last event
  MaxNest,       \* bound: nested calls of check_edgeevents
  MaxEvents      \* bound: events per direction

\* The configuration parser limits Num.  Entries of the ring that are still 0
\* must not look recent: get_microtime counts from the system's start.
ASSUME EdgeSwitchAssumption ==
  /\ Directions \subseteq {"LEFT", "RIGHT", "UP", "DOWN"}
  /\ HISTLEN \in Nat \ {0}
  /\ Num \in 1..(HISTLEN + 1) \div 2
  /\ Window \in Nat
  /\ StartTime \in Nat /\ StartTime > Window
  /\ MaxTime \in Nat
  /\ MaxNest \in Nat \ {0}
  /\ MaxEvents \in Nat

VARIABLES
  clock,      \* get_microtime
  edgemask,   \* node->edgemask
  ring,       \* node->edgehist[dir]: event_times, evidx and last_evtype
  loops,      \* the loops of check_edgeevents, innermost first
  log,        \* history: all events recorded per direction
  tried,      \* history: the arrival just handled, and what came of it
  reentered   \* history: check_edgeevents was called during a wait

vars == <<clock, edgemask, ring, loops, log, tried, reentered>>

Init ==
  /\ clock = StartTime
  /\ edgemask = {}
  /\ ring = [d \in Directions |->
               [times |-> [i \in 0..HISTLEN - 1 |-> 0], idx |-> 0, last |-> "DEPART"]]
  /\ loops = <<>>
  /\ log = [d \in Directions |-> <<>>]
  /\ tried = <<>>
  /\ reentered = FALSE

\* Mutant: the index wraps one too late.
RecordLateWrap(es, evtype, when) ==
  LET i == (es.idx + 1) % (HISTLEN + 1)
  IN IF evtype = es.last THEN es
     ELSE [times |-> [j \in 0..HISTLEN - 1 |-> IF j = i THEN when ELSE es.times[j]],
           idx |-> i % HISTLEN, last |-> evtype]

\* record_edgeevent: the new edge state; an event out of turn is ignored.
Record(es, evtype, when) ==
  LET i == (es.idx + 1) % HISTLEN
  IN IF evtype = es.last THEN es
     ELSE [times |-> [es.times EXCEPT ![i] = when], idx |-> i, last |-> evtype]

\* get_edgehist_entry.
Entry(es, rel) == es.times[(es.idx - rel + HISTLEN) % HISTLEN]

\* start_idx in trigger_edgeevent.
TapStart == (Num - 1) * 2

\* Mutant: the new mask is not stored.
PointerUnmasked(mask) ==
  LET todo == (edgemask \ mask) \cup (mask \ edgemask)
  IN /\ loops # <<>> => loops[1].waiting
     /\ Len(loops) < MaxNest
     /\ \A d \in todo : Len(log[d]) < MaxEvents
     /\ todo # {}
     /\ loops' = <<[todo |-> todo, mask |-> mask, waiting |-> FALSE]>> \o loops
     /\ reentered' = (reentered \/ loops # <<>>)
     /\ UNCHANGED <<clock, edgemask, ring, log, tried>>

\* check_edgeevents up to its loop, for a pointer at the edges in mask; two
\* opposite edges of a screen are not one point.
PointerAt(mask) ==
  LET todo == (edgemask \ mask) \cup (mask \ edgemask)
  IN /\ loops # <<>> => loops[1].waiting
     /\ Len(loops) < MaxNest
     /\ \A d \in todo : Len(log[d]) < MaxEvents
     /\ todo # {}
     /\ edgemask' = mask
     /\ loops' = <<[todo |-> todo, mask |-> mask, waiting |-> FALSE]>> \o loops
     /\ reentered' = (reentered \/ loops # <<>>)
     /\ UNCHANGED <<clock, ring, log, tried>>

\* direction_t order.
First(D) ==
  CHOOSE d \in D : \A x \in D \ {d} :
    \/ d = "LEFT"
    \/ d = "RIGHT" /\ x # "LEFT"
    \/ d = "UP" /\ x = "DOWN"

\* One turn of the loop: trigger_edgeevent, up to focus_neighbor.  A switch
\* away from the master may wait, which leaves the loop halted; a loop that is
\* through is taken off.
EdgeEvent(wait) ==
  LET loop   == loops[1]
      d      == First(loop.todo)
      evtype == IF d \in loop.mask THEN "ARRIVE" ELSE "DEPART"
      es     == Record(ring[d], evtype, clock)
      fresh  == evtype # ring[d].last
      fires  == fresh /\ evtype = "ARRIVE" /\ clock - Entry(es, TapStart) <= Window
      rest   == loop.todo \ {d}
  IN /\ loops # <<>> /\ ~loop.waiting
     /\ wait => fires
     /\ ring' = [ring EXCEPT ![d] = es]
     /\ log' = IF fresh THEN [log EXCEPT ![d] = Append(@, [type |-> evtype, time |-> clock])]
               ELSE log
     /\ tried' = IF evtype = "DEPART" THEN <<>>
                 ELSE <<[dir |-> d, time |-> clock,
                         outcome |-> CASE ~fresh -> "ignored"
                                       [] fresh /\ fires -> "switch"
                                       [] fresh /\ ~fires -> "recorded"]>>
     /\ loops' = IF rest = {} /\ ~wait THEN Tail(loops)
                 ELSE [loops EXCEPT ![1].todo = rest, ![1].waiting = wait]
     /\ UNCHANGED <<clock, edgemask, reentered>>

\* The clipboard wait of the innermost loop ends.
Resume ==
  /\ loops # <<>> /\ loops[1].waiting
  /\ loops' = IF loops[1].todo = {} THEN Tail(loops)
              ELSE [loops EXCEPT ![1].waiting = FALSE]
  /\ UNCHANGED <<clock, edgemask, ring, log, tried, reentered>>

Tick ==
  /\ clock < MaxTime
  /\ clock' = clock + 1
  /\ tried' = <<>>
  /\ UNCHANGED <<edgemask, ring, loops, log, reentered>>

Masks == {D \in SUBSET Directions :
            ~({"LEFT", "RIGHT"} \subseteq D) /\ ~({"UP", "DOWN"} \subseteq D)}

Next ==
  \/ \E mask \in Masks : PointerAt(mask)
  \/ \E wait \in BOOLEAN : EdgeEvent(wait)
  \/ Resume
  \/ Tick

Spec == Init /\ [][Next]_vars

-----------------------------------------------------------------------------
\* The switch fires exactly when the pointer has now tapped the edge Num times
\* within Window: the definition of multi-tap in the sample configuration,
\* over the whole history instead of the ring (trigger_edgeevent,
\* record_edgeevent, get_edgehist_entry).
MultiTap ==
  tried # <<>> /\ tried[1].outcome # "ignored" =>
    LET events == log[tried[1].dir]
        taps   == {i \in DOMAIN events : /\ events[i].type = "ARRIVE"
                                        /\ tried[1].time - events[i].time <= Window}
    IN tried[1].outcome = "switch" <=> Cardinality(taps) >= Num

\* Between two pointer positions the mask and the rings agree on which edges
\* the pointer is at, so that check_edgeevents finds no event out of sync; the
\* exception is a call made during the wait of another one, whose directions
\* the halted loop then takes up with its older mask.
InSync ==
  loops = <<>> /\ ~reentered =>
    \A d \in Directions : d \in edgemask <=> ring[d].last = "ARRIVE"
=============================================================================
