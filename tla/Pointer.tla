------------------------------ MODULE Pointer ------------------------------
(***************************************************************************)
(* How an X11 master turns the motion of its pointer into the relative     *)
(* motion that it sends to the focused remote (x11.c).  While the inputs   *)
(* are grabbed the X server queues an event with the position for every    *)
(* motion, and the master puts the pointer back to the screen's centre, so *)
(* that there is always room to move.  One coordinate stands for both.     *)
(***************************************************************************)
EXTENDS Integers, Sequences

CONSTANTS
  Width,        \* screen_dimensions.x.max
  MaxStep,      \* bound: the longest motion of one event
  MaxMotion     \* bound: motion events in the queue

ASSUME PointerAssumption == {Width, MaxStep, MaxMotion} \subseteq Nat

screen_center == Width \div 2

VARIABLES
  pos,       \* where the X server has the pointer
  motion,    \* positions in the queued motion events
  phase,     \* "local", "waiting": focus_node waits for the clipboard, "remote"
  grabbed,   \* the pointer is grabbed
  last_seen_mousepos, saved_mousepos,
  drift,     \* history: motion sent less motion made, since the switch
  exact,     \* history: no position from before a warp was used after it
  seen       \* history: the first event since the grab, or since the switch,
             \* has been handled

pointervars == <<pos, motion, phase, grabbed, last_seen_mousepos, saved_mousepos,
                 drift, exact, seen>>

Abs(n) == IF n < 0 THEN -n ELSE n
Far(p) == Abs(p - screen_center) > 1

PointerInit ==
  /\ pos \in 0..Width /\ motion = <<>> /\ phase = "local" /\ grabbed = FALSE
  /\ last_seen_mousepos = 0 /\ saved_mousepos = 0
  /\ drift = 0 /\ exact = FALSE /\ seen = FALSE

\* The user moves the mouse; the X server stops the pointer at the edges.
UserMoves(d) ==
  LET p == IF pos + d < 0 THEN 0 ELSE IF pos + d > Width THEN Width ELSE pos + d
  IN /\ p # pos
     /\ grabbed => Len(motion) < MaxMotion
     /\ pos' = p
     /\ motion' = IF grabbed THEN Append(motion, p) ELSE motion
     /\ drift' = IF phase = "remote" /\ exact THEN drift - (p - pos) ELSE drift
     /\ UNCHANGED <<phase, grabbed, last_seen_mousepos, saved_mousepos, exact, seen>>

\* grab_inputs, in focus_node; ok: the X server grants both grabs.
GrabInputs(ok) ==
  /\ phase = "local" /\ Len(motion) < MaxMotion
  /\ saved_mousepos' = pos
  /\ phase' = "waiting" /\ grabbed' = ok
  /\ pos' = IF ok THEN screen_center ELSE pos
  /\ motion' = IF ok THEN Append(motion, screen_center) ELSE motion
  /\ exact' = (motion = <<>>) /\ seen' = FALSE /\ drift' = 0
  /\ UNCHANGED last_seen_mousepos

\* focus_node sets focused_node.  Motion counts from the event handled last, if
\* that is one of this grab.
Focus ==
  /\ phase = "waiting"
  /\ phase' = "remote" /\ seen' = FALSE
  /\ exact' = (exact /\ (seen \/ last_seen_mousepos = screen_center))
  /\ drift' = IF exact' THEN last_seen_mousepos - pos ELSE 0
  /\ UNCHANGED <<pos, motion, grabbed, last_seen_mousepos, saved_mousepos>>

\* ungrab_inputs, when the focus returns to the master.
UngrabInputs(restore_mousepos) ==
  /\ phase = "remote"
  /\ phase' = "local" /\ grabbed' = FALSE
  /\ pos' = IF restore_mousepos THEN saved_mousepos ELSE pos
  /\ drift' = 0 /\ exact' = FALSE /\ seen' = FALSE
  /\ UNCHANGED <<motion, last_seen_mousepos, saved_mousepos>>

\* handle_local_mousemove; EdgeSwitch has what mousepos_handler does.
LocalMousemove ==
  /\ phase # "remote" /\ motion # <<>>
  /\ last_seen_mousepos' = Head(motion)
  /\ motion' = Tail(motion)
  /\ seen' = TRUE
  /\ UNCHANGED <<pos, phase, grabbed, saved_mousepos, drift, exact>>

\* Mutant: last_seen_mousepos is that of the event also after a warp.
NextLastSeenOfEvent(x) == x

\* The value of last_seen_mousepos after an event at x.
NextLastSeen(x) == IF Far(x) THEN screen_center ELSE x

\* handle_grabbed_mousemove, with send_moverel and set_mousepos.
GrabbedMousemove ==
  LET x    == Head(motion)
      warp == Far(x)
      calm == exact /\ (warp => Len(motion) = 1)
  IN /\ phase = "remote" /\ motion # <<>>
     /\ seen' = TRUE
     /\ IF x = screen_center
        THEN /\ motion' = Tail(motion)
             /\ UNCHANGED <<pos, last_seen_mousepos, drift, exact>>
        ELSE /\ drift' = IF calm THEN drift + (x - last_seen_mousepos) ELSE 0
             /\ exact' = calm
             /\ last_seen_mousepos' = NextLastSeen(x)
             /\ pos' = IF warp THEN screen_center ELSE pos
             /\ motion' = IF warp /\ grabbed THEN Append(Tail(motion), screen_center)
                          ELSE Tail(motion)
     /\ UNCHANGED <<phase, grabbed, saved_mousepos>>

PointerNext ==
  \/ \E d \in -MaxStep..MaxStep : UserMoves(d)
  \/ \E b \in BOOLEAN : GrabInputs(b) \/ UngrabInputs(b)
  \/ Focus \/ LocalMousemove \/ GrabbedMousemove

PointerSpec == PointerInit /\ [][PointerNext]_pointervars

-----------------------------------------------------------------------------
\* Once the remote has the focus and the motion events are handled, the pointer
\* is next to the screen's centre, so that no edge of the master's screen stops
\* it; and what has been sent to the remote is what the mouse has moved, but for
\* the last motion if it led right to the centre, which goes with the next
\* event.  The second part holds until a warp overtakes an event that is still
\* queued, and if last_seen_mousepos was set in this grab or is the centre
\* (handle_grabbed_mousemove, grab_inputs, focus_node).
PointerFollows ==
  phase = "remote" /\ grabbed /\ motion = <<>> /\ seen =>
    /\ ~Far(pos)
    /\ exact => /\ drift = last_seen_mousepos - pos
                /\ pos # screen_center => drift = 0
=============================================================================
