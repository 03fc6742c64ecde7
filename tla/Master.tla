------------------------------- MODULE Master -------------------------------
(***************************************************************************)
(* The enthrall master process: the life of its connections to the remotes *)
(* (set-up, failure, timed reconnection), the focus that decides which     *)
(* node receives keyboard and mouse input, and the hotkeys, input events,  *)
(* messages and timers that drive both (main.c, on the X11 event loop of   *)
(* x11.c).                                                                 *)
(*                                                                         *)
(* The process is single-threaded, and its functions call one another in   *)
(* the middle of their own updates: a full send queue met during a focus   *)
(* switch fails the remote, which itself moves the focus.  The process     *)
(* state is therefore one record, m, each C function is an operator from   *)
(* records to records composed as the C calls are, and an action is one    *)
(* event-loop callback.  Three things suspend a callback: the wait for a   *)
(* clipboard selection, which runs a nested event loop (frames), the loops *)
(* over all remotes (todo) and the loop over screen edges (edges); the     *)
(* last two exclude every other callback until they are done.              *)
(***************************************************************************)
EXTENDS Integers, Sequences, FiniteSets

CONSTANTS
  Remotes,         \* the remotes of the configuration file
  Enabled,         \* those that the -e/-d flags leave enabled
  MasterNode,      \* &config->master
  None,            \* NULL
  Directions,      \* the directions in which the topology has links
  Neighbors,       \* node->neighbors[dir], None where there is none
  Hotkeys,         \* the kinds of action that some hotkey is bound to
  MouseSwitch,     \* config->mouseswitch.type is MS_MULTITAP
  FocusHint,       \* config->focus_hint.type
  FadeSteps,       \* config->focus_hint.fade_steps
  ShowNullSwitch,  \* config->show_nullswitch
  MaxTries,        \* config->reconnect.max_tries
  MaxBacklog,      \* MAX_SEND_BACKLOG
  ScrollMult,      \* abs(rmt->scrollmult)
  MaxMods,         \* bound: modifier keys held during a switch
  Addr,            \* heap addresses that a scheduled_call may have
  Allocators,      \* malloc, as functions from the addresses in use
  MaxFades,        \* bound: pending brightness calls per node
  MaxNest          \* bound: depth of nested clipboard waits

Nodes == Remotes \cup {MasterNode}
HotkeyKinds == {"direction", "node", "previous", "reconnect", "halt", "quit",
                "clear", "loglevel"}
ConnStates == {"NEW", "SETTINGUP", "FAILED", "PERMFAILED", "CONNECTED"}

ASSUME MasterAssumption ==
  /\ MasterNode \notin Remotes
  /\ None \notin Remotes \cup {MasterNode} \cup Addr
  /\ Enabled \subseteq Remotes
  /\ Directions \subseteq {"LEFT", "RIGHT", "UP", "DOWN"}
  /\ Neighbors \in [Nodes \X Directions -> Nodes \cup {None}]
  /\ \A p \in Nodes \X Directions :   \* apply_topology skips disabled remotes
       Neighbors[p] # None => {p[1], Neighbors[p]} \cap (Remotes \ Enabled) = {}
  /\ Hotkeys \subseteq HotkeyKinds
  /\ MouseSwitch \in BOOLEAN
  /\ FocusHint \in {"none", "dim_inactive", "flash_active"}
  /\ ShowNullSwitch \in {"no", "yes", "hotkeyonly"}
  /\ FadeSteps \in Nat \ {0}
  /\ MaxTries \in Nat
  /\ MaxBacklog \in Nat \ {0}
  /\ ScrollMult \in Nat
  /\ MaxMods \in Nat
  /\ MaxFades \in Nat
  /\ MaxNest \in Nat
  /\ \A f \in Allocators :
        /\ f \in [SUBSET Addr -> Addr]
        /\ \A used \in SUBSET Addr : used # Addr => f[used] \notin used

VARIABLE m

(***************************************************************************)
(* What the outside world decides during one callback: the address malloc  *)
(* returns, which brightness call (if any) has come to occupy the memory   *)
(* that a stale timer handle points to, and whether the X server grants    *)
(* an input grab.                                                          *)
(***************************************************************************)
Env == [malloc : Allocators,
        hit    : IF FocusHint = "none" THEN {None} ELSE Nodes \cup {None},
        grabok : BOOLEAN]

(***************************************************************************)
(* A suspended call of get_clipboard_text: the switch to node `to' that    *)
(* asked for the text (with `mods' modifier keys held, `edge' when a       *)
(* screen edge caused it, `rest' the edges still to be looked at) or the   *)
(* forwarding of a clipboard that a remote has just sent.                  *)
(***************************************************************************)
Frames == [kind : {"focus", "forward"}, to : Remotes, mods : 0..MaxMods,
           edge : BOOLEAN, rest : SUBSET Directions]

MasterState ==
  [state     : [Remotes -> ConnStates],      \* rmt->state
   failcount : [Remotes -> Nat],             \* rmt->failcount
   chan      : [Remotes -> BOOLEAN],         \* msgchan open, sshpid > 0
   procs     : [Remotes -> Int],             \* ssh children not yet reaped
   queued    : [Remotes -> Nat],             \* msgchan.sendqueue.num_queued
   timer     : [Remotes -> Addr \cup {None}],\* rmt->reconnect_timer
   calls     : [Addr -> Remotes \cup {None}],\* scheduled reconnect_remote_cb
   fades     : [Nodes -> Nat],               \* scheduled set_brightness_cb
   focused   : Nodes,                        \* focused_node
   last      : Nodes,                        \* last_focused_node
   grab      : {"none", "held", "refused"},  \* outcome of the last (un)grab
   ownsel    : BOOLEAN,                      \* we own the X selection
   frames    : Seq(Frames),                  \* nested clipboard waits
   loop      : {"none", "reconnect", "halt", "clear", "loglevel"},
   todo      : SUBSET Remotes,               \* remotes the loop has yet to visit
   edges     : SUBSET Directions,            \* edges yet to be looked at
   status    : {"running", "exited", "aborted"},
   \* history, for the properties only:
   misused   : BOOLEAN,   \* a message was queued on a closed channel
   torn      : BOOLEAN,   \* the last switch was disturbed by a failure
   disturbed : BOOLEAN,   \* the focus moved during a clipboard wait
   robbed    : SUBSET Remotes]  \* whose call another's stale handle cancelled

-----------------------------------------------------------------------------
(***************************************************************************)
(* Timers (x11.c).  Only the reconnect calls have handles that the program *)
(* keeps; an address is in use while a call is pending there.              *)
(***************************************************************************)
Abort(s) == [s EXCEPT !.status = "aborted"]

\* rmt->reconnect_timer = schedule_call(reconnect_remote_cb, rmt, ...);
\* xmalloc aborts when memory is exhausted.
ScheduleReconnect(s, e, r) ==
  LET used == {a \in Addr : s.calls[a] # None}
      a    == e.malloc[used]
  IN IF used = Addr THEN Abort(s)
     ELSE [s EXCEPT !.calls[a] = r, !.timer[r] = a]

\* Mutant: the call stays in the list.
CancelForgotten(s, e, r) == s

\* cancel_call(rmt->reconnect_timer): the handle is compared with the
\* addresses of the pending calls and is left as it is.  A stale handle may
\* by now be the address of some other call.
CancelCall(s, e, r) ==
  LET h == s.timer[r]
      q == s.calls[h]
  IN IF q # None
     THEN [s EXCEPT !.calls[h] = None,
                    !.robbed = IF q = r THEN @ ELSE @ \cup {q}]
     ELSE IF e.hit # None
     THEN [s EXCEPT !.fades[e.hit] = IF @ = 0 THEN 0 ELSE @ - 1]
     ELSE s

-----------------------------------------------------------------------------
(***************************************************************************)
(* Connections.                                                            *)
(***************************************************************************)
\* Mutant: the inputs stay grabbed.
FocusMasterGrabbed(s) ==
  [s EXCEPT !.last = s.focused, !.focused = MasterNode,
            !.fades[MasterNode] = IF FocusHint = "none" THEN @ ELSE @ + FadeSteps,
            !.torn = FALSE, !.disturbed = TRUE]

\* focus_master, with indicate_switch(NULL, &config->master).
FocusMaster(s) ==
  [s EXCEPT !.grab = "none", !.last = s.focused, !.focused = MasterNode,
            !.fades[MasterNode] = IF FocusHint = "none" THEN @ ELSE @ + FadeSteps,
            !.torn = FALSE, !.disturbed = TRUE]

\* Mutant: the focus stays on the disconnected remote.
DisconnectKeepFocus(s, r) ==
  IF ~s.chan[r] THEN Abort(s)
  ELSE [s EXCEPT !.chan[r] = FALSE, !.queued[r] = 0, !.procs[r] = @ - 1]

\* disconnect_remote.  Closing a channel twice unreferences a freed fdmon
\* context: undefined, modelled as the failure of the assertion in fdmon_unref,
\* the outcome while the memory has not been reused.
DisconnectRemote(s, r) ==
  LET t == [s EXCEPT !.chan[r] = FALSE, !.queued[r] = 0, !.procs[r] = @ - 1]
  IN IF ~s.chan[r] THEN Abort(s)
     ELSE IF s.focused = r THEN FocusMaster(t) ELSE t

\* Mutant: one attempt too many.
FailRemoteOffByOne(s, e, r) ==
  LET d == DisconnectRemote(s, r)
      n == d.failcount[r] + 1
  IN IF n > MaxTries + 1
     THEN [d EXCEPT !.failcount[r] = n, !.state[r] = "PERMFAILED"]
     ELSE ScheduleReconnect(
            [d EXCEPT !.failcount[r] = n, !.state[r] = "FAILED"], e, r)

\* fail_remote: retry later, or give up after MaxTries failures in a row.
FailRemote(s, e, r) ==
  LET d == DisconnectRemote(s, r)
      n == d.failcount[r] + 1
  IN IF n > MaxTries
     THEN [d EXCEPT !.failcount[r] = n, !.state[r] = "PERMFAILED"]
     ELSE ScheduleReconnect(
            [d EXCEPT !.failcount[r] = n, !.state[r] = "FAILED"], e, r)

\* mc_enqueue_message, k times, with the queue's limit not yet looked at.
Queue(s, r, k) ==
  [s EXCEPT !.queued[r] = @ + k, !.misused = @ \/ (k > 0 /\ ~s.chan[r])]

\* enqueue_message, k times in a row: the message that exceeds the backlog
\* fails the remote; the callers' loops go on with the messages that remain.
Enqueue(s, e, r, k) ==
  LET room == MaxBacklog - s.queued[r]
      f    == FailRemote(Queue(s, r, room + 1), e, r)
      rest == k - (room + 1)
  IN IF k <= room THEN Queue(s, r, k)
     ELSE IF rest <= MaxBacklog THEN Queue(f, r, rest)
     ELSE Abort(Queue(f, r, rest))

\* setup_remote: a new socket pair, a forked ssh, an empty channel with the
\* SETUP message queued.
SetupRemote(s, r) ==
  [s EXCEPT !.state[r] = "SETTINGUP", !.chan[r] = TRUE, !.procs[r] = @ + 1,
            !.queued[r] = 1, !.robbed = @ \ {r}]

\* Mutant: a connection that is being set up is not closed first.
ReconnectOnTop(s, e, r) ==
  LET c == IF s.timer[r] # None THEN CancelCall(s, e, r) ELSE s
  IN IF s.state[r] = "CONNECTED" THEN s
     ELSE SetupRemote([c EXCEPT !.failcount[r] = 0], r)

\* reconnect_remote: note that the cancelled handle is not reset to NULL.
ReconnectRemote(s, e, r) ==
  LET c == IF s.timer[r] # None THEN CancelCall(s, e, r) ELSE s
      d == IF c.state[r] = "SETTINGUP" THEN DisconnectRemote(c, r) ELSE c
  IN IF s.state[r] = "CONNECTED" THEN s
     ELSE SetupRemote([d EXCEPT !.failcount[r] = 0], r)

-----------------------------------------------------------------------------
(***************************************************************************)
(* Focus.                                                                  *)
(***************************************************************************)
\* set_node_display_brightness.
SetBrightness(s, e, n) == IF n \in Remotes THEN Enqueue(s, e, n, 1) ELSE s

\* transition_brightness: the first level now, FadeSteps more by timers.
TransitionBrightness(s, e, n) ==
  [SetBrightness(s, e, n) EXCEPT !.fades[n] = @ + FadeSteps]

IndicateSwitch(s, e, from, to) ==
  CASE FocusHint = "none" -> s
    [] FocusHint = "flash_active" -> TransitionBrightness(s, e, to)
    [] FocusHint = "dim_inactive" ->
         TransitionBrightness(
           IF from # to THEN TransitionBrightness(s, e, from) ELSE s, e, to)

\* Mutant: every switch away from a remote ungrabs.
RegrabTooEager(s, e, from, to) ==
  [s EXCEPT !.grab = IF to = MasterNode \/ from # MasterNode THEN "none"
                     ELSE IF e.grabok THEN "held" ELSE "refused"]

\* grab_inputs / ungrab_inputs as focus_node calls them; the result of
\* grab_inputs is ignored.
Regrab(s, e, from, to) ==
  [s EXCEPT !.grab = IF to = MasterNode THEN "none"
                     ELSE IF from # MasterNode THEN @
                     ELSE IF e.grabok THEN "held" ELSE "refused"]

TransferModifiers(s, e, from, to, k) ==
  LET t == IF from \in Remotes THEN Enqueue(s, e, from, k) ELSE s
  IN IF to \in Remotes THEN Enqueue(t, e, to, k) ELSE t

\* edgeswitch_reposition: a MOVEABS message, or set_mousepos on the master.
Reposition(s, e) ==
  IF s.focused \in Remotes THEN Enqueue(s, e, s.focused, 1) ELSE s

\* The end of focus_node, after the clipboard, and what trigger_edgeevent
\* does when it returns.
CompleteSwitch(s, e, from, to, k, edge, stale) ==
  LET t == TransferModifiers(s, e, from, to, k)
      u == [t EXCEPT !.last = t.focused, !.focused = to, !.disturbed = TRUE,
                     !.torn = /\ to \in Remotes
                              /\ \/ stale
                                 \/ from \in Remotes /\ t.torn
                                 \/ t.focused # from
                                 \/ t.state[to] # "CONNECTED"]
  IN IF edge THEN Reposition(u, e) ELSE u

\* get_clipboard_text when another client owns the selection.
AwaitSelection(s, kind, to, k, edge) ==
  [s EXCEPT !.frames = <<[kind |-> kind, to |-> to, mods |-> k, edge |-> edge,
                          rest |-> s.edges]>> \o @,
            !.edges = {},
            !.disturbed = @ /\ s.frames # <<>>]

\* focus_node; edge tells trigger_edgeevent's call from action_cb's.
FocusNode(s, e, n, k, edge) ==
  LET absent == n \in Remotes /\ s.state[n] # "CONNECTED"
      p    == IF absent THEN ReconnectRemote(s, e, n) ELSE s
      from == p.focused
      to   == IF n = None \/ absent THEN from ELSE n
      show == \/ to # from
              \/ ShowNullSwitch = "yes"
              \/ ShowNullSwitch = "hotkeyonly" /\ ~edge
      i    == IF show THEN IndicateSwitch(p, e, from, to) ELSE p
      g    == Regrab(i, e, from, to)
  IN IF to = from THEN i
     ELSE IF from \in Remotes
     THEN CompleteSwitch(Enqueue(g, e, from, 1), e, from, to, k, edge, FALSE)
     ELSE IF g.ownsel
     THEN CompleteSwitch(Enqueue(g, e, to, 1), e, from, to, k, edge, FALSE)
     ELSE AwaitSelection(g, "focus", to, k, edge)

-----------------------------------------------------------------------------
(***************************************************************************)
(* Callbacks.  X events are handled in the event loop and in the nested    *)
(* loop of a clipboard wait; messages and timers only in the former.       *)
(***************************************************************************)
Init ==
  m = [state     |-> [r \in Remotes |-> IF r \in Enabled THEN "SETTINGUP" ELSE "NEW"],
       failcount |-> [r \in Remotes |-> 0],
       chan      |-> [r \in Remotes |-> r \in Enabled],
       procs     |-> [r \in Remotes |-> IF r \in Enabled THEN 1 ELSE 0],
       queued    |-> [r \in Remotes |-> IF r \in Enabled THEN 1 ELSE 0],
       timer     |-> [r \in Remotes |-> None],
       calls     |-> [a \in Addr |-> None],
       fades     |-> [n \in Nodes |-> 0],
       focused   |-> MasterNode,
       last      |-> MasterNode,
       grab      |-> "none",
       ownsel    |-> FALSE,
       frames    |-> <<>>,
       loop      |-> "none",
       todo      |-> {},
       edges     |-> {},
       status    |-> "running",
       misused   |-> FALSE,
       torn      |-> FALSE,
       disturbed |-> FALSE,
       robbed    |-> {}]

XIdle == m.status = "running" /\ m.todo = {} /\ m.edges = {}
LoopIdle == XIdle /\ m.frames = <<>>

\* The step to state s, within the bounds of the model.
Step(s) ==
  /\ Len(s.frames) <= MaxNest
  /\ \A n \in Nodes : s.fades[n] <= MaxFades
  /\ m' = s

\* action_cb: AT_FOCUS with its three kinds of target.
FocusDirection(d, k, e) ==
  /\ XIdle /\ "direction" \in Hotkeys
  /\ Step(FocusNode(m, e, Neighbors[<<m.focused, d>>], k, FALSE))

FocusTo(n, k, e) ==
  /\ XIdle /\ "node" \in Hotkeys
  /\ Step(FocusNode(m, e, n, k, FALSE))

FocusPrevious(k, e) ==
  /\ XIdle /\ "previous" \in Hotkeys
  /\ Step(FocusNode(m, e, m.last, k, FALSE))

\* action_cb: the actions that loop over the enabled remotes.  own tells
\* whether set_clipboard_text could take the selection.
StartLoop(kind, own) ==
  /\ XIdle /\ kind \in Hotkeys
  /\ Step([m EXCEPT !.loop = IF Enabled = {} THEN "none" ELSE kind,
                    !.todo = Enabled,
                    !.ownsel = IF kind = "clear" THEN own ELSE @])

\* Mutant: halt_reconnects only looks at the failed remotes.
HaltFailedOnly(s, e, r) ==
  CASE s.loop = "reconnect" -> ReconnectRemote(s, e, r)
    [] s.loop = "halt" ->
         IF s.state[r] = "FAILED"
         THEN [CancelCall(s, e, r) EXCEPT !.state[r] = "PERMFAILED"] ELSE s
    [] OTHER -> s

\* Mutant: halt_reconnects cancels the timers and leaves CS_FAILED.
HaltKeepsState(s, e, r) ==
  CASE s.loop = "reconnect" -> ReconnectRemote(s, e, r)
    [] s.loop = "halt" ->
         IF s.state[r] = "SETTINGUP"
         THEN [DisconnectRemote(s, r) EXCEPT !.state[r] = "PERMFAILED"]
         ELSE IF s.state[r] = "FAILED" THEN CancelCall(s, e, r) ELSE s
    [] OTHER -> s

\* The loops' bodies: reconnect_remotes, halt_reconnects, and the messages
\* of clear-clipboard (connected remotes) and step-log-level (all of them).
LoopBody(s, e, r) ==
  CASE s.loop = "reconnect" -> ReconnectRemote(s, e, r)
    [] s.loop = "halt" ->
         LET d == IF s.state[r] = "SETTINGUP" THEN DisconnectRemote(s, r)
                  ELSE IF s.state[r] = "FAILED" /\ s.timer[r] # None
                  THEN CancelCall(s, e, r) ELSE s
         IN IF s.state[r] \in {"SETTINGUP", "FAILED"}
            THEN [d EXCEPT !.state[r] = "PERMFAILED"] ELSE s
    [] s.loop = "clear" ->
         IF s.state[r] = "CONNECTED" THEN Enqueue(s, e, r, 1) ELSE s
    [] OTHER -> Enqueue(s, e, r, 1)

LoopStep(r, e) ==
  /\ m.status = "running" /\ r \in m.todo
  /\ Step([LoopBody(m, e, r) EXCEPT !.todo = @ \ {r},
                                    !.loop = IF m.todo = {r} THEN "none" ELSE @])

\* shutdown_master and exit, on the quit action or on a signal.
Quit ==
  /\ m.status = "running"
  /\ m' = [m EXCEPT
             !.procs = [r \in Remotes |->
                          IF m.state[r] \in {"SETTINGUP", "CONNECTED"} /\ m.chan[r]
                          THEN m.procs[r] - 1 ELSE m.procs[r]],
             !.grab = "none", !.status = "exited"]

\* A message queued on a closed channel has written to freed memory: the
\* process may go on undisturbed, or crash at some later point.
Crash ==
  /\ m.status = "running" /\ m.misused
  /\ m' = Abort(m)

\* handle_keyevent, handle_grabbed_mousemove, send_clickevent: the focused
\* remote gets one message, or ScrollMult of them.
UserInput(k, e) ==
  /\ XIdle /\ m.focused \in Remotes
  /\ Step(Enqueue(m, e, m.focused, k))

\* The edges at which one pointer position can complete a tap sequence.
EdgeSets == {D \in SUBSET Directions :
               ~({"LEFT", "RIGHT"} \subseteq D) /\ ~({"UP", "DOWN"} \subseteq D)}

\* handle_local_mousemove, handle_rawmotion: mousepos_cb on the master.
MousePos(D) ==
  /\ XIdle /\ MouseSwitch
  /\ Step([m EXCEPT !.edges = D])

\* check_edgeevents visits the directions in the order of direction_t.
EdgeStep(d, k, e) ==
  /\ m.status = "running" /\ d \in m.edges
  /\ d \in {"UP", "DOWN"} => m.edges \cap {"LEFT", "RIGHT"} = {}
  /\ Step(FocusNode([m EXCEPT !.edges = @ \ {d}], e,
                    Neighbors[<<m.focused, d>>], k, TRUE))

\* SelectionClear: another client takes the selection.
SelectionCleared ==
  /\ XIdle /\ m.ownsel
  /\ Step([m EXCEPT !.ownsel = FALSE])

\* The innermost clipboard wait ends (an answer, or the time-out).
SelectionArrives(e) ==
  /\ XIdle /\ m.frames # <<>>
  /\ LET f == Head(m.frames)
         s == [m EXCEPT !.frames = Tail(@)]
     IN \/ /\ f.kind = "focus"
           /\ Step([CompleteSwitch(Enqueue(s, e, f.to, 1), e, MasterNode, f.to,
                                   f.mods, f.edge, m.disturbed)
                      EXCEPT !.edges = f.rest])
        \* send_setclipboard(focused_node->remote, get_clipboard_text()):
        \* the order of evaluation of the arguments is unspecified.
        \/ /\ f.kind = "forward"
           /\ \E n \in {f.to, m.focused} \cap Remotes : Step(Enqueue(s, e, n, 1))
        \/ /\ f.kind = "forward" /\ m.focused = MasterNode
           /\ Step(s)

\* Mutant: writes when nothing is queued.
WritableOnEmpty(r) ==
  /\ LoopIdle /\ m.chan[r]
  /\ Step([m EXCEPT !.queued[r] = @ - 1])

\* mc_write_cb: one queued message goes out.
Writable(r) ==
  /\ LoopIdle /\ m.chan[r] /\ m.queued[r] > 0
  /\ Step([m EXCEPT !.queued[r] = @ - 1])

\* rmt_mc_err_cb, and the messages that handle_message does not expect.
ChannelFails(r, e) ==
  /\ LoopIdle /\ m.chan[r]
  /\ Step(FailRemote(m, e, r))

\* handle_message: MT_READY, MT_SETCLIPBOARD, MT_MOUSEPOS.
ReceiveReady(r, e) ==
  /\ LoopIdle /\ m.chan[r]
  /\ LET s == [m EXCEPT !.state[r] = "CONNECTED", !.failcount[r] = 0]
     IN Step(IF m.state[r] # "SETTINGUP" THEN FailRemote(m, e, r)
             ELSE IF FocusHint = "dim_inactive" THEN TransitionBrightness(s, e, r)
             ELSE s)

ReceiveClipboard(r, own, e) ==
  /\ LoopIdle /\ m.chan[r]
  /\ LET s == [m EXCEPT !.ownsel = own]
     IN Step(IF m.focused \notin Remotes THEN s
             ELSE IF own THEN Enqueue(s, e, m.focused, 1)
             ELSE AwaitSelection(s, "forward", m.focused, 0, FALSE))

ReceiveMousePos(r, D) ==
  /\ LoopIdle /\ MouseSwitch /\ m.chan[r]
  /\ Step([m EXCEPT !.edges = D])

\* Mutant: the timer is consumed without a new connection.
TimerWithoutSetup(a) ==
  /\ LoopIdle /\ m.calls[a] # None
  /\ Step([m EXCEPT !.calls[a] = None])

\* reconnect_remote_cb.
ReconnectTimer(a) ==
  /\ LoopIdle /\ m.calls[a] # None
  /\ LET r == m.calls[a]
     IN Step(SetupRemote([m EXCEPT !.calls[a] = None, !.timer[r] = None], r))

\* set_brightness_cb.
BrightnessTimer(n, e) ==
  /\ LoopIdle /\ m.fades[n] > 0
  /\ LET s == [m EXCEPT !.fades[n] = @ - 1]
     IN Step(IF n \in Remotes /\ m.state[n] # "CONNECTED" THEN s
             ELSE SetBrightness(s, e, n))

Next ==
  \/ \E e \in Env :
       \/ \E k \in 0..MaxMods :
            \/ \E d \in Directions : FocusDirection(d, k, e) \/ EdgeStep(d, k, e)
            \/ \E n \in Nodes : FocusTo(n, k, e)
            \/ FocusPrevious(k, e)
       \/ \E k \in {1, ScrollMult} : UserInput(k, e)
       \/ SelectionArrives(e)
       \/ \E n \in Nodes : BrightnessTimer(n, e)
       \/ \E r \in Remotes :
            \/ LoopStep(r, e)
            \/ ChannelFails(r, e)
            \/ ReceiveReady(r, e)
            \/ \E own \in BOOLEAN : ReceiveClipboard(r, own, e)
  \/ \E kind \in {"reconnect", "halt", "clear", "loglevel"}, own \in BOOLEAN :
       StartLoop(kind, own)
  \/ \E D \in EdgeSets : MousePos(D) \/ \E r \in Remotes : ReceiveMousePos(r, D)
  \/ SelectionCleared
  \/ \E r \in Remotes : Writable(r)
  \/ \E a \in Addr : ReconnectTimer(a)
  \/ Quit
  \/ Crash

Spec == Init /\ [][Next]_m

\* The fairness of the event loop: run_scheduled_calls runs on every
\* iteration of handle_fds, loops run to their end, and a clipboard wait ends
\* with the selection owner's answer or with the first event after its
\* time-out, even if the events handled meanwhile keep starting loops.
Fairness ==
  /\ \A a \in Addr : SF_m(ReconnectTimer(a))
  /\ WF_m(\E r \in Remotes, e \in Env : LoopStep(r, e))
  /\ WF_m(\E d \in Directions, k \in 0..MaxMods, e \in Env : EdgeStep(d, k, e))
  /\ SF_m(\E e \in Env : SelectionArrives(e))

FairSpec == Spec /\ Fairness

-----------------------------------------------------------------------------
(***************************************************************************)
(* Properties.                                                             *)
(***************************************************************************)
Running == m.status = "running"
Live(r) == m.state[r] \in {"SETTINGUP", "CONNECTED"}

\* Every variable has its type, and no send queue of the running master is
\* longer than MAX_SEND_BACKLOG (mc_enqueue_message, enqueue_message).
TypeOK ==
  /\ m \in MasterState
  /\ Running => \A r \in Remotes : m.queued[r] <= MaxBacklog

\* A remote that is being set up or connected has an open channel and exactly
\* one ssh child, any other remote has neither, and a master that exits by
\* itself leaves no ssh child behind (setup_remote, disconnect_remote,
\* shutdown_master): no path sets up a connection on top of another one.
OneChildPerConnection ==
  /\ Running => \A r \in Remotes :
       /\ m.chan[r] <=> Live(r)
       /\ m.procs[r] = IF Live(r) THEN 1 ELSE 0
  /\ m.status = "exited" => \A r \in Remotes : m.procs[r] = 0

\* A scheduled reconnect_remote_cb belongs to a remote in CS_FAILED and is the
\* call that its reconnect_timer names: it can neither fire on a connection
\* that the user re-established meanwhile, nor be scheduled twice.
ReconnectCallOwned ==
  Running => \A a \in Addr : m.calls[a] # None =>
    m.state[m.calls[a]] = "FAILED" /\ m.timer[m.calls[a]] = a

\* A remote in CS_FAILED has a reconnect_timer (the bug() of halt_reconnects
\* is never reached), and that call is still pending unless another remote's
\* stale reconnect_timer was used to cancel it.
FailedIsScheduled ==
  Running => \A r \in Remotes : m.state[r] = "FAILED" =>
    /\ m.timer[r] # None
    /\ r \in m.robbed \/ m.calls[m.timer[r]] = r

\* Retries are bounded: a remote that is being retried has not failed more
\* than max_tries times in a row, and a connected one starts from zero
\* (fail_remote, handle_message).
RetriesBounded ==
  Running => \A r \in Remotes :
    /\ m.state[r] \in {"SETTINGUP", "FAILED"} => m.failcount[r] <= MaxTries
    /\ m.state[r] = "CONNECTED" => m.failcount[r] = 0

\* Unless the switch that brought the focus there was disturbed by a failure
\* or by another switch, the focused node is the master or a connected
\* remote: however a connection ends, the focus goes back to the master
\* (focus_node, disconnect_remote, focus_master).
FocusedConnected ==
  Running /\ m.focused \in Remotes /\ ~m.torn => m.state[m.focused] = "CONNECTED"

\* Under the same proviso, while a remote has the focus the last grab call was
\* a grab: keystrokes meant for the remote do not also reach the master's own
\* applications, unless the X server refused the grab (focus_node).
FocusedGrabbed ==
  Running /\ m.focused \in Remotes /\ ~m.torn => m.grab # "none"

\* The master's own keyboard is never left grabbed: whenever the master has
\* the focus and the inputs are grabbed, a switch to a remote is under way,
\* waiting for the clipboard (focus_master, focus_node).
GrabNotStuck ==
  Running /\ m.grab = "held" /\ m.focused = MasterNode =>
    \E i \in DOMAIN m.frames : m.frames[i].kind = "focus"

\* When halt_reconnects has visited every enabled remote, none of them is
\* being set up or has a reconnection scheduled.
HaltStopsAttempts ==
  [][Running /\ m.loop = "halt" /\ m'.loop = "none" /\ m'.status = "running" =>
       \A r \in Enabled : /\ m'.state[r] \notin {"SETTINGUP", "FAILED"}
                          /\ \A a \in Addr : m'.calls[a] # r]_m

\* A remote in CS_FAILED does not stay there while the master runs, unless
\* another remote's stale reconnect_timer was used to cancel its call.
FailedRetried ==
  \A r \in Remotes :
    Running /\ m.state[r] = "FAILED" ~>
      ~Running \/ m.state[r] # "FAILED" \/ r \in m.robbed

-----------------------------------------------------------------------------
(***************************************************************************)
(* What comments and documentation say of the program, and the code does   *)
(* not keep.                                                               *)
(***************************************************************************)
\* README.md: "enthrall will attempt to automatically reconnect to any failed
\* remotes".  reconnect_remote and halt_reconnects leave the handle of a
\* cancelled timer in place, and the next cancel_call through it can remove
\* the call of another remote.
EveryFailedRetried ==
  \A r \in Remotes :
    Running /\ m.state[r] = "FAILED" ~> ~Running \/ m.state[r] # "FAILED"

\* main.c on focus_master: when the focused remote fails "we just revert focus
\* directly to the master", and on focus_node: no switch is performed if "the
\* remote we tried to switch to is currently disconnected".  The remote may
\* fail in the middle of focus_node.
FocusNeverOnDisconnected ==
  Running /\ m.focused \in Remotes => m.state[m.focused] = "CONNECTED"

\* main.c on set_brightness_cb: after a remote has been disconnected "we need
\* to not try to send the brightness-change message to avoid a use-after-
\* free".  The step-log-level action sends to remotes in any state.
NoSendOnClosedChannel == ~m.misused
=============================================================================
