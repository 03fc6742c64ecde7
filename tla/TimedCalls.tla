---------------------------- MODULE TimedCalls ----------------------------
(***************************************************************************)
(* What the master schedules (main.c): the steps of brightness transitions *)
(* that show where the focus goes, and reconnections.  Switches come       *)
(* faster than transitions end, remotes fail and return in the middle of   *)
(* them, and a switch may wait for the clipboard, with hotkeys handled     *)
(* meanwhile, between the moment it is shown and the moment it takes       *)
(* effect.  Sending is left to Master and MsgChan: what a remote shows is  *)
(* the level it was sent last.                                             *)
(***************************************************************************)
EXTENDS Timers, Backoff

CONSTANTS
  Remotes, MasterNode,
  Hints,        \* focus_hint.type and duration, one of which is configured
  Dim, Full,    \* focus_hint.brightness and 1.0, in units of a step
  FadeSteps,    \* focus_hint.fade_steps
  MaxTries,     \* config->reconnect.max_tries
  MaxNest,      \* bound: depth of nested clipboard waits
  MaxCalls      \* bound: calls ever scheduled

Nodes == Remotes \cup {MasterNode}

\* What may be scheduled: set_brightness_cb and reconnect_remote_cb.
Scheduled ==
  [fn : {"brightness"}, arg : [node : Nodes, level : Int], id : Nat, time : Int]
    \cup [fn : {"reconnect"}, arg : [node : Remotes], id : Nat, time : Int]

ASSUME TimedCallsAssumption ==
  /\ MasterNode \notin Remotes
  /\ NULL \notin Nodes \cup Scheduled
  /\ Hints \subseteq [type : {"dim_inactive", "flash_active"}, duration : Nat]
  /\ {Dim, Full, MaxTries, MaxNest, MaxCalls} \subseteq Nat
  /\ FadeSteps \in Nat \ {0}

VARIABLES
  hint,      \* config->focus_hint
  p,         \* the rest of the process, see Init
  crossed    \* history: a hotkey met a switch that waits

vars == <<timers, hint, p, crossed>>

\* The called functions work on a record of p and the list of calls.
State == [p |-> p, calls |-> calls]

-----------------------------------------------------------------------------
\* schedule_call.
Schedule(s, fn, arg, delay) ==
  [p     |-> [s.p EXCEPT !.serial = @ + 1],
   calls |-> ScheduleCall(s.calls, fn, arg, s.p.serial, delay)]

\* set_node_display_brightness, to a connected remote.
SetNodeDisplayBrightness(s, n, level) == [s EXCEPT !.p.shown[n] = level]

\* schedule_brightness_change.
ScheduleBrightnessChange(s, n, level, delay) ==
  Schedule(s, "brightness", [node |-> n, level |-> level], delay)

\* transition_brightness: the steps of its loop, then the last one.
TransitionBrightness(s, n, from, to) ==
  LET fade[i \in 0..FadeSteps - 1] ==
        IF i = 0 THEN SetNodeDisplayBrightness(s, n, from)
        ELSE ScheduleBrightnessChange(fade[i - 1], n,
                                      from + (i * (to - from)) \div FadeSteps,
                                      (i * hint.duration) \div FadeSteps)
  IN ScheduleBrightnessChange(fade[FadeSteps - 1], n, to, hint.duration)

\* indicate_switch.
IndicateSwitch(s, from, to) ==
  LET z == IF hint.type = "dim_inactive" /\ from \notin {NULL, to}
           THEN TransitionBrightness(s, from, Full, Dim) ELSE s
  IN TransitionBrightness(z, to, Dim, Full)

SetupRemote(s, r) == [s EXCEPT !.p.conn[r] = "SETTINGUP"]

\* disconnect_remote, with focus_master.
DisconnectRemote(s, r) ==
  IF r # s.p.focused THEN s
  ELSE IndicateSwitch([s EXCEPT !.p.focused = MasterNode], NULL, MasterNode)

FailRemote(s, r) ==
  LET n == s.p.failcount[r] + 1
      z == [DisconnectRemote(s, r) EXCEPT !.p.failcount[r] = n]
  IN IF n > MaxTries THEN [z EXCEPT !.p.conn[r] = "PERMFAILED"]
     ELSE [Schedule(z, "reconnect", [node |-> r], ReconnectDelay(n))
             EXCEPT !.p.conn[r] = "FAILED", !.p.timer[r] = z.p.serial]

\* reconnect_remote, of a remote that is not connected.
ReconnectRemote(s, r) ==
  LET z == IF s.p.timer[r] = NULL THEN s
           ELSE [s EXCEPT !.calls = CancelCall(@, s.p.timer[r])]
      d == IF s.p.conn[r] = "SETTINGUP" THEN DisconnectRemote(z, r) ELSE z
  IN SetupRemote([d EXCEPT !.p.failcount[r] = 0], r)

-----------------------------------------------------------------------------
Init ==
  /\ TimersInit
  /\ hint \in Hints
  /\ p = [focused   |-> MasterNode,
          waiting   |-> <<>>,      \* targets of switches that wait
          conn      |-> [r \in Remotes |-> "SETTINGUP"],
          failcount |-> [r \in Remotes |-> 0],
          timer     |-> [r \in Remotes |-> NULL],
          shown     |-> [n \in Nodes |-> Full],
          serial    |-> 0]
  /\ crossed = FALSE

Become(s) ==
  /\ s.p.serial <= MaxCalls /\ \A i \in DOMAIN s.calls : s.calls[i].time <= MaxClock
  /\ p' = s.p
  /\ calls' = s.calls
  /\ UNCHANGED <<clock, pc, now, running, timeout, since, hint>>

\* focus_node from a hotkey, up to the clipboard wait; waits: the selection is
\* not cached.  The null switch is shown (show_nullswitch).
FocusNode(n, waits) ==
  LET down == n \in Remotes /\ p.conn[n] # "CONNECTED"
      from == p.focused
      to   == IF down THEN from ELSE n
      z    == IndicateSwitch(IF down THEN ReconnectRemote(State, n) ELSE State, from, to)
  IN /\ pc = "idle"
     /\ waits => from = MasterNode /\ to # from /\ Len(p.waiting) < MaxNest
     /\ Become(IF waits THEN [z EXCEPT !.p.waiting = <<to>> \o @]
               ELSE [z EXCEPT !.p.focused = to])
     /\ crossed' = (crossed \/ p.waiting # <<>>)

\* The end of focus_node, once it has the text.
FocusWaited ==
  /\ pc = "idle" /\ p.waiting # <<>>
  /\ Become([State EXCEPT !.p.focused = Head(p.waiting), !.p.waiting = Tail(@)])
  /\ UNCHANGED crossed

\* Neither descriptors nor calls are looked at during the wait.
Idle == pc = "idle" /\ p.waiting = <<>>

\* MT_READY in handle_message, from a new process that found its screen bright.
ReceiveReady(r) ==
  LET s == [State EXCEPT !.p.conn[r] = "CONNECTED", !.p.failcount[r] = 0,
                         !.p.shown[r] = Full]
  IN /\ Idle /\ p.conn[r] = "SETTINGUP"
     /\ Become(IF hint.type = "dim_inactive" THEN TransitionBrightness(s, r, Full, Dim)
               ELSE s)
     /\ UNCHANGED crossed

ChannelFails(r) ==
  /\ Idle /\ p.conn[r] \in {"SETTINGUP", "CONNECTED"}
  /\ Become(FailRemote(State, r))
  /\ UNCHANGED crossed

\* The body of run_scheduled_calls, once the function s has returned.
Called(s) ==
  /\ pc = "call"
  /\ Return(s.calls)
  /\ p' = s.p
  /\ UNCHANGED <<hint, crossed>>

\* set_brightness_cb.
SetBrightnessCb ==
  LET n == running.arg.node
  IN /\ pc = "call" /\ running.fn = "brightness"
     /\ Called(IF n \in Remotes /\ p.conn[n] # "CONNECTED" THEN State
               ELSE SetNodeDisplayBrightness(State, n, running.arg.level))

\* reconnect_remote_cb.
ReconnectRemoteCb ==
  LET r == running.arg.node
  IN /\ pc = "call" /\ running.fn = "reconnect"
     /\ Called(SetupRemote([State EXCEPT !.p.timer[r] = NULL], r))

Loop == (Begin /\ Idle) \/ RunCall \/ Select
Pass == (Loop \/ Wake \/ Tick) /\ UNCHANGED <<hint, p, crossed>>

Next ==
  \/ \E n \in Nodes, waits \in BOOLEAN : FocusNode(n, waits)
  \/ FocusWaited
  \/ \E r \in Remotes : ReceiveReady(r) \/ ChannelFails(r)
  \/ SetBrightnessCb \/ ReconnectRemoteCb
  \/ Pass

Spec == Init /\ [][Next]_vars

\* Time passes, handle_fds and what it calls are sequential code, select()
\* returns at its time-out, and a clipboard wait ends.
FairSpec ==
  /\ Spec
  /\ WF_vars(Loop /\ UNCHANGED <<hint, p, crossed>>)
  /\ WF_vars(SetBrightnessCb \/ ReconnectRemoteCb)
  /\ WF_vars(TimedOut /\ Wake /\ UNCHANGED <<hint, p, crossed>>)
  /\ WF_vars(Tick /\ UNCHANGED <<hint, p, crossed>>)
  /\ WF_vars(FocusWaited)

-----------------------------------------------------------------------------
\* The level that node n will have once the calls that are pending have run.
Settled(n) ==
  LET steps == {i \in DOMAIN calls : calls[i].fn = "brightness" /\ calls[i].arg.node = n}
  IN IF steps # {} THEN calls[Max(steps)].arg.level
     ELSE IF running # NULL /\ running.fn = "brightness" /\ running.arg.node = n
          THEN running.arg.level ELSE p.shown[n]

\* Whatever transitions overlap, the screens settle as configured: with
\* dim-inactive the focused node is bright and the other connected nodes are
\* dimmed, with flash-active all are bright.  So the transition that began
\* last ends last, and calls scheduled for a lost connection do no harm to the
\* next.  Excepted are hotkeys handled while a switch waits for the clipboard:
\* the switch has been shown but has not taken effect (transition_brightness,
\* indicate_switch, set_brightness_cb, handle_message, schedule_call).
ScreensSettle ==
  ~crossed =>
    LET focus == IF p.waiting = <<>> THEN p.focused ELSE Head(p.waiting)
    IN \A n \in Nodes :
         n = MasterNode \/ p.conn[n] = "CONNECTED" =>
           Settled(n) = IF hint.type = "flash_active" \/ n = focus THEN Full ELSE Dim

\* No call is forgotten: again and again the loop has caught up with the clock,
\* so that no call is overdue, although calls are added, also by the functions
\* called, while select() waits for what was the earliest before.
CatchesUp == []<>(calls = <<>> \/ Head(calls).time > clock)
=============================================================================
