------------------------------- MODULE Session -------------------------------
(***************************************************************************)
(* A keyboard, the master and one remote, end to end: the X server queues  *)
(* key events for the master (x11.c), or an event tap does (osx.c).  The   *)
(* master binds hotkeys, switches the focus and sends messages (main.c) to *)
(* the remote process that each connection starts (remote.c), which        *)
(* presses keys on the remote display, of either platform.                 *)
(*                                                                         *)
(* Master models connections and focus in detail, and MsgChan the channel; *)
(* here a connection is two FIFO queues, its failures are events, and the  *)
(* clipboard has no contents.  What a connection has under way when the    *)
(* master closes it may still reach its process, beside a newer one.       *)
(***************************************************************************)
EXTENDS OsxHotkeys, KvMap, FiniteSets

CONSTANTS
  Configs,       \* configuration files: [params, hotkeys], in file order,
                 \* each with the platforms of the master and of the remote,
                 \* and bounds: keys that are used, and connections
  ParamNames,    \* keys of the remote's param settings
  ParamValues, NULL,
  Locks,         \* the lock modifiers that are on
  MaxLevel,      \* LL_DEBUG2
  MaxBacklog,    \* bound: messages under way in one direction
  MaxEvents,     \* bound: key events that wait, over all configurations
  MaxHeld,       \* bound: keys held at once
  MaxConns,      \* bound: connections, over all configurations
  MaxNest        \* bound: nested clipboard waits

ASSUME SessionAssumption ==
  /\ Locks \subseteq LockMods
  /\ \A conf \in Configs : /\ conf.keys \subseteq Keys /\ conf.conns \in 1..MaxConns
                             /\ conf.events \in 1..MaxEvents
                             /\ {conf.master, conf.remote} \subseteq {"x11", "osx"}

Conns == 1..MaxConns

VARIABLE sys

\* A process of the remote; display is its DISPLAY variable, flags are the
\* modflags of one on OS X.
NoProcess(st) == [st |-> st, level |-> 0, display |-> NULL, flags |-> {}]

-----------------------------------------------------------------------------
(***************************************************************************)
(* Master: connections and messages.                                       *)
(***************************************************************************)
ChannelOpen(s) == s.state \in {"SETTINGUP", "CONNECTED"}

KeysUnderWay(s, c) ==
  \E i \in DOMAIN s.toRemote[c] : s.toRemote[c][i].type = "KEYEVENT"

\* disconnect_remote and focus_master, as fail_remote calls them.
FailRemote(s) ==
  [s EXCEPT !.state = "FAILED",
            !.toMaster[s.cur] = <<>>,
            !.focused = "master",
            !.grab = IF s.focused = "remote" THEN "none" ELSE @,
            !.disturbed = @ \/ s.focused = "remote" \/ KeysUnderWay(s, s.cur)]

\* enqueue_message.  A message for a closed channel goes nowhere.
Send(s, msg) ==
  IF ~ChannelOpen(s) THEN s
  ELSE IF Len(s.toRemote[s.cur]) = MaxBacklog THEN FailRemote(s)
  ELSE [s EXCEPT !.toRemote[s.cur] = Append(@, msg)]

\* send_keyevent, for a set of keys.
SendKeys(s, keys, press) ==
  FoldLeft(LAMBDA t, k : Send(t, [type |-> "KEYEVENT", key |-> k, press |-> press]),
           s, SetToSeq(keys))

\* The parser puts each param setting into rmt->params.
Params(conf) ==
  FoldLeft(LAMBDA kvm, p : KvmapPut(kvm, p.key, p.value), <<>>, conf.params)

\* Mutant: the log level of the configuration file.
SetupRemoteLevel(s) ==
  Send([s EXCEPT !.cur = @ + 1, !.state = "SETTINGUP",
                 !.proc[s.cur + 1].st = "started"],
       [type |-> "SETUP", level |-> 0, params |-> FlattenKvmap(Params(s.conf))])

\* setup_remote: a new process at the other end of a new channel.
SetupRemote(s) ==
  Send([s EXCEPT !.cur = @ + 1, !.state = "SETTINGUP",
                 !.proc[s.cur + 1].st = "started"],
       [type |-> "SETUP", level |-> s.level, params |-> FlattenKvmap(Params(s.conf))])

\* reconnect_remote; a connection that is being set up is closed first.
ReconnectRemote(s) ==
  SetupRemote(IF s.state = "SETTINGUP" THEN FailRemote(s) ELSE s)

-----------------------------------------------------------------------------
(***************************************************************************)
(* Master: focus.                                                          *)
(***************************************************************************)
HeldMods(s) == s.held \cap ModKeys

\* Mutant: nothing is released on the node that loses the focus.
TransferModifiersTo(s, from, to, mods) ==
  IF to = "remote" THEN SendKeys(s, mods, TRUE) ELSE s

\* transfer_modifiers.
TransferModifiers(s, from, to, mods) ==
  LET t == IF from = "remote" THEN SendKeys(s, mods, FALSE) ELSE s
  IN IF to = "remote" THEN SendKeys(t, mods, TRUE) ELSE t

\* The end of focus_node, once the clipboard has been dealt with.
CompleteSwitch(s, from, to, cb) ==
  LET t == TransferModifiers(s, from, to, cb.mods)
  IN [t EXCEPT !.focused = to,
               !.disturbed = \/ @
                             \/ ~cb.settled
                             \/ to = "remote" /\ t.state # "CONNECTED"]

\* grab_inputs, whose result focus_node ignores.
GrabInputs(s, ok) ==
  [s EXCEPT !.grab = IF ok THEN "keyboard" ELSE "none",
            !.disturbed = @ \/ ~ok]

\* focus_node.  own: we own the selection and need not wait for its text.
FocusNode(s, cb, ok, own) ==
  LET to == cb.action
      g  == GrabInputs(s, ok)
  IN IF to = "remote" /\ s.state # "CONNECTED" THEN ReconnectRemote(s)
     ELSE IF to = s.focused THEN s
     ELSE IF to = "master"
     THEN CompleteSwitch(Send([s EXCEPT !.grab = "none"], [type |-> "GETCLIPBOARD"]),
                         "remote", to, cb)
     ELSE IF own
     THEN CompleteSwitch(Send(g, [type |-> "SETCLIPBOARD"]), "master", to, cb)
     ELSE [g EXCEPT !.frames = <<cb>> \o @]

\* AT_STEP_LOGLEVEL in action_cb, with a delta of one.
StepLoglevel(s) ==
  LET l == IF s.level < MaxLevel THEN s.level + 1 ELSE MaxLevel
  IN Send([s EXCEPT !.level = l], [type |-> "SETLOGLEVEL", level |-> l])

-----------------------------------------------------------------------------
(***************************************************************************)
(* Remote process.                                                         *)
(***************************************************************************)
\* exit, with platform_exit where it applies; what it had to send is lost.
Exit(s, c, protocol) ==
  [s EXCEPT !.proc[c] = NoProcess("exited"),
            !.toRemote[c] = <<>>,
            !.protoerr = @ \/ protocol, !.disturbed = @ \/ KeysUnderWay(s, c)]

\* enqueue_message of the remote.
Reply(s, c, type) ==
  IF Len(s.toMaster[c]) = MaxBacklog THEN Exit(s, c, FALSE)
  ELSE [s EXCEPT !.toMaster[c] = Append(@, [type |-> type])]

\* platform_init: the display that it connects to, if params name one.
PlatformDisplay(params) == KvmapGet(params, "DISPLAY", NULL)

\* handle_setup_msg.  ok: the versions agree and platform_init succeeds.
HandleSetup(s, c, msg, ok) ==
  IF msg.type # "SETUP" THEN Exit(s, c, TRUE)
  ELSE IF ~ok THEN Exit(s, c, FALSE)
  ELSE Reply([s EXCEPT !.proc[c] =
                [st |-> "ready", level |-> msg.level, flags |-> {},
                 display |-> PlatformDisplay(UnflattenKvmap(msg.params))]],
             c, "READY")

\* do_keyevent; of the keys it presses, only the modifiers are remembered.
DoKeyEvent(s, key, press) ==
  [s EXCEPT !.down = IF press THEN @ \cup ({key} \cap ModKeys) ELSE @ \ {key}]

\* do_keyevent on OS X, which also keeps the flags that it gives to events.
\* doubled is history: one of two keys of a modifier was released.
OsxDoKeyEvent(s, c, key, press) ==
  LET flags == KeyEventflag(key)
  IN [DoKeyEvent(s, key, press) EXCEPT
        !.proc[c].flags = IF press THEN @ \cup flags ELSE @ \ flags,
        !.doubled = \/ @
                    \/ ~press /\ \E k \in s.down \ {key} : KeyEventflag(k) = flags]

KeyMessage(s, c, msg) ==
  IF s.conf.remote = "osx" THEN OsxDoKeyEvent(s, c, msg.key, msg.press)
  ELSE DoKeyEvent(s, msg.key, msg.press)

\* Mutant: SETLOGLEVEL is not handled.
HandleMessageNoLevel(s, c, msg) ==
  CASE msg.type = "KEYEVENT" -> KeyMessage(s, c, msg)
    [] msg.type = "GETCLIPBOARD" -> Reply(s, c, "SETCLIPBOARD")
    [] msg.type = "SETCLIPBOARD" -> s
    [] OTHER -> Exit(s, c, TRUE)

\* handle_message.  The types that only move the pointer, click or set the
\* brightness are left out, as the master of this model does not send them.
HandleMessage(s, c, msg) ==
  CASE msg.type = "KEYEVENT" -> KeyMessage(s, c, msg)
    [] msg.type = "GETCLIPBOARD" -> Reply(s, c, "SETCLIPBOARD")
    [] msg.type = "SETCLIPBOARD" -> s
    [] msg.type = "SETLOGLEVEL" -> [s EXCEPT !.proc[c].level = msg.level]
    [] OTHER -> Exit(s, c, TRUE)

-----------------------------------------------------------------------------
Init ==
  \E conf \in Configs :
    sys = [conf     |-> conf,
           status   |-> "init",
           hotkeys  |-> <<>>,                               \* xhotkeys
           level    |-> 0,                                  \* config->log.level
           state    |-> "NEW",                              \* rmt->state
           cur      |-> 0,                                  \* connections so far
           focused  |-> "master",
           cb       |-> <<>>,   \* hotkey callback that has read the keymap: its
                                \* action, modifiers, and whether none has changed
                                \* since the press of the hotkey (history)
           frames   |-> <<>>,                               \* clipboard waits
           held     |-> {},                                 \* keyboard
           events   |-> <<>>,                               \* event queue
           grab     |-> "none",                             \* keyboard grab
           modflags |-> {},                                 \* OS X: last flags
           tap      |-> TRUE,                               \* OS X: tap enabled
           toRemote |-> [c \in Conns |-> <<>>],
           toMaster |-> [c \in Conns |-> <<>>],
           proc     |-> [c \in Conns |-> NoProcess("none")],
           down     |-> {},             \* modifiers down on the remote display
           \* history, for the properties only:
           disturbed |-> FALSE,  \* a switch was raced, refused or cut off
           doubled   |-> FALSE,  \* see OsxDoKeyEvent
           protoerr  |-> FALSE]  \* a message of an unexpected type arrived

\* bind_hotkeys, then the first connection.  config->hotkeys has the last
\* binding of the file first; any failure ends the program.
Start ==
  /\ sys.status = "init"
  /\ LET x11    == sys.conf.master = "x11"
         order  == Reverse(sys.conf.hotkeys)
         bind(hks, h) == IF x11 THEN BindHotkey(hks, h.ks, h.action)
                         ELSE OsxBindHotkey(hks, h.ks, h.action)
         bound(i) == FoldLeft(bind, <<>>, SubSeq(order, 1, i))
         all    == bound(Len(order))
         failed == \E i \in DOMAIN order :
                     IF x11 THEN CannotBind(bound(i - 1), order[i].ks)
                     ELSE OsxCannotBind(bound(i - 1), order[i].ks)
     IN \/ ~failed /\ sys' = SetupRemote([sys EXCEPT !.status = "running", !.hotkeys = all])
        \* a bad binding, or one that another client has grabbed
        \/ sys' = [sys EXCEPT !.status = "died"]

Step(s) == Len(s.frames) <= MaxNest /\ sys' = s

-----------------------------------------------------------------------------
(***************************************************************************)
(* Keyboard and X server.  An event carries the modifiers as they were     *)
(* before it.  A press that matches a passive grab starts a keyboard grab, *)
(* which ends with the release of its key.                                 *)
(***************************************************************************)
StateMask(s) == Locks \cup UNION {ModMask[k] : k \in HeldMods(s)}

KeyEvent(s, k, press) ==
  Append(s.events, [key |-> k, press |-> press, state |-> StateMask(s),
                    settled |-> TRUE])

\* History: the hotkeys under way when key k changes.
Unsettle(s, k) ==
  LET mark(q) == [i \in DOMAIN q |-> [q[i] EXCEPT !.settled = FALSE]]
  IN IF k \in PlainKeys THEN s
     ELSE [s EXCEPT !.events = mark(@), !.cb = mark(@), !.frames = mark(@)]

Running == sys.status = "running"
Room == Len(sys.events) < sys.conf.events

PressKey(k) ==
  /\ Running /\ sys.conf.master = "x11"
  /\ k \notin sys.held /\ Cardinality(sys.held) < MaxHeld
  /\ LET u == Unsettle(sys, k)
         s == [u EXCEPT !.held = @ \cup {k}]
     IN IF sys.grab # "none"
        THEN Room /\ sys' = [s EXCEPT !.events = KeyEvent(u, k, TRUE)]
        ELSE IF Grabbed(sys.hotkeys, k, StateMask(sys))
        THEN Room /\ sys' = [s EXCEPT !.events = KeyEvent(u, k, TRUE), !.grab = k]
        ELSE sys' = s

ReleaseKey(k) ==
  /\ Running /\ sys.conf.master = "x11" /\ k \in sys.held
  /\ LET u == Unsettle(sys, k)
         s == [u EXCEPT !.held = @ \ {k}, !.grab = IF @ = k THEN "none" ELSE @]
     IN IF sys.grab # "none"
        THEN Room /\ sys' = [s EXCEPT !.events = KeyEvent(u, k, FALSE)]
        ELSE sys' = s

-----------------------------------------------------------------------------
(***************************************************************************)
(* Master: callbacks.                                                      *)
(***************************************************************************)
XIdle == Running /\ sys.cb = <<>>
LoopIdle == XIdle /\ sys.frames = <<>>

\* get_keymap_modifiers, on the keyboard as it is now.
KeymapModifiers(s) == HeldMods(s)

\* handle_keyevent.
HandleKeyevent(s, ev) ==
  IF s.focused = "remote" THEN SendKeys(s, {ev.key}, ev.press) ELSE s

\* handle_event on a key event: do_hotkey reads the keymap and calls back.
HandleEvent ==
  /\ XIdle /\ sys.conf.master = "x11" /\ sys.events # <<>>
  /\ LET ev == Head(sys.events)
         s  == [sys EXCEPT !.events = Tail(@)]
         hk == FindHotkey(sys.hotkeys, ev.key, ev.state)
     IN \/ hk # <<>> /\ ev.press
           /\ sys' = [s EXCEPT !.cb = <<[action |-> hk[1].action,
                                         mods |-> KeymapModifiers(sys),
                                         settled |-> ev.settled]>>]
        \/ hk # <<>> /\ ~ev.press /\ sys' = s
        \/ hk = <<>> /\ Step(HandleKeyevent(s, ev))

\* action_cb.
ActionCb(ok, own) ==
  /\ Running /\ sys.cb # <<>>
  /\ LET cb == sys.cb[1]
         s  == [sys EXCEPT !.cb = <<>>]
     IN IF cb.action = "loglevel" THEN Step(StepLoglevel(s))
        ELSE /\ cb.action = "remote" /\ sys.state # "CONNECTED" => sys.cur < sys.conf.conns
             /\ Step(FocusNode(s, cb, ok, own))

-----------------------------------------------------------------------------
(***************************************************************************)
(* OS X: the event tap.  An event carries the flags as they are after it.  *)
(* The system disables a tap that does not answer in time, and tells it so *)
(* with a last event, whose flags are not specified.                       *)
(***************************************************************************)
OsxFlags(keys) == UNION {KeyEventflag(k) : k \in keys}

OsxChangeKey(k) ==
  /\ Running /\ sys.conf.master = "osx" /\ Room
  /\ k \in sys.held \/ Cardinality(sys.held) < MaxHeld
  /\ LET keys == IF k \in sys.held THEN sys.held \ {k} ELSE sys.held \cup {k}
         type == CASE k \in ModKeys -> "FlagsChanged"
                   [] k \in keys \ ModKeys -> "KeyDown"
                   [] k \notin keys \cup ModKeys -> "KeyUp"
         s    == [sys EXCEPT !.held = keys]
     IN sys' = IF sys.tap
               THEN [s EXCEPT !.events =
                       Append(@, [type |-> type, key |-> k, flags |-> OsxFlags(keys) \cup Locks])]
               ELSE [s EXCEPT !.disturbed = TRUE]

TapTimeout ==
  /\ Running /\ sys.conf.master = "osx" /\ sys.tap /\ sys.events # <<>> /\ Room
  /\ \E flags \in {{}, OsxFlags(sys.held) \cup Locks} :
       sys' = [sys EXCEPT !.tap = FALSE, !.disturbed = TRUE,
                 !.events = Append(@, [type |-> "TapDisabled", key |-> NoKey,
                                       flags |-> flags])]

\* handle_flagschanged.
HandleFlagschanged(s, old, new) ==
  FoldLeft(LAMBDA t, mod :
             IF (mod.mask \in old) = (mod.mask \in new) THEN t
             ELSE SendKeys(t, {mod.etkey}, mod.mask \in new),
           s, osx_modifiers)

\* The callback of a hotkey: get_hotkey_modifiers takes the flags of the
\* event, and get_clipboard_text does not wait.
OsxActionCb(s, action, modmask) ==
  IF action = "loglevel" THEN StepLoglevel(s)
  ELSE FocusNode(s, [action |-> action, mods |-> ModmaskToEtkeycodes(modmask),
                     settled |-> TRUE], TRUE, TRUE)

\* Mutant: the tap is not enabled again.
TapEventDisabled(s, ev, hk) ==
  CASE hk # <<>> /\ ev.type = "KeyDown" -> OsxActionCb(s, hk[1].action, ev.flags)
    [] hk # <<>> /\ ev.type # "KeyDown" -> s
    [] hk = <<>> /\ s.focused = "master" -> s
    [] hk = <<>> /\ s.focused # "master" ->
         CASE ev.type = "FlagsChanged" -> HandleFlagschanged(s, sys.modflags, ev.flags)
           [] ev.type \in {"KeyDown", "KeyUp"} ->
                SendKeys(s, {ev.key}, ev.type = "KeyDown")
           [] ev.type = "TapDisabled" -> s

\* The branches of evtap_callback; hk is the hotkey that matches a key event.
TapEvent(s, ev, hk) ==
  CASE hk # <<>> /\ ev.type = "KeyDown" -> OsxActionCb(s, hk[1].action, ev.flags)
    [] hk # <<>> /\ ev.type # "KeyDown" -> s
    [] hk = <<>> /\ s.focused = "master" -> s
    [] hk = <<>> /\ s.focused # "master" ->
         CASE ev.type = "FlagsChanged" -> HandleFlagschanged(s, sys.modflags, ev.flags)
           [] ev.type \in {"KeyDown", "KeyUp"} ->
                SendKeys(s, {ev.key}, ev.type = "KeyDown")
           [] ev.type = "TapDisabled" -> [s EXCEPT !.tap = TRUE]

\* evtap_callback.
EvtapCallback ==
  /\ LoopIdle /\ sys.conf.master = "osx" /\ sys.events # <<>>
  /\ LET ev == Head(sys.events)
         s  == [sys EXCEPT !.events = Tail(@), !.modflags = ev.flags]
         hk == IF ev.type \in {"KeyDown", "KeyUp"}
               THEN OsxFindHotkey(sys.hotkeys, ev.key, ev.flags \cap MODFLAG_MASK)
               ELSE <<>>
     IN /\ hk # <<>> /\ ev.type = "KeyDown" /\ hk[1].action = "remote"
             /\ sys.state # "CONNECTED" => sys.cur < sys.conf.conns
        /\ sys' = TapEvent(s, ev, hk)

-----------------------------------------------------------------------------
\* The selection arrives, or the wait for it ends.
SelectionArrives ==
  /\ XIdle /\ sys.frames # <<>>
  /\ sys' = CompleteSwitch(Send([sys EXCEPT !.frames = Tail(@)], [type |-> "SETCLIPBOARD"]),
                           "master", "remote", Head(sys.frames))

\* handle_message of the master.
MasterReceive ==
  /\ LoopIdle /\ ChannelOpen(sys) /\ sys.toMaster[sys.cur] # <<>>
  /\ LET msg == Head(sys.toMaster[sys.cur])
         s   == [sys EXCEPT !.toMaster[sys.cur] = Tail(@)]
     IN sys' = CASE msg.type = "READY" /\ s.state = "SETTINGUP" ->
                      [s EXCEPT !.state = "CONNECTED"]
                 [] msg.type = "SETCLIPBOARD" ->
                      IF s.focused = "remote" THEN Send(s, msg) ELSE s
                 [] OTHER -> [FailRemote(s) EXCEPT !.protoerr = TRUE]

\* rmt_mc_err_cb: the stream broke, or ended with the process.
ChannelFails == LoopIdle /\ ChannelOpen(sys) /\ sys' = FailRemote(sys)

\* reconnect_remote_cb.
Reconnect ==
  /\ LoopIdle /\ sys.state = "FAILED" /\ sys.cur < sys.conf.conns
  /\ sys' = SetupRemote(sys)

-----------------------------------------------------------------------------
Alive(c) == sys.proc[c].st \in {"started", "ready"}

\* mc_read_cb of the remote.
ProcReceive(c, ok) ==
  /\ Alive(c) /\ sys.toRemote[c] # <<>>
  /\ LET msg == Head(sys.toRemote[c])
         s   == [sys EXCEPT !.toRemote[c] = Tail(@)]
     IN sys' = IF sys.proc[c].st = "started" THEN HandleSetup(s, c, msg, ok)
               ELSE HandleMessage(s, c, msg)

\* mc_err_cb of the remote: its stream broke or was closed.
ProcError(c) == Alive(c) /\ sys' = Exit(sys, c, FALSE)

Next ==
  \/ Start
  \/ \E k \in sys.conf.keys : PressKey(k) \/ ReleaseKey(k) \/ OsxChangeKey(k)
  \/ HandleEvent \/ TapTimeout \/ EvtapCallback
  \/ \E ok, own \in BOOLEAN : ActionCb(ok, own)
  \/ SelectionArrives \/ MasterReceive \/ ChannelFails \/ Reconnect
  \/ \E c \in Conns : ProcError(c) \/ \E ok \in BOOLEAN : ProcReceive(c, ok)

Spec == Init /\ [][Next]_sys

-----------------------------------------------------------------------------
\* Whatever hotkeys, failures and reconnections do, neither process meets a
\* message that it does not expect: the first one a remote process reads is
\* SETUP, no later one is, and READY comes once, to a master that waits for it
\* (the exits of handle_setup_msg and handle_message, the default of the
\* master's handle_message).
NoProtocolError == ~sys.protoerr

\* A remote process uses the DISPLAY of the last such param setting of the
\* file, although the map is stored, flattened and rebuilt on the way
\* (kvmap_put, flatten_kvmap, unflatten_kvmap, platform_init).
DisplayAsConfigured ==
  LET ps == sys.conf.params
      mine == {i \in DOMAIN ps : ps[i].key = "DISPLAY"}
  IN \A c \in Conns : sys.proc[c].st = "ready" =>
       sys.proc[c].display = IF mine = {} THEN NULL ELSE ps[Max(mine)].value

\* A remote that has read all its messages logs at the master's level, also
\* when the level was stepped before, during or after its set-up
\* (set_loglevel, send_setloglevel, setup_remote).
LevelInSync ==
  /\ ChannelOpen(sys) /\ sys.proc[sys.cur].st = "ready"
  /\ sys.toRemote[sys.cur] = <<>>
  => sys.proc[sys.cur].level = sys.level

\* Once all events and messages are handled, the modifiers that are down on
\* the remote display are those held on the keyboard while the remote has the
\* focus, and none otherwise: transfer_modifiers and the forwarded key events
\* together neither lose nor leave behind a modifier.  This holds as long as
\* no key event is lost with a connection and, with X11, no modifier changes
\* between the press of a hotkey and the end of its switch and the grab is
\* granted; with OS X, as long as the tap is not disabled, and one key stands
\* for all keys of a modifier (handle_flagschanged).  The modflags of an OS X
\* remote agree, unless one of two keys of a modifier was released.
ModifiersMirror ==
  /\ Running /\ ~sys.disturbed
  /\ sys.events = <<>> /\ sys.cb = <<>> /\ sys.frames = <<>>
  /\ sys.toRemote[sys.cur] = <<>>
  => /\ sys.down = IF sys.focused = "master" THEN {}
                   ELSE IF sys.conf.master = "x11" THEN HeldMods(sys)
                   ELSE ModmaskToEtkeycodes(OsxFlags(sys.held))
     /\ sys.conf.remote = "osx" /\ sys.proc[sys.cur].st = "ready" /\ ~sys.doubled
        => sys.proc[sys.cur].flags = OsxFlags(sys.down)

\* The event tap is never left disabled while the remote has the focus: the
\* event that tells of it waits, and evtap_callback will enable the tap.  (With
\* the focus on the master, evtap_callback returns before it looks at that
\* event, and the tap stays disabled.)
TapReenabled ==
  Running /\ sys.focused = "remote" /\ ~sys.tap =>
    \E i \in DOMAIN sys.events : sys.events[i].type = "TapDisabled"

\* The passive grabs of a hotkey that names a key, and no lock, are for
\* exactly the events that match it, whichever locks are on (set_keygrab
\* against match_hotkey).
GrabsMatch ==
  sys.conf.master = "x11" => \A i \in DOMAIN sys.hotkeys :
    LET hk == sys.hotkeys[i]
    IN hk.key # NoKey /\ hk.mask \cap LockMods = {} =>
         \A state \in SUBSET Modifiers :
           state \in GrabMasks(hk) <=> MatchHotkey(hk, hk.key, state)
=============================================================================
