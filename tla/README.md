# TLA+ verification of enthrall

`enthrall` lets one machine's keyboard and mouse drive several machines. A
*master* process grabs the local input devices, starts a copy of itself on each
*remote* through ssh, and sends input, clipboard and display messages over
ssh's standard input and output. Both processes are single-threaded event loops.

This directory holds TLA+ models of that program, TLC configurations that check
them on small instances, and TLAPS proofs of the results that hold for every
instance. Every definition is a translation of the C source; `PROJECT.json`
gives the lines.

## 1. Inventory

| Part | Source | Interacts with | Module |
|---|---|---|---|
| connection life cycle | `main.c` 186-260, 478-547, 825-844, 988-1025 | timers, channel, focus | `Master`, `Backoff` |
| focus switching | `main.c` 712-739, 846-911, 1027-1094 | grabs, selection, channel | `Master` |
| focus hints (brightness transitions) | `main.c` 741-819 | timers, focus, channel | `TimedCalls`, `Master` |
| mouse-edge switching | `main.c` 1108-1258 | focus, selection wait | `EdgeSwitch`, `Master` |
| flags and topology | `main.c` 549-709, `cfg-parse.y` 357-362 | focus (neighbours) | `Topology` |
| message channel | `msgchan.c`, `message.c` | event loop, both processes | `MsgChan`, `FifoChannel` |
| monitored descriptors | `x11.c` 1300-1397, 1425-1483; `osx.c` 830-973 | channel | `FdMon`, `OsxLoop` |
| scheduled calls | `x11.c` 1257-1298, 1399-1423 | life cycle, transitions | `Timers`, `TimedCalls` |
| clipboard and selections | `x11.c` 51-70, 848-941, 1060-1069, 1126-1229; `main.c` 336-348, 712-723, 1068-1075, 1286-1290 | focus, both displays | `Selection`, `Clipboard` |
| pointer capture | `x11.c` 810-846, 966-996 | focus, X server | `Pointer` |
| remote process | `remote.c` | channel, remote display | `Session`, `Clipboard`; its channel end in `MsgChan` |
| hotkeys, modifiers, key events | `x11.c` 102-419, 769-794, 943-1040; `osx.c` 252-357, 668-733, 1084-1246; `osx-keycodes.c` 419-501 | focus | `Hotkeys`, `OsxHotkeys`, `Session` |
| key-value map | `kvmap.c`, `misc.c` 88-129 | SETUP message | `KvMap`, `Session` |
| rest of the OS X layer, key-code tables, grammar, logging, gamma, build | | | not modelled, see section 8 |

`PROJECT.json` lists all parts with their status, and the hazards of the code:
the places where interleavings, stale handles, partial failures or boundary
values can go wrong, with the properties that would show it.

## 2. How the models fit together

`Master` has the life cycle of connections and the focus, with what it stands
on abstracted. Each abstraction is a module of its own that goes into detail:
`MsgChan` for the send queues, `Timers` and `TimedCalls` for the calls it
schedules, `FdMon` and `OsxLoop` for the callbacks it is made of, `EdgeSwitch`
for the edges the mouse reaches, `Clipboard` for the texts it transfers,
`Topology` for its constants. `Session` puts keyboard, master, channel and
remote process together, with the parts of `Master` that matter for them.

Two runs check two independent components in one state machine, of which each
behaviour takes one: `EventLoops` (the descriptors on X11, or on OS X) and
`MouseInput` (edges while the master has the focus, or motion while a remote
has it). `platform` and `subject` are the choices.

## 3. Modules

**Master** models the master process. Its functions call one another in the
middle of their own updates (a full send queue met during a focus switch fails
the remote, which moves the focus), so the process state is one record `m`,
each C function is an operator from records to records, and these compose as
the calls do. An action is one event-loop callback: a hotkey (`FocusTo`,
`FocusDirection`, `FocusPrevious`, `StartLoop`, `Quit`), an X event
(`UserInput`, `MousePos`, `SelectionCleared`, `SelectionArrives`), a message or
an error on a channel (`ReceiveReady`, `ReceiveClipboard`, `ReceiveMousePos`,
`Writable`, `ChannelFails`) or a timer (`ReconnectTimer`, `BrightnessTimer`).
Three things split a callback into steps. `get_clipboard_text` runs a nested
event loop, so a suspended call is an element of `frames`. The loops over
remotes (`todo`) and over screen edges (`edges`) take one step per element and
exclude other callbacks until they end. `Env` holds what the outside decides:
the address `malloc` returns, whether the X server grants a grab, and which
brightness call has come to occupy memory that a stale handle points to. Heap
addresses matter because a `timer_ctx_t` is a pointer that the program keeps
after the call was freed. `misused`, `torn`, `disturbed` and `robbed` are
history, read by properties only.

**MsgChan** models one direction of a channel at byte level: the queue, the
partly sent and partly received message, and a stream of bounded capacity.
A byte names the message and the position it belongs to, so that a reader that
loses its place cannot parse anything by luck. **FifoChannel** is what the
channel promises: order, no duplicates, no inventions, and losses only at the
end when a connection fails. `MsgChan` ends with the refinement mapping: `sent`
and `rcvd` are history, `Carried` says up to which message the bytes under way
are whole, and these messages and the queue are what is in transit.

**FdMon** models the doubly linked list of descriptor contexts with explicit
pointers and reference counts, and the walk of `handle_fds`. Callbacks may
register or unregister any context at any point, and memory and descriptor
numbers are reused. **OsxLoop** is its counterpart on OS X, where the system
calls `fdmon_callback` for a context after disabling the callbacks that fired
(`OsxFire`), and the function enables them again at its end (`OsxFinish`).

**Timers** models the ordered list of calls, the pass that runs those due
(`Begin`, `RunCall`, `Return`), and the time-out handed to `select` (`Select`,
`Wake`). Time passes while calls run. `LinkAt` and `UnlinkAt` are the pointer
updates of `schedule_call` and `cancel_call`. **TimedCalls** adds what the master
schedules: `transition_brightness`, with the levels of its steps, and
reconnections after the delay that **Backoff** computes in words of `WordBits`
bits. `FocusNode` is a switch up to a possible clipboard wait, `FocusWaited`
its end. `p.shown` is the level each screen was given last; `crossed` is history.

**EdgeSwitch** models one node's edge mask and rings of event times, the loop
of `check_edgeevents` over directions, and its re-entry during a clipboard wait.

**Pointer** models the position of the pointer, the queue of motion events and
`last_seen_mousepos`, for one coordinate. `UserMoves` is the X server (external);
`GrabInputs`, `Focus` and `UngrabInputs` are the steps of a switch, between which
motion goes to `LocalMousemove`; `GrabbedMousemove` sends motion and warps the
pointer. `drift` compares what was sent with what was moved; it, `exact` and
`seen` are history.

**Selection** holds the X11 clipboard of a process as operators on a record:
the owner of PRIMARY and CLIPBOARD, the event queue, the property that a
conversion fills, and the process's `clipboard_text`, `xselection_owned_since`
and `last_xevent_time`. Another client takes selections, asks for them, and
answers or refuses requests. **Clipboard** composes it with hotkeys, the focus,
the messages GETCLIPBOARD and SETCLIPBOARD and the remote's text. Calls of
`get_clipboard_text` that wait are a stack, as events handled in the wait may
start another one; `Dispatch` handles one event, in the main loop or in the
innermost wait, `Notified` and `GiveUp` end that wait. Where the C code leaves
the order of evaluation open (`main.c` 1289), both orders are taken (`early`).

**Session** composes a keyboard, the event queue, the master and the processes
of one remote; each end is on X11 or on OS X, as the configuration says.
`PressKey` and `ReleaseKey` are the keyboard and the X server (external);
`HandleEvent` and `ActionCb` are the two halves of a hotkey, between which the
keymap that the first read can go out of date. On OS X, `OsxChangeKey` and
`TapTimeout` are the keyboard and the system, and `EvtapCallback` is the event
tap. `ProcReceive` and `ProcError` are the remote process. Connections are FIFO
queues, which `MsgChan` justifies, and fail at any time (`ChannelFails`,
`ProcError`). A closed connection's process may go on with what it has while
the next one is set up. **Hotkeys** and **OsxHotkeys** hold key strings,
bindings, matching and, for X11, passive grabs as operators, with masks as sets;
**KvMap** the list of parameters and its passage through SETUP. `disturbed`,
`doubled` and `protoerr` are history, and so is `settled`, which turns false for
a hotkey when a modifier changes before its switch ends.

**Topology** models what `main` makes of the flags and links before connecting.

## 4. Runs

All runs and their bounds are in the `.cfg` files.

| Run | Shows | Bounds, and why they are enough |
|---|---|---|
| `master` | `TypeOK`, `OneChildPerConnection`, `ReconnectCallOwned`, `FailedIsScheduled`, `RetriesBounded`, `FocusedConnected`, `FocusedGrabbed`, `GrabNotStuck`, `HaltStopsAttempts` | two remotes and two heap addresses: the least with which one remote's stale handle can name another's call; one retry reaches both FAILED and PERMFAILED; a backlog of two fills up; a cyclic topology of three nodes with the switches made by the mouse, the hotkey halt-reconnects, one nested wait, clicks sent twice |
| `hints` | `FailedRetried` | one remote and the other hotkeys, transitions of two steps, two pending per node, under fairness; that several remotes keep their calls apart is the safety property `FailedIsScheduled`, which is proved |
| `session` | `NoProtocolError`, `DisplayAsConfigured`, `LevelInSync`, `ModifiersMirror`, `GrabsMatch`, `TapReenabled` | nine configurations: one modifier and one plain key in both directions of the switch; two plain keys over two connections, where an old process outlives its connection; both keys of a modifier; masters and remotes on OS X; three configurations that are refused. Two key events wait at most, in the second and third of these kinds one; two keys are held |
| `clipboard` | `CacheMatchesOwnership`, `GetIsCurrent`, `PasteServed`, `ClipboardFollows`, `WaitAnswered` | two texts, which are interchangeable (symmetry); four copies and hotkeys in any order, enough for a copy, a switch, a nested switch and its return; one foreign request waits, with a time at most one tick back |
| `channel` | `WriteWakeup`, `PayloadAllocated`, `ImplementsFifo`, `Delivery` | messages of three and four bytes over a stream of three: every message is cut, at every byte; two connections |
| `timers` | `RunsInOrder`, `NoUnderflow`, `ScreensSettle`, `CatchesUp` | one remote and the master; transitions of two steps that take no time, so that all steps have the same time, or two ticks, so that switches overlap; nine calls; delays of two bits |
| `event_loops` | `ListIntact`, `WalkOnLive`, `AllReadyCalled`, `OnlySelected`, `WalkEnds`, `CallbacksArmed` | three contexts: head, middle and tail; one descriptor number, which every context reuses, with two kinds of readiness to tell contexts apart |
| `mouse` | `MultiTap`, `InSync`, `PointerFollows` | a ring of three and double taps, so that the look-back is the largest the parser accepts and the ring wraps; two directions make a corner; one nested call. A screen of nine positions with motions of up to three and three queued events: the pointer reaches an edge, and events stay queued across a warp |
| `topology` | `AppliedAsWritten`, `ReachableExact` | two flags over four names, two links over two remotes and the master in one direction, cycles included; the alias of one remote is the hostname of the other |

Deadlock is not checked where the system may stop: the master exits, a channel
is closed for good, set-up ends, or a bound on clock or events is reached.
`event_loops` checks it.

Three runs end in a violation, each of a sentence in the repository's documents
or comments:

- `stale_timer` (`EveryFailedRetried`): `reconnect_timer` keeps the handle of a
  cancelled call. If the allocator reuses the address, the next cancellation
  removes another remote's reconnect call, and that remote is never retried.
- `focus_race` (`FocusNeverOnDisconnected`): the target of a switch can fail
  after `focus_node` has tested it and before it is assigned to `focused_node`.
- `closed_send` (`NoSendOnClosedChannel`): step-log-level sends to remotes
  without a channel.

The passing properties `FailedRetried` and `FocusedConnected` state what holds
outside those cases; the history variables `robbed` and `torn` delimit them.

### Limits of the code that show in how properties are stated

- `HaltStopsAttempts` speaks of enabled remotes only: a disabled remote that a
  focus hotkey started to connect to is not visited by `halt_reconnects`
  (`main.c` 870-872, 1004).
- `InSync` excepts executions in which `check_edgeevents` was re-entered during a
  clipboard wait: the halted loop then goes on with an older mask, and an
  arrival can be ignored as out of sync (`main.c` 1237-1252). `MultiTap` is
  checked from a start later than the tap window: event times of zero count as
  taps when the clock itself is younger than that.
- `ModifiersMirror` excepts three cases on X11, each of which can leave a
  modifier down on the remote. A modifier may change between the press of a
  hotkey and the end of its switch: the comment at `x11.c` 238-241 suspects this
  of the keymap query, and the clipboard wait widens the window, as key releases
  handled in it are dropped while the modifiers read before it are pressed after
  it (`main.c` 899-900). The keyboard grab may be refused, and a connection may
  end with key events under way or while it has the focus. For plain keys nothing
  similar holds: a release that matches a hotkey is dropped even if its press was
  forwarded (`x11.c` 1038). On OS X the tap must not have been disabled; and the
  `modflags` of an OS X remote lose a modifier when one of its two keys is
  released (`osx.c` 708).
- `TapReenabled` speaks of a remote with the focus: `evtap_callback` returns for
  a focused master (`osx.c` 1185) before it looks at the event that says the tap
  was disabled, and the tap then stays so.
- `GrabsMatch` excepts key strings that name a lock, which are matched without it
  but grabbed only with it, and those that name no key, which are accepted, grab
  every key and match none (`x11.c` 305, 357). On OS X a key string without a key
  has key code 0, the key A (`osx-keycodes.c` 438, 481); the configuration with
  `control` and `control+a` is refused for that.
- `CacheMatchesOwnership` excepts a SelectionClear for an earlier loss that is
  read after a new text was set: it clears the new text, as the handler compares
  neither time nor text (`x11.c` 1064-1069).
- `GetIsCurrent` excepts calls of `get_clipboard_text` that meet the answer to
  another one, as a SelectionNotify is taken by whichever call waits (`x11.c`
  1156), and a loss that only a SelectionClear still unread would tell of.
- `ClipboardFollows` excepts hotkeys and copies made before the transfer of an
  earlier switch is complete. A SETCLIPBOARD answer that arrives late replaces a
  newer text, also after clear-clipboard (`main.c` 1286-1289).
- `PasteServed` is about times that do not wrap; X times are 32-bit numbers of
  milliseconds, and the comparison at `x11.c` 921 does not allow for that.
- `WaitAnswered` is the most that can be said of the end of a wait: the time-out
  is tested between events only (`x11.c` 1154-1155), so a selection owner that
  never answers halts the master until some event arrives.
- `ScreensSettle` excepts hotkeys handled while a switch waits for the clipboard.
  It assumes that a new remote process finds its screen bright. That need not be
  so while the process of an earlier connection still dims it, as the ramps of
  `xrr_init` are read at the start (`x11.c` 421-450).
- `PointerFollows` excepts two cases from its sum. `last_seen_mousepos` is not
  set by `grab_inputs`, and the event at the centre that would set it is
  ignored if the remote has the focus by then, so that the first motion can
  jump (`x11.c` 973-977). An event that was queued when the pointer was warped is
  compared with the centre although it is from before, so that part of its
  motion is sent twice (`x11.c` 980-983).

## 5. Fairness

- `Master`: `run_scheduled_calls` runs on every pass of `handle_fds`, so a
  pending reconnect call is taken eventually although nested waits disable it
  in between (strong fairness); loops are sequential code (weak fairness); a
  clipboard wait ends with the owner's answer or with the first event after its
  time-out, also if every event handled in it starts a loop over the remotes
  (strong fairness). No fairness is assumed of users, remotes or the network.
- `MsgChan`: `select` reports a stream with room or with bytes, and the
  callback then moves at least one byte.
- `EventLoops`: the walk of `handle_fds` goes on, and callbacks return.
- `TimedCalls`: `handle_fds` and the functions it calls go on, the clock advances,
  `select` returns at its time-out, and a clipboard wait ends.

## 6. Proofs

`Master_proofs` proves `TypeCorrect`, `OneChild`, `CallOwned`,
`FailedScheduled` and `RetriesAreBounded`: five invariants of the run
`master`, for any set of remotes, topology, configuration and allocator that
satisfies `MasterAssumption`. None is inductive alone. That a failed remote's
timer names its call needs that calls belong to failed remotes (else scheduling
could overwrite one), which needs that setting up a remote has cancelled or
consumed its call, which needs that a remote being set up has a channel. The
inductive invariant `IInv` is their conjunction while the master runs, and only
types and reaped children afterwards, since an aborted process stops in the
middle of a function. As a C function is an operator on states, so is its lemma
("the invariant holds after it if it held before"), in calling order;
`Others(s, r)` is the invariant for all remotes but `r`, for the middle of a
transition of `r`. The lemma on `Next` combines one case per action.

Its second half proves the other four invariants of that run:
`FocusConnected`, `FocusGrabbed`, `GrabReleased` and `HaltStops`. Every C
function below `focus_node` leaves the focus where it is or reverts it to the
master, whatever nesting of failures it meets. That relation between two states,
`Shift`, is transitive, so each function has it from the functions it calls. The
invariant `Focus` adds what holds while a switch waits for the clipboard: the
master still has the focus and the grab is already held. `Halting` says of the
loop of `halt_reconnects` that the remotes it has visited stay at rest.

`MsgChan_proofs` proves `WakeupInvariant` and `PayloadInvariant`: the write
monitor is on exactly when there is outbound data, and the assertion in
`fill_msgbuf` never fails, for every message format, backlog and capacity. The
invariant adds the types of the buffers: without `sendbuf` being a byte
sequence, what `drain_msgbuf` leaves could not be compared with empty. It also
proves `Refinement`: `MsgChan` implements `FifoChannel`. The invariant `FlowInv`
says that the bytes before the receiver's parser spell the messages sent, from
the end of the last one received (`Spelled`, over the ends `Ends` of the messages
in the stream), and that while both ends are open they stop where the first
message of the queue begins. From it follows for each action which step of the
FIFO queue it is, or that it is none: a write moves bytes and changes nothing in
transit, a read that completes a message takes the first.

`Clipboard_proofs` proves `CacheSound` and `RequestsGranted` (the properties
`CacheMatchesOwnership` and `PasteServed`) for any texts, any number of events
and any depth of nested waits. The invariant `Good` adds two things. A process
that owns both selections and met no stale SelectionClear has none to read,
without which a later one could take its text away. And times are ordered: no
event is later than the server's clock, and the process's `since` is not later
than the moment the text was set, which makes the comparison of
`handle_selection_request` grant what it should. It also proves `TextFollows`
(`ClipboardFollows`). While nothing has disturbed a transfer, the two processes
are in one of six stages (`Stage`): at rest; a hotkey or a SelectionClear to read;
the text on its way to the remote; asked of the remote; on its way to the master;
or waited for by a switch, with one conversion under way that ends with the text
copied last. What belongs to a stage is the only event or message of its kind, so
requests of other clients, which come and are answered at any time, do not end it
(`Keeps`, `Lone`, `None`). Each action keeps the stage, leads to the next, or is
a disturbance.

`ClipboardWaits_proofs` proves `TextCurrent` and `NoWaitInVain` (`GetIsCurrent`
and `WaitAnswered`) for any depth of nested waits. The invariant `CleanInv` counts
the answers to come: those another client owes, the SelectionNotify events in the
queue, and the process's own requests there, each of which turns into one.
Starting a wait adds one; ending one takes at most one off. And it says
of a call that has been alone that the only conversion under way is its own and
ends with a text that PRIMARY had since the call began: the owner's text, the
cache if the process is to answer itself, or the property already written. The
two facts need each other: that a lone call meets no foreign answer is a matter of
how many there are.

`EventLoops_proofs` proves `ListStaysIntact`, `WalkStaysLive`, `NoneSkipped` and
`NoneUnselected` for any finite set of contexts, and `Armed` (`CallbacksArmed`)
for any set. For X11 the invariant has a witness: a sequence of contexts that
the links spell in both directions, and a position in it where the walk of
`handle_fds` stands. What was registered since `select()` lies before the
position, what is still to be called lies at it or after it; registering adds a
context in front, and dropping the last reference takes one out. On both
platforms every reference count is known exactly: one for the owner, one for the
walk, or for `fdmon_callback`, while it works on the context.

`ScheduledCalls_proofs` has a lemma for each function that schedules or cancels
calls: what it does to the list and to the state of the remotes. Of these
`DelayCapped` and `DelayDoubles` stand alone: the reconnect delay is at most
`max_interval`, never wraps, and doubles until it is capped, for every number of
failures and every width of word. `BackoffAssumption` states what the prover does
not know of powers of two, and that the interval in units fits half a word, as 64
bits ensure for a unit of 500000.

`TimedCalls_proofs` proves `CallsInOrder`, `TimeoutPositive` and `Settling`
(`RunsInOrder`, `NoUnderflow`, `ScreensSettle`) for any set of remotes, number of
steps and duration. In the invariant the list is sorted by time and then by the
order of scheduling; no step of a transition is later than the duration of the
hint from now, so that the steps of a later transition come after those of an
earlier one, which is why the last one wins; a reconnect call on the list belongs
to a failed remote whose timer names it, so that cancelling takes no step off the
list; and with `flash_active` every step that is pending, also of a lost
connection, leads to a bright screen.

`MouseInput_proofs` proves `TapsCounted` (`MultiTap`), `EdgesInSync` (`InSync`)
and `Follows` (`PointerFollows`). The invariant `Kept` of a ring says that looking
back `rel` entries finds the event that is `rel` from the end of the history, for
every `rel` below the length of the ring, wrapped around or not, and that
arrivals and departures alternate. The arrivals are then every second event, and
those within the window are counted by a bijection onto an interval; so the one
entry that the code looks at decides. `Synced` relates mask and rings in the
middle of the loop: they disagree on just the directions still to be handled. For
the pointer, on screens of any width, the invariant says where it is while events
are queued, at the position in the last of them, and that what has not been sent
is the way from `last_seen_mousepos` to the pointer.

Facts about all numbers up to a bound, as that a sorted list has one place for a
new element, are derived from the least element of a set (`LeastOf`, from the
library's theorem on well-founded relations), since induction itself is out of
the prover's reach.

## 7. Only model-checked

Liveness (`FailedRetried`, `Delivery`, `WalkEnds`, `CatchesUp`) needs fairness
and `ENABLED`, which the prover does not support. What `Session` and `Topology`
say of parameters, key strings, flags and paths rests on folds and recursion,
which would need induction over data. They are checked on the instances above.

## 8. Not modelled

- OS X: timers (CFRunLoopTimers, whose order the repository does not define),
  clipboard, gamma and display calls (single calls of system frameworks), clicks
  and scrolling (forwarded, with a click counter that depends on real times).
- X11 display set-up and RandR gamma: Xlib calls in a fixed order and
  floating-point data. Raw motion events and buttons: only as what their handlers
  pass on.
- Start-up before the event loop: the ssh-agent, environment, command line and
  log file, and the arguments of ssh (`main.c` 59-185, 363-456, 913-947,
  1311-1509): sequential code that changes none of the state modelled.
- Key-code tables, lexer, grammar, log output, Makefiles: data, generated code or
  output, without control of their own.
- Xlib, ssh, the kernel: external; their outcomes are choices in the models.
- Signals between two instructions: `Quit` happens between callbacks only.
- A MOUSEPOS answer that arrives after the focus has moved on is handled in
  `Master` (`ReceiveMousePos`), but no document says what it should do, so no
  property is about it.
