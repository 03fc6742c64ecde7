------------------------------ MODULE Clipboard ------------------------------
(***************************************************************************)
(* Clipboard text between the master, an X11 process modelled by           *)
(* Selection, and one connected remote whose clipboard is a text.  Hotkeys *)
(* switch the focus and clear the clipboards; they are X events and are    *)
(* also handled inside the wait of get_clipboard_text (x11.c).  Messages   *)
(* and replies (main.c, remote.c) are handled outside of it.               *)
(***************************************************************************)
EXTENDS Selection

CONSTANTS
  MaxTime,     \* bound: copies and hotkeys, which advance the server time
  MaxPastes,   \* bound: requests that wait in the queue
  MaxAge       \* bound: how long ago the time is that a request names

ASSUME ClipboardAssumption ==
  /\ "" \notin Texts /\ NULL \notin AllTexts
  /\ {MaxTime, MaxPastes, MaxAge} \subseteq Nat

VARIABLES
  x,          \* X server and selection state of the master
  waits,      \* calls of get_clipboard_text that wait, innermost first
  due,        \* the loop of the innermost one has found its time up
  focused,    \* focused_node
  toRemote, toMaster,
  rtext,      \* clipboard of the remote
  \* history, for the properties only:
  got,        \* what get_clipboard_text returned last
  denied,     \* a request that should be granted was refused
  stale,      \* a SelectionClear was unread when the text was last set
  settime,    \* the server time at which it was
  newest,     \* text of the last copy, or "" after clear-clipboard
  holders,    \* nodes that should have it
  calm        \* nothing has raced with it since

history == <<got, denied, stale, settime, newest, holders, calm>>
vars == <<x, waits, due, focused, toRemote, toMaster, rtext, history>>

(***************************************************************************)
(* A wait: what the caller does with the text, whether its time has run    *)
(* out and, for the properties, the texts that PRIMARY had meanwhile and   *)
(* whether no other conversion was under way.                              *)
(***************************************************************************)
Wait == [kind : {"switch", "forward"}, expired : BOOLEAN,
         seen : SUBSET AllTexts, clean : BOOLEAN]

Message == [type : {"GET"}] \cup [type : {"SET"}, text : AllTexts]

-----------------------------------------------------------------------------
(***************************************************************************)
(* The callbacks, as actions on x, waits, focused, toRemote and got.  y is *)
(* the selection state that the callback has reached when it is called.    *)
(***************************************************************************)
SendSetclipboard(text) == toRemote' = Append(toRemote, [type |-> "SET", text |-> text])

\* The caller of get_clipboard_text has its text: transfer_clipboard and the
\* end of focus_node, or the second half of the MT_SETCLIPBOARD handler.
\* early: the latter evaluates focused_node->remote before it calls
\* get_clipboard_text; the order is unspecified, and it may be NULL after.
Use(kind, text, early) ==
  /\ IF kind = "switch" \/ focused = "remote" \/ early
     THEN SendSetclipboard(text) ELSE UNCHANGED toRemote
  /\ focused' = IF kind = "switch" THEN "remote" ELSE focused

\* History: PRIMARY has the text that y says.
Noted(y) == [i \in DOMAIN waits |-> [waits[i] EXCEPT !.seen = @ \cup {PrimaryText(y)}]]

\* A wait that begins is alone if no other conversion is under way.
Alone(y) ==
  /\ waits = <<>> /\ y.asks = <<>> /\ ~HasEvent(y, "Notify")
  /\ ~\E i \in DOMAIN y.queue : y.queue[i].type = "Request" /\ y.queue[i].from = "us"

\* get_clipboard_text up to its wait.
GetClipboardText(y, kind) ==
  IF UsesCache(y)
  THEN /\ x' = y /\ waits' = waits
       /\ got' = [text |-> y.cache, seen |-> {PrimaryText(y)},
                   clean |-> y.since = 0 \/ ~HasEvent(y, "Clear")]
       /\ Use(kind, y.cache, TRUE)
  ELSE /\ x' = ConvertSelection(y)
       /\ waits' = <<[kind |-> kind, expired |-> FALSE, seen |-> {PrimaryText(y)},
                      clean |-> Alone(y)]>>
                     \o [i \in DOMAIN waits |-> [waits[i] EXCEPT !.clean = FALSE]]
       /\ UNCHANGED <<focused, toRemote, got>>

\* get_clipboard_text returns from its innermost wait.
Return(y, text, early) ==
  LET w == Head(waits)
  IN /\ x' = y /\ waits' = Tail(waits)
     /\ got' = [text |-> text, seen |-> w.seen, clean |-> w.clean]
     /\ Use(w.kind, text, early)

\* Mutant: nothing is fetched from the remote that loses the focus.
FocusMasterNoFetch(y) ==
  /\ focused' = "master"
  /\ x' = y /\ UNCHANGED <<waits, toRemote, got>>

\* focus_node, from the remote to the master.
FocusMaster(y) ==
  /\ toRemote' = Append(toRemote, [type |-> "GET"]) /\ focused' = "master"
  /\ x' = y /\ UNCHANGED <<waits, got>>

Only(y) == x' = y /\ UNCHANGED <<waits, focused, toRemote, got>>

\* AT_CLEARCLIPBOARD in action_cb.
ClearClipboards(y, lost, t) ==
  LET z == SetClipboardText(y, "", lost, t)
  IN x' = z /\ waits' = Noted(z) /\ SendSetclipboard("") /\ UNCHANGED <<focused, got>>

\* action_cb; focus_node does nothing for the node that has the focus.
ActionCb(y, action, lost, t) ==
  CASE action = "clear" -> ClearClipboards(y, lost, t)
    [] action = "master" /\ focused = "remote" -> FocusMaster(y)
    [] action = "remote" /\ focused = "master" -> GetClipboardText(y, "switch")
    [] OTHER -> Only(y)

\* Mutant: while it waits, get_clipboard_text serves no requests.
HandleEventUnserved(y, ev, lost, t) ==
  CASE ev.type = "Key" -> ActionCb(y, ev.action, lost, t)
    [] ev.type = "Clear" -> Only(HandleSelectionClear(y, ev))
    [] ev.type = "Request" /\ waits = <<>> -> Only(HandleSelectionRequest(y, ev))
    [] OTHER -> Only(y)

\* handle_event; a SelectionNotify that nobody waits for is ignored.
HandleEvent(y, ev, lost, t) ==
  CASE ev.type = "Key" -> ActionCb(y, ev.action, lost, t)
    [] ev.type = "Clear" -> Only(HandleSelectionClear(y, ev))
    [] ev.type = "Request" -> Only(HandleSelectionRequest(y, ev))
    [] OTHER -> Only(y)

\* After an event, the loop of the innermost wait tests its time.
TestTime == due' = (waits' # <<>> /\ Head(waits').expired)

-----------------------------------------------------------------------------
\* At the start the selections have no owner, or the other client.
Init ==
  /\ \/ x = SelectionInit("none", "")
     \/ \E t \in Texts : x = SelectionInit("them", t)
  /\ waits = <<>> /\ due = FALSE /\ focused = "master"
  /\ toRemote = <<>> /\ toMaster = <<>> /\ rtext = ""
  /\ got = [text |-> "", seen |-> {}, clean |-> TRUE]
  /\ denied = FALSE /\ stale = FALSE /\ settime = 0
  /\ newest = x.theirs /\ holders = {"master"} /\ calm = TRUE

\* No transfer is under way.
AtRest ==
  /\ waits = <<>> /\ x.asks = <<>> /\ toRemote = <<>> /\ toMaster = <<>>
  /\ \A i \in DOMAIN x.queue : x.queue[i].type = "Request" /\ x.queue[i].from = "them"

\* History of a call of set_clipboard_text.
NoteSet(lost) ==
  /\ stale' = HasEvent(x, "Clear")
  /\ settime' = x.clock
  /\ calm' = (calm /\ lost = "none")

\* Another client of the master's display takes a selection.
TheirCopy(a, t) ==
  /\ x.clock < MaxTime
  /\ x' = Take(x, a, t)
  /\ waits' = Noted(x')
  /\ IF a = "PRIMARY"
     THEN newest' = t /\ holders' = {"master"} /\ calm' = (AtRest /\ focused = "master")
     ELSE calm' = FALSE /\ UNCHANGED <<newest, holders>>
  /\ UNCHANGED <<due, focused, toRemote, toMaster, rtext, got, denied, stale, settime>>

TheirAnswer(ok) ==
  /\ x.asks # <<>>
  /\ x' = Answer(x, ok)
  /\ calm' = (calm /\ ok)
  /\ UNCHANGED <<waits, due, focused, toRemote, toMaster, rtext, got, denied, stale,
                 settime, newest, holders>>

TheirPaste(a, time) ==
  /\ x.owner[a] = "us"
  /\ Cardinality({i \in DOMAIN x.queue : x.queue[i].type = "Request"}) < MaxPastes
  /\ time = 0 \/ x.clock - time <= MaxAge
  /\ x' = Paste(x, a, time)
  /\ UNCHANGED <<waits, due, focused, toRemote, toMaster, rtext, history>>

PressHotkey(action) ==
  /\ x.clock < MaxTime
  /\ x' = [x EXCEPT !.clock = @ + 1,
                    !.queue = Append(@, [type |-> "Key", action |-> action,
                                         time |-> x.clock + 1])]
  /\ calm' = (calm /\ AtRest)
  /\ UNCHANGED <<waits, due, focused, toRemote, toMaster, rtext, got, denied, stale,
                 settime, newest, holders>>

\* The user of the remote copies a text.
RemoteCopy(t) ==
  /\ focused = "remote" /\ x.clock < MaxTime
  /\ x' = [x EXCEPT !.clock = @ + 1]
  /\ rtext' = t
  /\ newest' = t /\ holders' = {"remote"} /\ calm' = AtRest
  /\ UNCHANGED <<waits, due, focused, toRemote, toMaster, got, denied, stale, settime>>

\* SELECTION_TIMEOUT_US have passed since the start of a wait; the outermost
\* one began first.  XNextEvent does not return for it.
TimeOut ==
  /\ \E i \in DOMAIN waits :
       /\ \A j \in DOMAIN waits : waits[j].expired <=> j > i
       /\ waits' = [waits EXCEPT ![i].expired = TRUE]
  /\ UNCHANGED <<x, due, focused, toRemote, toMaster, rtext, history>>

\* process_events, or the loop of get_clipboard_text, on an event that
\* nobody waits for.
Dispatch(lost, t) ==
  /\ ~due /\ x.queue # <<>>
  /\ lost # "none" => x.clock < MaxTime
  /\ LET ev == Head(x.queue)
     IN /\ ev.type = "Notify" => waits = <<>>
        /\ (ev.type # "Key" \/ ev.action # "clear") => lost = "none"
        /\ HandleEvent(GetXevent(x), ev, lost, t)
        /\ TestTime
        /\ IF ev.type = "Key" /\ ev.action = "clear"
           THEN NoteSet(lost) /\ newest' = "" /\ holders' = {"master", "remote"}
           ELSE /\ holders' = IF ev.type = "Key" THEN holders \cup {ev.action} ELSE holders
                /\ UNCHANGED <<stale, settime, newest, calm>>
        /\ denied' = (\/ denied
                      \/ /\ ev.type = "Request" /\ Refuses(x, ev)
                         /\ ev.time = 0 \/ ev.time >= settime
                         /\ OwnsAll(x) /\ ~stale)
  /\ UNCHANGED <<toMaster, rtext>>

\* get_clipboard_text on a SelectionNotify, whoever asked for it.
Notified(early) ==
  /\ ~due /\ x.queue # <<>> /\ Head(x.queue).type = "Notify" /\ waits # <<>>
  /\ LET ev == Head(x.queue)
         y  == GetXevent(x)
     IN Return(ReadProperty(y, ev), NotifiedText(y, ev), early)
  /\ TestTime
  /\ UNCHANGED <<toMaster, rtext, denied, stale, settime, newest, holders, calm>>

\* "timed out waiting for selection"
GiveUp(early) ==
  /\ due
  /\ Return(x, "", early)
  /\ TestTime
  /\ calm' = FALSE
  /\ UNCHANGED <<toMaster, rtext, denied, stale, settime, newest, holders>>

\* The master's handle_message on MT_SETCLIPBOARD.
ReceiveSet(lost, t) ==
  /\ waits = <<>> /\ toMaster # <<>>
  /\ lost # "none" => x.clock < MaxTime
  /\ LET y == SetClipboardText(x, Head(toMaster).text, lost, t)
     IN IF focused = "remote" THEN GetClipboardText(y, "forward") ELSE Only(y)
  /\ TestTime
  /\ toMaster' = Tail(toMaster)
  /\ NoteSet(lost)
  /\ UNCHANGED <<rtext, denied, newest, holders>>

\* The remote's handle_message.
RemoteReceive ==
  /\ toRemote # <<>>
  /\ toRemote' = Tail(toRemote)
  /\ IF Head(toRemote).type = "GET"
     THEN toMaster' = Append(toMaster, [type |-> "SET", text |-> rtext]) /\ UNCHANGED rtext
     ELSE rtext' = Head(toRemote).text /\ UNCHANGED toMaster
  /\ UNCHANGED <<x, waits, due, focused, history>>

Next ==
  \/ \E a \in Atoms, t \in Texts : TheirCopy(a, t)
  \/ \E ok \in BOOLEAN : TheirAnswer(ok)
  \/ \E a \in Atoms, time \in 0..x.clock : TheirPaste(a, time)
  \/ \E action \in {"remote", "master", "clear"} : PressHotkey(action)
  \/ \E t \in Texts : RemoteCopy(t)
  \/ TimeOut
  \/ \E lost \in Atoms \cup {"none"}, t \in Texts :
       Dispatch(lost, t) \/ ReceiveSet(lost, t)
  \/ \E early \in BOOLEAN : Notified(early) \/ GiveUp(early)
  \/ RemoteReceive

Spec == Init /\ [][Next]_vars

-----------------------------------------------------------------------------
\* The cached text stands for ownership of both selections: once every
\* SelectionClear has been read, a process with a text owns both, and one that
\* owns both has a text, unless a SelectionClear for an earlier loss was read
\* after the text was set (set_clipboard_text, also when it fails half way,
\* and SelectionClear in handle_event).
CacheMatchesOwnership ==
  /\ x.cache # NULL /\ ~HasEvent(x, "Clear") => OwnsAll(x)
  /\ OwnsAll(x) /\ ~stale => x.cache # NULL

\* A text that get_clipboard_text returns is one that the owner of PRIMARY had
\* during the call, never one of an earlier owner: neither the cache after
\* set_clipboard_text failed to get the selections, nor the property of an
\* earlier conversion.  Excepted are calls that meet the answer to a request
\* given up or made by a nested call, and a loss of the selections that the
\* process could only learn from a SelectionClear still unread.
GetIsCurrent == got.text # "" /\ got.clean => got.text \in got.seen

\* While the process owns both selections it refuses no request for its text
\* that is made after the text was set, whether with its own time or with
\* CurrentTime: xselection_owned_since is never later than the selection was
\* taken (handle_selection_request, get_xevent, set_clipboard_text).
PasteServed == ~denied

\* The clipboard follows the focus.  At rest, the text copied last on the
\* focused node is the text of every node the focus has gone to since, and
\* after clear-clipboard both are empty, whichever way get_clipboard_text
\* finds it.  This holds if each hotkey waits until the transfer before it is
\* complete, the text is copied to PRIMARY on the focused node, and no owner
\* refuses or is late (transfer_clipboard, handle_message, action_cb).
ClipboardFollows ==
  AtRest /\ calm =>
    /\ "master" \in holders => PrimaryText(x) = newest
    /\ "remote" \in holders => rtext = newest

\* The events in q that answer a conversion, or that the process will answer.
Answers(q) ==
  {i \in DOMAIN q : q[i].type = "Notify" \/ (q[i].type = "Request" /\ q[i].from = "us")}

\* No call of get_clipboard_text waits in vain, even if its time-out is not
\* looked at while XNextEvent blocks: for every call that waits there is a
\* conversion that the owner of PRIMARY has yet to answer, or an answer in the
\* queue, although nested calls take each other's answers and the process may
\* have to answer itself.
WaitAnswered == Len(waits) <= Len(x.asks) + Cardinality(Answers(x.queue))
=============================================================================
