------------------------------ MODULE Selection ------------------------------
(***************************************************************************)
(* The clipboard of an X11 process (x11.c): the PRIMARY and CLIPBOARD      *)
(* selections, the text cached while the process owns them, the requests   *)
(* of other clients, and the conversion it asks for when another client    *)
(* owns PRIMARY.  `them' is any other client.  Of the targets of a request *)
(* only text is modelled.  A record x holds the X server's and the         *)
(* process's share; operators map it to its next value.                    *)
(***************************************************************************)
EXTENDS Integers, Sequences, FiniteSets

CONSTANTS
  Texts,       \* what users copy
  NULL         \* no text: a null pointer, an absent property

\* clipboard_xatoms, in its order.
Atoms == {"PRIMARY", "CLIPBOARD"}

AllTexts == Texts \cup {""}

\* X times; 0 is CurrentTime.
Event ==
  [type : {"Clear"}, atom : Atoms, time : Nat]
  \cup [type : {"Request"}, from : {"us", "them"}, atom : Atoms, time : Nat]
  \cup [type : {"Notify"}, ok : BOOLEAN, time : Nat]
  \cup [type : {"Key"}, action : {"remote", "master", "clear"}, time : Nat]

SelectionState ==
  [clock  : Nat,                                \* server time
   owner  : [Atoms -> {"none", "us", "them"}],
   theirs : AllTexts,                           \* PRIMARY of the other client
   prop   : AllTexts \cup {NULL},               \* et_selection_data on xwin
   queue  : Seq(Event),                         \* events for this process
   asks   : Seq(Nat),                           \* conversions they owe us
   cache  : AllTexts \cup {NULL},               \* clipboard_text
   since  : Nat,                                \* xselection_owned_since
   lastev : Nat]                                \* last_xevent_time

\* At the start: o owns the selections, with text t.
SelectionInit(o, t) ==
  [clock |-> 1, owner |-> [a \in Atoms |-> o], theirs |-> t, prop |-> NULL,
   queue |-> <<>>, asks |-> <<>>, cache |-> NULL, since |-> 0, lastev |-> 0]

HasEvent(x, type) == \E i \in DOMAIN x.queue : x.queue[i].type = type

OwnsAll(x) == \A a \in Atoms : x.owner[a] = "us"

\* The text that the owner of PRIMARY has.
PrimaryText(x) ==
  IF x.owner["PRIMARY"] = "them" THEN x.theirs
  ELSE IF x.owner["PRIMARY"] = "us" /\ x.cache # NULL THEN x.cache ELSE ""

-----------------------------------------------------------------------------
(***************************************************************************)
(* The X server and the other client.                                      *)
(***************************************************************************)
\* They take selection a; the owner that loses it is told.
Take(x, a, t) ==
  [x EXCEPT !.clock = @ + 1,
            !.owner[a] = "them",
            !.theirs = IF a = "PRIMARY" THEN t ELSE @,
            !.queue = IF x.owner[a] = "us"
                      THEN Append(@, [type |-> "Clear", atom |-> a, time |-> x.clock + 1])
                      ELSE @]

\* They answer our oldest conversion request, or refuse it.
Answer(x, ok) ==
  [x EXCEPT !.asks = Tail(@),
            !.prop = IF ok THEN x.theirs ELSE @,
            !.queue = Append(@, [type |-> "Notify", ok |-> ok, time |-> Head(x.asks)])]

\* They ask for selection a, with a time of their choice.
Paste(x, a, time) ==
  [x EXCEPT !.queue = Append(@, [type |-> "Request", from |-> "them", atom |-> a,
                                 time |-> time])]

\* XConvertSelection on PRIMARY.
ConvertSelection(x) ==
  CASE x.owner["PRIMARY"] = "none" ->
         [x EXCEPT !.queue = Append(@, [type |-> "Notify", ok |-> FALSE, time |-> x.lastev])]
    [] x.owner["PRIMARY"] = "us" ->
         [x EXCEPT !.queue = Append(@, [type |-> "Request", from |-> "us",
                                        atom |-> "PRIMARY", time |-> x.lastev])]
    [] OTHER -> [x EXCEPT !.asks = Append(@, x.lastev)]

-----------------------------------------------------------------------------
(***************************************************************************)
(* The process.                                                            *)
(***************************************************************************)
ClearClipboardCache(x) == [x EXCEPT !.cache = NULL, !.since = 0]

\* Mutant: a cached text is used whether or not the selections are owned.
UsesAnyCache(x) == x.cache # NULL

\* get_clipboard_text need not ask.
UsesCache(x) == x.since # 0 /\ x.cache # NULL

\* set_clipboard_text.  lost: the selection that they take with text t between
\* XSetSelectionOwner and XGetSelectionOwner, if any; it is the last one set.
SetClipboardText(x, text, lost, t) ==
  LET y == [ClearClipboardCache(x) EXCEPT !.cache = text]
      own(z, a) == [z EXCEPT !.owner[a] = "us"]
      p == own(y, "PRIMARY")
  IN CASE lost = "PRIMARY" -> Take(p, "PRIMARY", t)
       [] lost = "CLIPBOARD" -> Take(own(p, "CLIPBOARD"), "CLIPBOARD", t)
       [] OTHER -> [own(p, "CLIPBOARD") EXCEPT !.since = x.lastev]

\* get_xevent: the next event is off the queue, and its time is kept.
GetXevent(x) == [x EXCEPT !.queue = Tail(@), !.lastev = Head(x.queue).time]

\* Mutant: CurrentTime is compared like any other time.
RefusesCurrentTime(x, ev) == x.cache = NULL \/ ev.time < x.since

\* The test of handle_selection_request; the owner is xwin.
Refuses(x, ev) == x.cache = NULL \/ (ev.time # 0 /\ ev.time < x.since)

\* handle_selection_request, and the server's delivery of its answer.
HandleSelectionRequest(x, ev) ==
  LET ok == ~Refuses(x, ev)
  IN IF ev.from = "them" THEN x
     ELSE [x EXCEPT !.prop = IF ok THEN x.cache ELSE @,
                    !.queue = Append(@, [type |-> "Notify", ok |-> ok, time |-> ev.time])]

\* Mutant: SelectionClear counts for PRIMARY only.
HandlePrimaryClear(x, ev) ==
  IF ev.atom = "PRIMARY" THEN ClearClipboardCache(x) ELSE x

\* handle_event on SelectionClear.
HandleSelectionClear(x, ev) == ClearClipboardCache(x)

\* What get_clipboard_text makes of a SelectionNotify: no property, or one
\* that another call has read and deleted, is the empty text.
NotifiedText(x, ev) == IF ~ev.ok \/ x.prop = NULL THEN "" ELSE x.prop

\* XGetWindowProperty with delete.
ReadProperty(x, ev) == IF ev.ok THEN [x EXCEPT !.prop = NULL] ELSE x
=============================================================================
