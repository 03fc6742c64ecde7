-------------------------- MODULE Clipboard_proofs --------------------------
(***************************************************************************)
(* The cached clipboard text and the ownership of the selections, for      *)
(* every set of texts and every bound.  The inductive invariant is Good:   *)
(* beside CacheMatchesOwnership it says that a SelectionClear in the queue *)
(* that came after the text was set stands for a selection that is lost,   *)
(* and orders the X times that the process keeps.  For the text that       *)
(* follows the focus, CalmInv names the stages of a transfer that nothing  *)
(* disturbs (Stage); one event or message at a time leads from each to the *)
(* next.                                                                   *)
(***************************************************************************)
EXTENDS Clipboard, TLAPS

\* Types, and the order of the times that the process has seen.
Timely(y, set) ==
  /\ y \in SelectionState
  /\ \A i \in DOMAIN y.queue : y.queue[i].time <= y.clock
  /\ \A i \in DOMAIN y.asks : y.asks[i] <= y.clock
  /\ y.lastev <= y.clock /\ y.since <= set /\ set <= y.clock

Good(y, old, set) ==
  /\ Timely(y, set)
  /\ y.cache # NULL /\ ~HasEvent(y, "Clear") => OwnsAll(y)
  /\ OwnsAll(y) /\ ~old => y.cache # NULL /\ ~HasEvent(y, "Clear")

IInv ==
  /\ settime \in Nat /\ stale \in BOOLEAN
  /\ Good(x, stale, settime)
  /\ toMaster \in Seq([type : {"SET"}, text : AllTexts])
  /\ toRemote \in Seq(Message)
  /\ rtext \in AllTexts
  /\ denied = FALSE

-----------------------------------------------------------------------------
\* Events are what the server and the process put into the queue.
LEMMA EventTypes ==
  /\ \A a \in Atoms, n \in Nat : [type |-> "Clear", atom |-> a, time |-> n] \in Event
  /\ \A f \in {"us", "them"}, a \in Atoms, n \in Nat :
       [type |-> "Request", from |-> f, atom |-> a, time |-> n] \in Event
  /\ \A ok \in BOOLEAN, n \in Nat : [type |-> "Notify", ok |-> ok, time |-> n] \in Event
  /\ \A k \in {"remote", "master", "clear"}, n \in Nat :
       [type |-> "Key", action |-> k, time |-> n] \in Event
BY Zenon DEF Event

LEMMA EventTime == \A ev \in Event : ev.time \in Nat
BY Zenon DEF Event

\* Appending an event adds its type and its time, and nothing else.
LEMMA AppendEvent ==
  ASSUME NEW q \in Seq(Event), NEW ev \in Event
  PROVE  /\ Append(q, ev) \in Seq(Event)
         /\ \A type : (\E i \in DOMAIN Append(q, ev) : Append(q, ev)[i].type = type)
                        <=> ev.type = type \/ \E i \in DOMAIN q : q[i].type = type
         /\ \A n : (\A i \in DOMAIN Append(q, ev) : Append(q, ev)[i].time <= n)
                     <=> ev.time <= n /\ \A i \in DOMAIN q : q[i].time <= n
<1>1. Append(q, ev) \in Seq(Event) /\ Len(Append(q, ev)) = Len(q) + 1
      /\ DOMAIN q = 1..Len(q) /\ DOMAIN Append(q, ev) = 1..Len(q) + 1 /\ Len(q) \in Nat
  OBVIOUS
<1>2. \A i \in 1..Len(q) + 1 : Append(q, ev)[i] = IF i = Len(q) + 1 THEN ev ELSE q[i]
  OBVIOUS
<1> QED  BY <1>1, <1>2

\* Taking the head off the queue takes its type and its time, and no other.
LEMMA TailEvent ==
  ASSUME NEW q \in Seq(Event), q # <<>>
  PROVE  /\ Tail(q) \in Seq(Event) /\ Head(q) \in Event
         /\ \A type : (\E i \in DOMAIN q : q[i].type = type)
                        <=> Head(q).type = type \/ \E i \in DOMAIN Tail(q) : Tail(q)[i].type = type
         /\ \A n : (\A i \in DOMAIN q : q[i].time <= n)
                     <=> Head(q).time <= n /\ \A i \in DOMAIN Tail(q) : Tail(q)[i].time <= n
<1>1. /\ Tail(q) \in Seq(Event) /\ Head(q) \in Event /\ Head(q) = q[1]
      /\ Len(q) \in Nat \ {0} /\ DOMAIN q = 1..Len(q) /\ DOMAIN Tail(q) = 1..Len(q) - 1
  OBVIOUS
<1>2. \A i \in 1..Len(q) - 1 : Tail(q)[i] = q[i + 1]
  OBVIOUS
<1>3. \A j \in 1..Len(q) : j = 1 \/ (j - 1 \in 1..Len(q) - 1 /\ Tail(q)[j - 1] = q[j])
  BY <1>1, <1>2
<1>4. \A i \in 1..Len(q) - 1 : i + 1 \in 1..Len(q)
  BY <1>1
<1>5. 1 \in 1..Len(q)
  BY <1>1
<1>6. \A type : (\E i \in DOMAIN q : q[i].type = type)
                  <=> Head(q).type = type \/ \E i \in DOMAIN Tail(q) : Tail(q)[i].type = type
  <2>1. ASSUME NEW type, NEW i \in DOMAIN q, q[i].type = type, Head(q).type # type
        PROVE  \E j \in DOMAIN Tail(q) : Tail(q)[j].type = type
    <3>1. i - 1 \in 1..Len(q) - 1 /\ Tail(q)[i - 1] = q[i]
      BY Zenon, <1>1, <1>3, <2>1
    <3> QED BY <1>1, <2>1, <3>1, Zenon
  <2>2. ASSUME NEW type, NEW j \in DOMAIN Tail(q), Tail(q)[j].type = type
        PROVE  \E i \in DOMAIN q : q[i].type = type
    <3>1. j + 1 \in DOMAIN q /\ Tail(q)[j] = q[j + 1]
      BY Zenon, <1>1, <1>2, <1>4
    <3> QED BY <2>2, <3>1, Zenon
  <2>3. 1 \in DOMAIN q /\ Head(q) = q[1]
    BY Zenon, <1>1, <1>5
  <2> QED BY <2>1, <2>2, <2>3, Zenon
<1>7. ASSUME NEW n
      PROVE  (\A i \in DOMAIN q : q[i].time <= n)
               <=> Head(q).time <= n /\ \A i \in DOMAIN Tail(q) : Tail(q)[i].time <= n
  BY Zenon, <1>1, <1>2, <1>3, <1>4, <1>5
<1> QED  BY Zenon, <1>1, <1>6, <1>7

\* The fields of a record in SelectionState.
LEMMA Fields ==
  ASSUME NEW y \in SelectionState
  PROVE  /\ y.clock \in Nat /\ y.owner \in [Atoms -> {"none", "us", "them"}]
         /\ y.theirs \in AllTexts /\ y.prop \in AllTexts \cup {NULL}
         /\ y.queue \in Seq(Event) /\ y.asks \in Seq(Nat)
         /\ y.cache \in AllTexts \cup {NULL} /\ y.since \in Nat /\ y.lastev \in Nat
BY Zenon DEF SelectionState

\* Time passes, and an event may come with it.
LEMMA LaterTimes ==
  ASSUME NEW y, NEW set \in Nat, Timely(y, set), NEW z \in SelectionState,
         z.clock \in {y.clock, y.clock + 1},
         \/ z.queue = y.queue
         \/ \E ev \in Event : ev.time <= z.clock /\ z.queue = Append(y.queue, ev),
         z.asks = y.asks, z.lastev = y.lastev, z.since <= set
  PROVE  Timely(z, set)
<1>1. /\ y \in SelectionState /\ y.clock \in Nat /\ y.queue \in Seq(Event)
      /\ y.asks \in Seq(Nat) /\ y.lastev \in Nat
  BY Zenon, Fields DEF Timely
<1>2. \A i \in DOMAIN y.queue : y.queue[i].time \in Nat
  BY <1>1, EventTime
<1>3. \A i \in DOMAIN y.queue : y.queue[i].time <= z.clock
  BY <1>1, <1>2 DEF Timely
<1>4. \A i \in DOMAIN z.queue : z.queue[i].time <= z.clock
  BY Zenon, <1>1, <1>3, AppendEvent
<1>5. \A i \in DOMAIN z.asks : z.asks[i] <= z.clock
  BY <1>1 DEF Timely
<1>6. z.lastev <= z.clock /\ set <= z.clock
  BY <1>1 DEF Timely
<1> QED  BY Zenon, <1>4, <1>5, <1>6 DEF Timely

-----------------------------------------------------------------------------
(***************************************************************************)
(* What the operators of Selection preserve.                               *)
(***************************************************************************)
\* Another client takes a selection: the loss of one that was ours is in the
\* queue.
LEMMA TakeGood ==
  ASSUME NEW y, NEW old \in BOOLEAN, NEW set \in Nat, Timely(y, set),
         NEW a \in Atoms, NEW t \in AllTexts,
         \/ y.owner[a] = "us"
         \/ y.cache # NULL /\ ~HasEvent(y, "Clear") => OwnsAll(y)
  PROVE  Good(Take(y, a, t), old, set)
<1> DEFINE z == Take(y, a, t)
           ev == [type |-> "Clear", atom |-> a, time |-> y.clock + 1]
           o == [y.owner EXCEPT ![a] = "them"]
           th == IF a = "PRIMARY" THEN t ELSE y.theirs
           q == IF y.owner[a] = "us" THEN Append(y.queue, ev) ELSE y.queue
<1>0. /\ y \in SelectionState /\ y.clock \in Nat /\ y.queue \in Seq(Event)
      /\ y.theirs \in AllTexts /\ y.owner \in [Atoms -> {"none", "us", "them"}]
  BY Zenon, Fields DEF Timely
<1>1. ev \in Event /\ ev.type = "Clear" /\ ev.time = y.clock + 1
  BY <1>0, EventTypes
<1>2. z = [y EXCEPT !.clock = y.clock + 1, !.owner = o, !.theirs = th, !.queue = q]
  BY Zenon DEF Take
<1>3. o \in [Atoms -> {"none", "us", "them"}] /\ o[a] = "them" /\ th \in AllTexts
  BY Zenon, <1>0
<1>4. q \in Seq(Event)
  BY <1>0, <1>1, AppendEvent
<1>5. q = y.queue \/ q = Append(y.queue, ev)
  BY Zenon
<1>6. y.cache # NULL => \E i \in DOMAIN q : q[i].type = "Clear"
  <2>1. CASE y.owner[a] = "us"
    <3>1. q = Append(y.queue, ev)
      BY Zenon, <2>1
    <3> HIDE DEF ev, q
    <3> QED  BY SMTT(30), <1>0, <1>1, <3>1, AppendEvent
  <2>2. CASE y.owner[a] # "us"
    BY Zenon, <2>2 DEF HasEvent, OwnsAll
  <2> QED  BY Zenon, <2>1, <2>2
<1> DEFINE c == y.clock + 1
<1>c. /\ c \in Nat /\ c = y.clock + 1
      /\ z = [y EXCEPT !.clock = c, !.owner = o, !.theirs = th, !.queue = q]
  BY <1>0, <1>2
<1> HIDE DEF ev, o, th, q, z, c
<1>s. z \in SelectionState
  BY Zenon, <1>0, <1>c, <1>3, <1>4 DEF SelectionState
<1>7. /\ z.clock = y.clock + 1 /\ z.owner = o /\ z.queue = q
      /\ z.asks = y.asks /\ z.cache = y.cache /\ z.since = y.since /\ z.lastev = y.lastev
  BY Zenon, <1>0, <1>c DEF SelectionState
<1>8. Timely(z, set)
  <2>1. ev.time <= z.clock
    BY <1>0, <1>1, <1>7
  <2>2. z.since <= set
    BY Zenon, <1>7 DEF Timely
  <2> QED  BY Zenon, <1>1, <1>5, <1>s, <1>7, <2>1, <2>2, LaterTimes
<1>9. ~OwnsAll(z) /\ (z.cache # NULL => HasEvent(z, "Clear"))
  BY Zenon, <1>3, <1>6, <1>7 DEF OwnsAll, HasEvent
<1> QED  BY Zenon, <1>8, <1>9 DEF Good, z

\* Requests, answers and hotkeys: an event other than SelectionClear joins the
\* queue, and the property may change.
LEMMA EventGood ==
  ASSUME NEW y, NEW old \in BOOLEAN, NEW set \in Nat, Good(y, old, set),
         NEW ev \in Event, ev.type # "Clear",
         NEW c \in {y.clock, y.clock + 1}, ev.time <= c,
         NEW p \in AllTexts \cup {NULL}
  PROVE  Good([y EXCEPT !.clock = c, !.prop = p, !.queue = Append(y.queue, ev)], old, set)
<1> DEFINE q == Append(y.queue, ev)
           z == [y EXCEPT !.clock = c, !.prop = p, !.queue = q]
<1>0. y \in SelectionState /\ y.clock \in Nat /\ c \in Nat /\ y.queue \in Seq(Event)
  BY Fields DEF Good, Timely
<1>1. /\ q \in Seq(Event)
      /\ (\E i \in DOMAIN q : q[i].type = "Clear")
           <=> \E i \in DOMAIN y.queue : y.queue[i].type = "Clear"
  BY SMTT(30), <1>0, AppendEvent
<1>2. q = Append(y.queue, ev)
  BY Zenon
<1> HIDE DEF q
<1>3. /\ z \in SelectionState /\ z.clock = c /\ z.owner = y.owner /\ z.queue = q
      /\ z.asks = y.asks /\ z.cache = y.cache /\ z.since = y.since /\ z.lastev = y.lastev
  BY Zenon, <1>0, <1>1 DEF SelectionState
<1> HIDE DEF z
<1>4. Timely(z, set)
  <2>1. z.since <= set /\ Timely(y, set)
    BY Zenon, <1>3 DEF Good, Timely
  <2> QED  BY Zenon, <1>2, <1>3, <2>1, LaterTimes
<1>5. HasEvent(z, "Clear") <=> HasEvent(y, "Clear")
  BY Zenon, <1>1, <1>3 DEF HasEvent
<1>6. OwnsAll(z) <=> OwnsAll(y)
  BY Zenon, <1>3 DEF OwnsAll
<1>7. Good(z, old, set)
  BY Zenon, <1>3, <1>4, <1>5, <1>6 DEF Good
<1> QED  BY Zenon, <1>7 DEF z, q

\* Changes that leave the queue, the owners, the cache and the times alone.
LEMMA QuietGood ==
  ASSUME NEW y, NEW old \in BOOLEAN, NEW set \in Nat, Good(y, old, set),
         NEW p \in AllTexts \cup {NULL}, NEW as \in Seq(Nat),
         \A i \in DOMAIN as : as[i] <= y.clock
  PROVE  Good([y EXCEPT !.prop = p, !.asks = as], old, set)
<1> DEFINE z == [y EXCEPT !.prop = p, !.asks = as]
<1>1. y \in SelectionState
  BY Zenon DEF Good, Timely
<1>2. /\ z \in SelectionState /\ z.clock = y.clock /\ z.owner = y.owner /\ z.queue = y.queue
      /\ z.asks = as /\ z.cache = y.cache /\ z.since = y.since /\ z.lastev = y.lastev
  BY Zenon, <1>1 DEF SelectionState
<1> HIDE DEF z
<1>3. Timely(z, set)
  BY ZenonT(30), <1>2 DEF Good, Timely
<1>4. Good(z, old, set)
  BY Zenon, <1>2, <1>3 DEF Good, HasEvent, OwnsAll
<1> QED  BY Zenon, <1>4 DEF z

\* An answer from another client.
LEMMA AnswerGood ==
  ASSUME NEW y, NEW old \in BOOLEAN, NEW set \in Nat, Good(y, old, set),
         NEW ok \in BOOLEAN, y.asks # <<>>
  PROVE  Good(Answer(y, ok), old, set)
<1> DEFINE n == Head(y.asks)
           ev == [type |-> "Notify", ok |-> ok, time |-> n]
           p == IF ok THEN y.theirs ELSE y.prop
           z == [y EXCEPT !.clock = y.clock, !.prop = p, !.queue = Append(y.queue, ev)]
<1>1. /\ y \in SelectionState /\ y.clock \in Nat /\ y.asks \in Seq(Nat)
      /\ y.queue \in Seq(Event) /\ p \in AllTexts \cup {NULL}
      /\ \A i \in DOMAIN y.asks : y.asks[i] <= y.clock
  BY Zenon, Fields DEF Good, Timely
<1>2. n \in Nat /\ n <= y.clock
  BY <1>1
<1>3. Tail(y.asks) \in Seq(Nat) /\ \A i \in DOMAIN Tail(y.asks) : Tail(y.asks)[i] <= y.clock
  BY <1>1
<1> HIDE DEF n, p
<1>4. ev \in Event /\ ev.type = "Notify" /\ ev.time = n
  BY Zenon, <1>2, EventTypes
<1> HIDE DEF ev
<1>5. Good(z, old, set)
  BY Zenon, <1>1, <1>2, <1>4, EventGood
<1>6. z.prop = p /\ z.clock = y.clock
  BY Zenon, <1>1 DEF SelectionState
<1>7. Answer(y, ok) = [z EXCEPT !.prop = p, !.asks = Tail(y.asks)]
  BY Zenon, <1>1 DEF Answer, SelectionState, n, p, ev
<1> DEFINE as == Tail(y.asks)
<1>8. as \in Seq(Nat) /\ \A i \in DOMAIN as : as[i] <= z.clock
  BY Zenon, <1>3, <1>6
<1>9. Answer(y, ok) = [z EXCEPT !.prop = p, !.asks = as]
  BY Zenon, <1>7
<1> HIDE DEF z, as
<1>10. Good([z EXCEPT !.prop = p, !.asks = as], old, set)
  BY Zenon, <1>1, <1>5, <1>8, QuietGood
<1> QED  BY Zenon, <1>9, <1>10

\* A request that joins the queue.
LEMMA RequestGood ==
  ASSUME NEW y, NEW old \in BOOLEAN, NEW set \in Nat, Good(y, old, set),
         NEW f \in {"us", "them"}, NEW a \in Atoms, NEW n \in Nat, n <= y.clock
  PROVE  Good([y EXCEPT !.queue = Append(y.queue, [type |-> "Request", from |-> f,
                                                   atom |-> a, time |-> n])], old, set)
<1> DEFINE ev == [type |-> "Request", from |-> f, atom |-> a, time |-> n]
<1>1. y \in SelectionState /\ y.prop \in AllTexts \cup {NULL}
  BY Zenon, Fields DEF Good, Timely
<1>2. ev \in Event /\ ev.type = "Request" /\ ev.time = n
  BY Zenon, EventTypes
<1> HIDE DEF ev
<1>3. Good([y EXCEPT !.clock = y.clock, !.prop = y.prop, !.queue = Append(y.queue, ev)], old, set)
  BY Zenon, <1>1, <1>2, EventGood
<1>4. [y EXCEPT !.clock = y.clock, !.prop = y.prop, !.queue = Append(y.queue, ev)]
        = [y EXCEPT !.queue = Append(y.queue, ev)]
  BY Zenon, <1>1 DEF SelectionState
<1> QED  BY Zenon, <1>3, <1>4 DEF ev

\* A SelectionNotify that joins the queue, with or without a new property.
LEMMA NotifyGood ==
  ASSUME NEW y, NEW old \in BOOLEAN, NEW set \in Nat, Good(y, old, set),
         NEW ok \in BOOLEAN, NEW n \in Nat, n <= y.clock, NEW p \in AllTexts \cup {NULL}
  PROVE  Good([y EXCEPT !.prop = p,
                        !.queue = Append(y.queue, [type |-> "Notify", ok |-> ok, time |-> n])],
              old, set)
<1> DEFINE ev == [type |-> "Notify", ok |-> ok, time |-> n]
<1>1. y \in SelectionState
  BY Zenon DEF Good, Timely
<1>2. ev \in Event /\ ev.type = "Notify" /\ ev.time = n
  BY Zenon, EventTypes
<1> HIDE DEF ev
<1>3. Good([y EXCEPT !.clock = y.clock, !.prop = p, !.queue = Append(y.queue, ev)], old, set)
  BY Zenon, <1>1, <1>2, EventGood
<1>4. [y EXCEPT !.clock = y.clock, !.prop = p, !.queue = Append(y.queue, ev)]
        = [y EXCEPT !.prop = p, !.queue = Append(y.queue, ev)]
  BY Zenon, <1>1 DEF SelectionState
<1> QED  BY Zenon, <1>3, <1>4 DEF ev

\* XConvertSelection.
LEMMA ConvertGood ==
  ASSUME NEW y, NEW old \in BOOLEAN, NEW set \in Nat, Good(y, old, set)
  PROVE  Good(ConvertSelection(y), old, set)
<1>1. /\ y \in SelectionState /\ y.clock \in Nat /\ y.lastev \in Nat /\ y.lastev <= y.clock
      /\ y.asks \in Seq(Nat) /\ y.prop \in AllTexts \cup {NULL}
      /\ \A i \in DOMAIN y.asks : y.asks[i] <= y.clock
  BY Zenon, Fields DEF Good, Timely
<1>2. CASE y.owner["PRIMARY"] = "none"
  <2> DEFINE ev == [type |-> "Notify", ok |-> FALSE, time |-> y.lastev]
  <2>1. Good([y EXCEPT !.prop = y.prop, !.queue = Append(y.queue, ev)], old, set)
    BY Zenon, <1>1, NotifyGood
  <2>2. [y EXCEPT !.prop = y.prop, !.queue = Append(y.queue, ev)]
          = [y EXCEPT !.queue = Append(y.queue, ev)]
    BY Zenon, <1>1 DEF SelectionState
  <2> QED  BY Zenon, <1>2, <2>1, <2>2 DEF ConvertSelection
<1>3. CASE y.owner["PRIMARY"] = "us"
  BY Zenon, <1>1, <1>3, RequestGood DEF ConvertSelection, Atoms
<1>4. CASE y.owner["PRIMARY"] \notin {"none", "us"}
  <2> DEFINE as == Append(y.asks, y.lastev)
  <2>1. as \in Seq(Nat) /\ \A i \in DOMAIN as : as[i] <= y.clock
    BY <1>1
  <2>2. ConvertSelection(y) = [y EXCEPT !.asks = as]
    BY Zenon, <1>4 DEF ConvertSelection
  <2> HIDE DEF as
  <2>3. [y EXCEPT !.asks = as] = [y EXCEPT !.prop = y.prop, !.asks = as]
    BY Zenon, <1>1 DEF SelectionState
  <2>4. Good([y EXCEPT !.prop = y.prop, !.asks = as], old, set)
    BY Zenon, <1>1, <2>1, QuietGood
  <2> QED  BY Zenon, <2>2, <2>3, <2>4
<1> QED  BY Zenon, <1>2, <1>3, <1>4

\* set_clipboard_text: the text stands for both selections from now on, unless
\* one is lost again at once, which the queue then tells.
LEMMA SetGood ==
  ASSUME NEW y, NEW old \in BOOLEAN, NEW set \in Nat, Good(y, old, set),
         NEW text \in AllTexts, NEW lost \in Atoms \cup {"none"}, NEW t \in Texts
  PROVE  Good(SetClipboardText(y, text, lost, t), HasEvent(y, "Clear"), y.clock)
<1> DEFINE stl == HasEvent(y, "Clear")
           now == y.clock
           owned(o, n) == [y EXCEPT !.cache = text, !.since = n, !.owner = o]
<1>1. /\ y \in SelectionState /\ y.owner \in [Atoms -> {"none", "us", "them"}]
      /\ y.clock \in Nat /\ y.lastev \in Nat /\ y.lastev <= y.clock
  BY Zenon, Fields DEF Good, Timely
<1>2. text # NULL /\ t \in AllTexts /\ stl \in BOOLEAN
  BY Zenon, ClipboardAssumption DEF AllTexts, HasEvent
<1>3. ASSUME NEW o \in [Atoms -> {"none", "us", "them"}], NEW n \in Nat, n <= now
      PROVE  /\ Timely(owned(o, n), now) /\ owned(o, n).cache = text
             /\ owned(o, n).owner = o /\ owned(o, n).queue = y.queue
  <2> DEFINE z == owned(o, n)
  <2>1. /\ z \in SelectionState /\ z.clock = y.clock /\ z.queue = y.queue /\ z.asks = y.asks
        /\ z.lastev = y.lastev /\ z.since = n /\ z.cache = text /\ z.owner = o
    BY Zenon, <1>1, <1>3 DEF SelectionState
  <2> HIDE DEF z
  <2>2. Timely(z, now)
    BY <1>1, <1>3, <2>1 DEF Good, Timely
  <2> QED  BY Zenon, <2>1, <2>2 DEF z
<1> DEFINE op == [y.owner EXCEPT !["PRIMARY"] = "us"]
           ob == [op EXCEPT !["CLIPBOARD"] = "us"]
<1>4. /\ op \in [Atoms -> {"none", "us", "them"}] /\ ob \in [Atoms -> {"none", "us", "them"}]
      /\ op["PRIMARY"] = "us" /\ ob["CLIPBOARD"] = "us" /\ \A a \in Atoms : ob[a] = "us"
  BY Zenon, <1>1 DEF Atoms
<1>8. 0 \in Nat /\ now \in Nat /\ 0 <= now
  BY <1>1
<1>5. CASE lost = "PRIMARY"
  <2>1. SetClipboardText(y, text, lost, t) = Take(owned(op, 0), "PRIMARY", t)
    BY Zenon, <1>1, <1>5 DEF SetClipboardText, ClearClipboardCache, SelectionState
  <2> HIDE DEF owned, op, now, stl
  <2>2. Timely(owned(op, 0), now) /\ owned(op, 0).owner = op
    BY Zenon, <1>3, <1>4, <1>8
  <2>4. owned(op, 0).owner["PRIMARY"] = "us"
    BY Zenon, <1>4, <2>2
  <2>3. Good(Take(owned(op, 0), "PRIMARY", t), stl, now)
    BY Zenon, <1>2, <1>8, <2>2, <2>4, TakeGood DEF Atoms
  <2> QED  BY Zenon, <2>1, <2>3 DEF stl, now
<1>6. CASE lost = "CLIPBOARD"
  <2>1. SetClipboardText(y, text, lost, t) = Take(owned(ob, 0), "CLIPBOARD", t)
    BY Zenon, <1>1, <1>6 DEF SetClipboardText, ClearClipboardCache, SelectionState
  <2> HIDE DEF owned, ob, now, stl
  <2>2. Timely(owned(ob, 0), now) /\ owned(ob, 0).owner = ob
    BY Zenon, <1>3, <1>4, <1>8
  <2>4. owned(ob, 0).owner["CLIPBOARD"] = "us"
    BY Zenon, <1>4, <2>2
  <2>3. Good(Take(owned(ob, 0), "CLIPBOARD", t), stl, now)
    BY Zenon, <1>2, <1>8, <2>2, <2>4, TakeGood DEF Atoms
  <2> QED  BY Zenon, <2>1, <2>3 DEF stl, now
<1>7. CASE lost = "none"
  <2>1. SetClipboardText(y, text, lost, t) = owned(ob, y.lastev)
    BY Zenon, <1>1, <1>7 DEF SetClipboardText, ClearClipboardCache, SelectionState
  <2> DEFINE z == owned(ob, y.lastev)
  <2>2. Timely(z, now) /\ z.cache = text /\ z.owner = ob /\ z.queue = y.queue
    BY ZenonT(30), <1>1, <1>3, <1>4
  <2> HIDE DEF z, ob
  <2>3. OwnsAll(z) /\ (HasEvent(z, "Clear") <=> stl)
    BY <1>4, <2>2 DEF OwnsAll, HasEvent
  <2>4. Good(z, stl, now)
    BY Zenon, <1>2, <2>2, <2>3 DEF Good
  <2> QED  BY Zenon, <2>1, <2>4 DEF z
<1> QED  BY Zenon, <1>5, <1>6, <1>7 DEF Atoms

\* get_xevent, on an event other than SelectionClear.
LEMMA NextEventGood ==
  ASSUME NEW y, NEW old \in BOOLEAN, NEW set \in Nat, Good(y, old, set),
         y.queue # <<>>, Head(y.queue).type # "Clear"
  PROVE  /\ Good(GetXevent(y), old, set) /\ GetXevent(y).clock = y.clock
         /\ HasEvent(GetXevent(y), "Clear") <=> HasEvent(y, "Clear")
         /\ Head(y.queue) \in Event /\ Head(y.queue).time <= y.clock
<1> DEFINE z == GetXevent(y)
           n == Head(y.queue).time
           q == Tail(y.queue)
<1>1. y \in SelectionState /\ y.queue \in Seq(Event) /\ y.clock \in Nat
  BY Zenon, Fields DEF Good, Timely
<1>2. /\ q \in Seq(Event) /\ Head(y.queue) \in Event /\ n \in Nat
      /\ (\E i \in DOMAIN q : q[i].type = "Clear")
           <=> \E i \in DOMAIN y.queue : y.queue[i].type = "Clear"
      /\ n <= y.clock /\ \A i \in DOMAIN q : q[i].time <= y.clock
  BY Zenon, <1>1, TailEvent, EventTime DEF Good, Timely
<1>3. z = [y EXCEPT !.queue = q, !.lastev = n]
  BY Zenon DEF GetXevent
<1> HIDE DEF n, q, z
<1>4. /\ z \in SelectionState /\ z.clock = y.clock /\ z.owner = y.owner /\ z.queue = q
      /\ z.asks = y.asks /\ z.cache = y.cache /\ z.since = y.since /\ z.lastev = n
  BY Zenon, <1>1, <1>2, <1>3 DEF SelectionState
<1>5. Timely(z, set)
  BY Zenon, <1>2, <1>4 DEF Good, Timely
<1>6. HasEvent(z, "Clear") <=> HasEvent(y, "Clear")
  BY Zenon, <1>2, <1>4 DEF HasEvent
<1>7. Good(z, old, set)
  BY Zenon, <1>4, <1>5, <1>6 DEF Good, OwnsAll
<1> QED  BY Zenon, <1>2, <1>4, <1>6, <1>7 DEF z, n

\* SelectionClear: the cache goes, and with it the claim to own anything.
LEMMA ClearGood ==
  ASSUME NEW y, NEW old \in BOOLEAN, NEW set \in Nat, Good(y, old, set),
         y.queue # <<>>, Head(y.queue).type = "Clear"
  PROVE  Good(HandleSelectionClear(GetXevent(y), Head(y.queue)), old, set)
<1> DEFINE z == HandleSelectionClear(GetXevent(y), Head(y.queue))
           n == Head(y.queue).time
           q == Tail(y.queue)
<1>1. y \in SelectionState /\ y.queue \in Seq(Event) /\ y.clock \in Nat
  BY Zenon, Fields DEF Good, Timely
<1>2. /\ q \in Seq(Event) /\ n \in Nat /\ HasEvent(y, "Clear")
      /\ n <= y.clock /\ \A i \in DOMAIN q : q[i].time <= y.clock
  BY Zenon, <1>1, TailEvent, EventTime DEF Good, Timely, HasEvent
<1>3. z = [y EXCEPT !.queue = q, !.lastev = n, !.cache = NULL, !.since = 0]
  BY Zenon, <1>1 DEF GetXevent, HandleSelectionClear, ClearClipboardCache, SelectionState
<1> HIDE DEF n, q, z
<1>4. /\ z \in SelectionState /\ z.clock = y.clock /\ z.owner = y.owner /\ z.queue = q
      /\ z.asks = y.asks /\ z.cache = NULL /\ z.since = 0 /\ z.lastev = n
  BY Zenon, <1>1, <1>2, <1>3 DEF SelectionState
<1>5. Timely(z, set)
  BY <1>2, <1>4 DEF Good, Timely
<1>6. OwnsAll(z) => old
  BY Zenon, <1>2, <1>4 DEF Good, OwnsAll
<1>7. Good(z, old, set)
  BY Zenon, <1>4, <1>5, <1>6 DEF Good
<1> QED  BY Zenon, <1>7 DEF z

\* handle_selection_request.
LEMMA ServeGood ==
  ASSUME NEW y, NEW old \in BOOLEAN, NEW set \in Nat, Good(y, old, set),
         NEW ev \in Event, ev.time <= y.clock
  PROVE  Good(HandleSelectionRequest(y, ev), old, set)
<1>1. /\ y \in SelectionState /\ y.prop \in AllTexts \cup {NULL} /\ ev.time \in Nat
      /\ y.cache \in AllTexts \cup {NULL}
  BY Zenon, Fields, EventTime DEF Good, Timely
<1> DEFINE ok == ~Refuses(y, ev)
           p == IF ok THEN y.cache ELSE y.prop
<1>2. ok \in BOOLEAN /\ p \in AllTexts \cup {NULL}
  BY Zenon, <1>1
<1>3. HandleSelectionRequest(y, ev) \in
        {y, [y EXCEPT !.prop = p,
                      !.queue = Append(y.queue, [type |-> "Notify", ok |-> ok, time |-> ev.time])]}
  BY Zenon DEF HandleSelectionRequest
<1> HIDE DEF ok, p
<1>4. Good([y EXCEPT !.prop = p,
                     !.queue = Append(y.queue, [type |-> "Notify", ok |-> ok, time |-> ev.time])],
           old, set)
  BY Zenon, <1>1, <1>2, NotifyGood
<1> QED  BY Zenon, <1>3, <1>4

\* XGetWindowProperty.
LEMMA ReadGood ==
  ASSUME NEW y, NEW old \in BOOLEAN, NEW set \in Nat, Good(y, old, set), NEW ev
  PROVE  Good(ReadProperty(y, ev), old, set)
<1>1. /\ y \in SelectionState /\ y.asks \in Seq(Nat) /\ NULL \in AllTexts \cup {NULL}
      /\ \A i \in DOMAIN y.asks : y.asks[i] <= y.clock
  BY Zenon, Fields DEF Good, Timely
<1>2. Good([y EXCEPT !.prop = NULL, !.asks = y.asks], old, set)
  BY Zenon, <1>1, QuietGood
<1>3. [y EXCEPT !.prop = NULL, !.asks = y.asks] = [y EXCEPT !.prop = NULL]
  BY Zenon, <1>1 DEF SelectionState
<1> QED  BY Zenon, <1>2, <1>3 DEF ReadProperty

-----------------------------------------------------------------------------
(***************************************************************************)
(* The callbacks: what becomes of x and toRemote.                          *)
(***************************************************************************)
\* What is left of a queue, taken off it and added to it is of its type.
LEMMA QueueType ==
  \A S : \A q \in Seq(S) : /\ q # <<>> => Head(q) \in S /\ Tail(q) \in Seq(S)
                          /\ \A e \in S : Append(q, e) \in Seq(S)
OBVIOUS

\* Texts are sent in messages.
LEMMA SendType ==
  ASSUME NEW text \in AllTexts, toRemote \in Seq(Message), SendSetclipboard(text)
  PROVE  toRemote' \in Seq(Message)
<1>1. [type |-> "SET", text |-> text] \in Message
  BY Zenon DEF Message
<1> QED  BY <1>1 DEF SendSetclipboard

\* The callers of get_clipboard_text send no more than its text.
LEMMA UseType ==
  ASSUME NEW text \in AllTexts, NEW kind, NEW early, toRemote \in Seq(Message),
         Use(kind, text, early)
  PROVE  toRemote' \in Seq(Message)
BY Zenon, SendType DEF Use

\* get_clipboard_text, and with it the switch to the remote.
LEMMA GetStep ==
  ASSUME NEW y, NEW old \in BOOLEAN, NEW set \in Nat, Good(y, old, set),
         toRemote \in Seq(Message), NEW kind, GetClipboardText(y, kind)
  PROVE  Good(x', old, set) /\ toRemote' \in Seq(Message)
<1>1. CASE UsesCache(y)
  <2>1. x' = y /\ Use(kind, y.cache, TRUE)
    BY Zenon, <1>1 DEF GetClipboardText
  <2>2. y.cache \in AllTexts
    BY Zenon, <1>1, Fields DEF UsesCache, Good, Timely
  <2> QED  BY Zenon, <2>1, <2>2, UseType
<1>2. CASE ~UsesCache(y)
  <2>1. x' = ConvertSelection(y) /\ toRemote' = toRemote
    BY Zenon, <1>2 DEF GetClipboardText
  <2> QED  BY Zenon, <2>1, ConvertGood
<1> QED  BY Zenon, <1>1, <1>2

\* get_clipboard_text returns from a wait.
LEMMA ReturnStep ==
  ASSUME NEW y, NEW text \in AllTexts, NEW early, toRemote \in Seq(Message),
         Return(y, text, early)
  PROVE  x' = y /\ toRemote' \in Seq(Message)
BY Zenon, UseType DEF Return

\* The empty text is a text, and a property that is not NULL is one.
LEMMA NotifiedType ==
  ASSUME NEW y, NEW old, NEW set, Good(y, old, set), NEW ev
  PROVE  "" \in AllTexts /\ NotifiedText(y, ev) \in AllTexts
<1>1. "" \in AllTexts
  BY Zenon DEF AllTexts
<1>2. y.prop \in AllTexts \cup {NULL}
  BY Zenon, Fields DEF Good, Timely
<1> QED  BY Zenon, <1>1, <1>2 DEF NotifiedText

-----------------------------------------------------------------------------
(***************************************************************************)
(* The inductive invariant.                                                *)
(***************************************************************************)
THEOREM InitInv == Init => IInv
<1> SUFFICES ASSUME Init PROVE IInv
  BY Zenon
<1>1. /\ settime = 0 /\ stale = FALSE /\ denied = FALSE
      /\ toMaster = <<>> /\ toRemote = <<>> /\ rtext = ""
  BY Zenon DEF Init
<1>a. PICK o \in {"none", "them"}, t \in AllTexts : x = SelectionInit(o, t)
  BY Zenon DEF Init, AllTexts
<1>2. x \in SelectionState
  <2>1. <<>> \in Seq(Event) /\ <<>> \in Seq(Nat)
    OBVIOUS
  <2>2. [a \in Atoms |-> o] \in [Atoms -> {"none", "us", "them"}]
    BY Zenon
  <2> QED  BY Zenon, <1>a, <2>1, <2>2 DEF SelectionInit, SelectionState
<1>3. /\ x.queue = <<>> /\ x.asks = <<>> /\ x.lastev = 0 /\ x.since = 0 /\ x.clock = 1
      /\ x.cache = NULL /\ x.owner["PRIMARY"] # "us"
  BY Zenon, <1>a DEF SelectionInit, Atoms
<1>4. Timely(x, settime)
  <2>1. DOMAIN x.queue = {} /\ DOMAIN x.asks = {}
    BY <1>3
  <2>2. 0 <= 1 /\ 0 <= 0
    OBVIOUS
  <2>3. x.lastev <= x.clock /\ x.since <= settime /\ settime <= x.clock
    BY <1>1, <1>3, <2>2, Zenon
  <2> QED  BY Zenon, <1>2, <2>1, <2>3 DEF Timely
<1>5. ~OwnsAll(x)
  BY Zenon, <1>3 DEF OwnsAll, Atoms
<1>6. Good(x, stale, settime)
  BY Zenon, <1>3, <1>4, <1>5 DEF Good
<1>7. /\ toMaster \in Seq([type : {"SET"}, text : AllTexts])
      /\ toRemote \in Seq(Message) /\ rtext \in AllTexts
  <2>1. <<>> \in Seq([type : {"SET"}, text : AllTexts]) /\ <<>> \in Seq(Message)
    OBVIOUS
  <2> QED  BY <1>1, <2>1, Zenon DEF AllTexts
<1> QED  BY Zenon, <1>1, <1>6, <1>7 DEF IInv

\* A user or another client acts: users' keys and copies, requests, answers.
LEMMA OthersInv ==
  ASSUME IInv,
         \/ \E a \in Atoms, t \in Texts : TheirCopy(a, t)
         \/ \E ok \in BOOLEAN : TheirAnswer(ok)
         \/ \E a \in Atoms, time \in 0..x.clock : TheirPaste(a, time)
         \/ \E action \in {"remote", "master", "clear"} : PressHotkey(action)
         \/ \E t \in Texts : RemoteCopy(t)
  PROVE  IInv'
<1>0. /\ x \in SelectionState /\ x.clock \in Nat /\ x.prop \in AllTexts \cup {NULL}
      /\ x.queue \in Seq(Event) /\ Good(x, stale, settime)
      /\ settime \in Nat /\ stale \in BOOLEAN
  BY Zenon, Fields DEF IInv, Good, Timely
<1>1. ASSUME NEW a \in Atoms, NEW t \in Texts, TheirCopy(a, t)
      PROVE  IInv'
  <2>1. /\ x' = Take(x, a, t)
        /\ UNCHANGED <<toRemote, toMaster, rtext, denied, stale, settime>>
    BY Zenon, <1>1 DEF TheirCopy
  <2>2. Good(x', stale, settime)
    BY Zenon, <1>0, <2>1, TakeGood DEF Good, AllTexts
  <2> QED  BY Zenon, <2>1, <2>2 DEF IInv
<1>2. ASSUME NEW ok \in BOOLEAN, TheirAnswer(ok)
      PROVE  IInv'
  <2>1. /\ x.asks # <<>> /\ x' = Answer(x, ok)
        /\ UNCHANGED <<toRemote, toMaster, rtext, denied, stale, settime>>
    BY Zenon, <1>2 DEF TheirAnswer
  <2>2. Good(x', stale, settime)
    BY Zenon, <1>0, <2>1, AnswerGood
  <2> QED  BY Zenon, <2>1, <2>2 DEF IInv
<1>3. ASSUME NEW a \in Atoms, NEW time \in 0..x.clock, TheirPaste(a, time)
      PROVE  IInv'
  <2>1. x' = Paste(x, a, time) /\ UNCHANGED <<toRemote, toMaster, rtext, denied, stale, settime>>
    BY Zenon, <1>3 DEF TheirPaste, history
  <2>2. time \in Nat /\ time <= x.clock
    BY <1>0
  <2>3. Good(x', stale, settime)
    BY Zenon, <1>0, <2>1, <2>2, RequestGood DEF Paste
  <2> QED  BY Zenon, <2>1, <2>3 DEF IInv
<1>4. ASSUME NEW action \in {"remote", "master", "clear"}, PressHotkey(action)
      PROVE  IInv'
  <2> DEFINE c == x.clock + 1
             ev == [type |-> "Key", action |-> action, time |-> c]
             z == [x EXCEPT !.clock = c, !.prop = x.prop, !.queue = Append(x.queue, ev)]
  <2>1. /\ x' = [x EXCEPT !.clock = x.clock + 1,
                           !.queue = Append(x.queue, [type |-> "Key", action |-> action,
                                                      time |-> x.clock + 1])]
        /\ UNCHANGED <<toRemote, toMaster, rtext, denied, stale, settime>>
    BY Zenon, <1>4 DEF PressHotkey
  <2>2. c \in Nat /\ ev \in Event /\ ev.type = "Key" /\ ev.time = c /\ c <= c
    BY <1>0, EventTypes
  <2>3. c \in {x.clock, x.clock + 1}
    BY Zenon
  <2>a. x' = [x EXCEPT !.clock = c, !.queue = Append(x.queue, ev)]
    BY Zenon, <2>1
  <2> HIDE DEF c, ev
  <2>4. Good(z, stale, settime)
    BY Zenon, <1>0, <2>2, <2>3, EventGood
  <2>5. x' = z
    BY Zenon, <1>0, <2>a DEF SelectionState
  <2> QED  BY Zenon, <2>1, <2>4, <2>5 DEF IInv
<1>5. ASSUME NEW t \in Texts, RemoteCopy(t)
      PROVE  IInv'
  <2>1. /\ x' = [x EXCEPT !.clock = x.clock + 1] /\ rtext' = t
        /\ UNCHANGED <<toRemote, toMaster, denied, stale, settime>>
    BY Zenon, <1>5 DEF RemoteCopy
  <2>2. /\ x' \in SelectionState /\ x'.clock = x.clock + 1 /\ x'.owner = x.owner
        /\ x'.queue = x.queue /\ x'.asks = x.asks /\ x'.cache = x.cache
        /\ x'.since = x.since /\ x'.lastev = x.lastev
    BY SMTT(30), <1>0, <2>1 DEF SelectionState
  <2>3. Timely(x', settime)
    <3>1. Timely(x, settime) /\ x'.since <= settime
      BY Zenon, <1>0, <2>2 DEF Good, Timely
    <3> QED  BY Zenon, <1>0, <2>2, <3>1, LaterTimes
  <2>4. Good(x', stale, settime)
    BY Zenon, <1>0, <2>2, <2>3 DEF Good, HasEvent, OwnsAll
  <2> QED  BY Zenon, <2>1, <2>4 DEF IInv, AllTexts
<1> QED  BY Zenon, <1>1, <1>2, <1>3, <1>4, <1>5

\* Dispatch: one case per type of event, and no request wrongly refused.
LEMMA DispatchInv ==
  ASSUME IInv, NEW lost \in Atoms \cup {"none"}, NEW t \in Texts, Dispatch(lost, t)
  PROVE  IInv'
<1> DEFINE ev == Head(x.queue)
           y == GetXevent(x)
<1>0. /\ x.clock \in Nat /\ x.since \in Nat /\ x.since <= settime /\ Good(x, stale, settime)
      /\ settime \in Nat /\ stale \in BOOLEAN /\ toRemote \in Seq(Message)
      /\ OwnsAll(x) /\ ~stale => x.cache # NULL
      /\ denied = FALSE
  BY Zenon, Fields DEF IInv, Good, Timely
<1>1. /\ x.queue # <<>> /\ HandleEvent(y, ev, lost, t)
      /\ toMaster' = toMaster /\ rtext' = rtext
  BY Zenon DEF Dispatch
<1>2. denied' = FALSE
  <2>1. ev \in Event
    BY Zenon, <1>0, <1>1, TailEvent, Fields DEF Good, Timely
  <2>2. ev.time \in Nat
    BY Zenon, <2>1, EventTime
  <2>3. ASSUME Refuses(x, ev), ev.time = 0 \/ ev.time >= settime, OwnsAll(x), ~stale
        PROVE  FALSE
    BY <1>0, <2>2, <2>3 DEF Refuses
  <2> QED  BY Zenon, <1>0, <2>3 DEF Dispatch
<1>3. (ev.type # "Key" \/ ev.action # "clear") => stale' = stale /\ settime' = settime
  BY Zenon DEF Dispatch
<1> HIDE DEF ev, y
<1>4. CASE ev.type = "Clear"
  <2>1. x' = HandleSelectionClear(y, ev) /\ toRemote' = toRemote
    BY Zenon, <1>1, <1>4 DEF HandleEvent, Only
  <2>2. Good(x', stale, settime)
    BY Zenon, <1>0, <1>1, <1>4, <2>1, ClearGood DEF y, ev
  <2> QED  BY Zenon, <1>0, <1>1, <1>2, <1>3, <1>4, <2>1, <2>2 DEF IInv
<1>5. CASE ev.type # "Clear"
  <2>1. /\ Good(y, stale, settime) /\ y.clock = x.clock /\ ev \in Event
        /\ ev.time <= y.clock
        /\ HasEvent(y, "Clear") <=> HasEvent(x, "Clear")
    BY Zenon, <1>0, <1>1, <1>5, NextEventGood DEF y, ev
  <2>2. CASE ev.type = "Request"
    <3>1. x' = HandleSelectionRequest(y, ev) /\ toRemote' = toRemote
      BY Zenon, <1>1, <2>2 DEF HandleEvent, Only
    <3>2. Good(x', stale, settime)
      BY Zenon, <1>0, <2>1, <3>1, ServeGood
    <3> QED  BY Zenon, <1>0, <1>1, <1>2, <1>3, <2>2, <3>1, <3>2 DEF IInv
  <2>3. CASE ev.type = "Key" /\ ev.action = "clear"
    <3>1. ClearClipboards(y, lost, t)
      <4>1. ActionCb(y, ev.action, lost, t)
        BY Zenon, <1>1, <2>3 DEF HandleEvent
      <4>2. ev.action = "clear"
        BY Zenon, <2>3
      <4> QED  BY Zenon, <4>1, <4>2 DEF ActionCb
    <3>2. x' = SetClipboardText(y, "", lost, t) /\ SendSetclipboard("") /\ "" \in AllTexts
      BY Zenon, <3>1 DEF ClearClipboards, AllTexts
    <3>3. toRemote' \in Seq(Message)
      BY Zenon, <1>0, <3>2, SendType
    <3>4. stale' = HasEvent(x, "Clear") /\ settime' = x.clock
      BY Zenon, <2>3 DEF Dispatch, NoteSet, ev
    <3>5. Good(x', HasEvent(y, "Clear"), x.clock)
      BY Zenon, <1>0, <2>1, <3>2, SetGood
    <3>6. HasEvent(x, "Clear") \in BOOLEAN /\ HasEvent(y, "Clear") = HasEvent(x, "Clear")
      BY <2>1, Zenon DEF HasEvent
    <3> QED  BY Zenon, <1>0, <1>1, <1>2, <3>3, <3>4, <3>5, <3>6 DEF IInv
  <2>4. CASE ev.type = "Key" /\ ev.action # "clear"
    <3>1. Good(x', stale, settime) /\ toRemote' \in Seq(Message)
      <4>1. \/ Only(y) \/ FocusMaster(y) \/ GetClipboardText(y, "switch")
        BY Zenon, <1>1, <2>4 DEF HandleEvent, ActionCb
      <4>2. CASE Only(y)
        BY Zenon, <1>0, <2>1, <4>2 DEF Only
      <4>3. CASE FocusMaster(y)
        <5>1. [type |-> "GET"] \in Message
          BY Zenon DEF Message
        <5> QED  BY <1>0, <2>1, <4>3, <5>1 DEF FocusMaster
      <4>4. CASE GetClipboardText(y, "switch")
        BY Zenon, <1>0, <2>1, <4>4, GetStep
      <4> QED  BY Zenon, <4>1, <4>2, <4>3, <4>4
    <3> QED  BY Zenon, <1>0, <1>1, <1>2, <1>3, <2>4, <3>1 DEF IInv
  <2>5. CASE ev.type = "Notify"
    <3>1. x' = y /\ toRemote' = toRemote
      BY Zenon, <1>1, <2>5 DEF HandleEvent, Only
    <3> QED  BY Zenon, <1>0, <1>1, <1>2, <1>3, <2>1, <2>5, <3>1 DEF IInv
  <2>6. ev.type \in {"Clear", "Request", "Notify", "Key"}
    BY Zenon, <2>1 DEF Event
  <2> QED  BY Zenon, <1>5, <2>2, <2>3, <2>4, <2>5, <2>6
<1> QED  BY Zenon, <1>4, <1>5

\* Messages received, and waits that end.
LEMMA ReceiveInv ==
  ASSUME IInv,
         \/ \E lost \in Atoms \cup {"none"}, t \in Texts : ReceiveSet(lost, t)
         \/ \E early \in BOOLEAN : Notified(early) \/ GiveUp(early)
         \/ RemoteReceive
  PROVE  IInv'
<1> DEFINE Set == [type : {"SET"}, text : AllTexts]
<1>0. /\ x.clock \in Nat /\ Good(x, stale, settime)
      /\ settime \in Nat /\ stale \in BOOLEAN /\ toRemote \in Seq(Message)
      /\ toMaster \in Seq(Set) /\ rtext \in AllTexts /\ denied = FALSE
      /\ "" \in AllTexts
  BY Zenon, Fields DEF IInv, Good, Timely, AllTexts
<1>1. ASSUME NEW lost \in Atoms \cup {"none"}, NEW t \in Texts, ReceiveSet(lost, t)
      PROVE  IInv'
  <2> DEFINE text == Head(toMaster).text
             y == SetClipboardText(x, text, lost, t)
             old == HasEvent(x, "Clear")
  <2>1. /\ toMaster # <<>> /\ toMaster' = Tail(toMaster)
        /\ GetClipboardText(y, "forward") \/ Only(y)
        /\ stale' = old /\ settime' = x.clock /\ rtext' = rtext /\ denied' = denied
    BY Zenon, <1>1 DEF ReceiveSet, NoteSet
  <2>2. Head(toMaster) \in Set /\ Tail(toMaster) \in Seq(Set)
    BY Zenon, <1>0, <2>1, QueueType
  <2>3. text \in AllTexts /\ old \in BOOLEAN
    BY Zenon, <2>2 DEF HasEvent
  <2>4. Good(y, old, x.clock)
    BY Zenon, <1>0, <2>3, SetGood
  <2> HIDE DEF y, old
  <2>5. Good(x', old, x.clock) /\ toRemote' \in Seq(Message)
    <3>1. CASE Only(y)
      BY Zenon, <1>0, <2>4, <3>1 DEF Only
    <3>2. CASE GetClipboardText(y, "forward")
      BY Zenon, <1>0, <2>3, <2>4, <3>2, GetStep
    <3> QED  BY Zenon, <2>1, <3>1, <3>2
  <2> QED  BY Zenon, <1>0, <2>1, <2>2, <2>3, <2>5 DEF IInv
<1>2. ASSUME NEW early \in BOOLEAN, Notified(early)
      PROVE  IInv'
  <2> DEFINE ev == Head(x.queue)
             y == GetXevent(x)
  <2>1. /\ x.queue # <<>> /\ ev.type = "Notify"
        /\ Return(ReadProperty(y, ev), NotifiedText(y, ev), early)
        /\ UNCHANGED <<toMaster, rtext, denied, stale, settime>>
    BY Zenon, <1>2 DEF Notified
  <2>2. Good(y, stale, settime)
    BY Zenon, <1>0, <2>1, NextEventGood
  <2> HIDE DEF y, ev
  <2>3. Good(ReadProperty(y, ev), stale, settime) /\ NotifiedText(y, ev) \in AllTexts
    BY Zenon, <1>0, <2>2, ReadGood, NotifiedType
  <2>4. x' = ReadProperty(y, ev) /\ toRemote' \in Seq(Message)
    BY Zenon, <1>0, <2>1, <2>3, ReturnStep
  <2> QED  BY Zenon, <1>0, <2>1, <2>3, <2>4 DEF IInv
<1>3. ASSUME NEW early \in BOOLEAN, GiveUp(early)
      PROVE  IInv'
  <2>1. Return(x, "", early) /\ UNCHANGED <<toMaster, rtext, denied, stale, settime>>
    BY Zenon, <1>3 DEF GiveUp
  <2>2. x' = x /\ toRemote' \in Seq(Message)
    BY Zenon, <1>0, <2>1, ReturnStep
  <2> QED  BY Zenon, <1>0, <2>1, <2>2 DEF IInv
<1>4. CASE RemoteReceive
  <2>1. /\ toRemote # <<>> /\ toRemote' = Tail(toRemote)
        /\ \/ toMaster' = Append(toMaster, [type |-> "SET", text |-> rtext]) /\ rtext' = rtext
           \/ /\ Head(toRemote).type # "GET" /\ rtext' = Head(toRemote).text
              /\ toMaster' = toMaster
        /\ UNCHANGED <<x, denied, stale, settime>>
    BY Zenon, <1>4 DEF RemoteReceive, history
  <2>2. Head(toRemote) \in Message /\ toRemote' \in Seq(Message)
    BY Zenon, <1>0, <2>1, QueueType
  <2>3. [type |-> "SET", text |-> rtext] \in Set
    BY Zenon, <1>0
  <2>4. toMaster' \in Seq(Set) /\ rtext' \in AllTexts
    <3>1. Head(toRemote).type # "GET" => Head(toRemote).text \in AllTexts
      BY Zenon, <2>2 DEF Message
    <3>2. Append(toMaster, [type |-> "SET", text |-> rtext]) \in Seq(Set)
      BY <1>0, <2>3, QueueType, Zenon
    <3> QED  BY <1>0, <2>1, <3>1, <3>2, Zenon
  <2> QED  BY Zenon, <1>0, <2>1, <2>2, <2>4 DEF IInv
<1> QED  BY Zenon, <1>1, <1>2, <1>3, <1>4

\* Every step of the specification keeps the invariant.
THEOREM StepInv == IInv /\ [Next]_vars => IInv'
<1> SUFFICES ASSUME IInv, [Next]_vars PROVE IInv'
  BY Zenon
<1>1. CASE UNCHANGED vars
  BY Zenon, <1>1 DEF IInv, vars, history
<1>2. CASE TimeOut
  <2>1. UNCHANGED <<x, toRemote, toMaster, rtext, denied, stale, settime>>
    BY Zenon, <1>2 DEF TimeOut, history
  <2> QED  BY Zenon, <2>1 DEF IInv
<1>3. CASE \E lost \in Atoms \cup {"none"}, t \in Texts : Dispatch(lost, t)
  BY Zenon, <1>3, DispatchInv
<1> QED  BY Zenon, <1>1, <1>2, <1>3, OthersInv, ReceiveInv DEF Next

\* Spec => []IInv, from the two.
THEOREM Invariance == Spec => []IInv
BY InitInv, StepInv, PTL DEF Spec

-----------------------------------------------------------------------------
\* The cached text stands for ownership of both selections (x11.c), for every
\* interleaving of copies, lost selections, requests, hotkeys handled inside a
\* wait, time-outs and messages.
THEOREM CacheSound == Spec => []CacheMatchesOwnership
<1>1. IInv => CacheMatchesOwnership
  BY Zenon DEF IInv, Good, CacheMatchesOwnership
<1> QED  BY <1>1, Invariance, PTL

\* handle_selection_request refuses no request made while the process owns the
\* selections: the times it compares are in the order in which it took them.
THEOREM RequestsGranted == Spec => []PasteServed
<1>1. IInv => PasteServed
  BY Zenon DEF IInv, PasteServed
<1> QED  BY <1>1, Invariance, PTL

-----------------------------------------------------------------------------
(***************************************************************************)
(* Queues seen through a set S of events: none of S is in q, or e is the   *)
(* only one.                                                               *)
(***************************************************************************)
None(q, S) == \A i \in DOMAIN q : q[i] \notin S

Lone(q, e, S) ==
  /\ e \in S
  /\ \E k \in DOMAIN q : q[k] = e /\ \A i \in DOMAIN q : q[i] \in S => i = k

\* The events that belong to a conversion of ours.
Pending == {ev \in Event : ev.type = "Notify" \/ (ev.type = "Request" /\ ev.from = "us")}

\* The events that change more than the time of the last event.
Busy == {ev \in Event : ev.type # "Request" \/ ev.from # "them"}

-----------------------------------------------------------------------------
(***************************************************************************)
(* The stages of a calm transfer.  Still: nothing is under way between the *)
(* nodes or the processes.                                                 *)
(***************************************************************************)
Still == waits = <<>> /\ x.asks = <<>> /\ toMaster = <<>>

MasterHas == "master" \in holders => PrimaryText(x) = newest
RemoteHas == "remote" \in holders => rtext = newest

\* All is transferred; at most a hotkey or the loss of PRIMARY is unread.
Resting == Still /\ toRemote = <<>> /\ None(x.queue, Busy) /\ MasterHas /\ RemoteHas

Pressed ==
  /\ Still /\ toRemote = <<>> /\ MasterHas /\ RemoteHas
  /\ \E e \in Busy :
       /\ Lone(x.queue, e, Busy)
       /\ e.type = "Key" \/ (e.type = "Clear" /\ x.owner["PRIMARY"] = "them")

\* The text is on its way to the remote.
Sent ==
  /\ Still /\ toRemote = <<[type |-> "SET", text |-> newest]>>
  /\ None(x.queue, Busy) /\ MasterHas

\* It is asked of the remote, and on its way to the master.
Asked ==
  /\ Still /\ toRemote = <<[type |-> "GET"]>> /\ None(x.queue, Busy)
  /\ rtext = newest /\ focused = "master"

Fetched ==
  /\ waits = <<>> /\ x.asks = <<>> /\ toMaster = <<[type |-> "SET", text |-> newest]>>
  /\ toRemote = <<>> /\ None(x.queue, Busy)
  /\ rtext = newest /\ focused = "master"

\* What get_clipboard_text makes of the SelectionNotify e, if the property is
\* as it is now.
AnswerText(y, e) == IF e.ok THEN y.prop ELSE ""

\* The conversion that get_clipboard_text waits for has the text: another
\* client owes it, the process itself will send it, or it is in the queue.
Awaited(y, text) ==
  \/ Len(y.asks) = 1 /\ None(y.queue, Busy) /\ y.owner["PRIMARY"] = "them"
  \/ /\ y.asks = <<>>
     /\ \E e \in Busy :
          /\ Lone(y.queue, e, Busy)
          /\ \/ e.type = "Notify" /\ AnswerText(y, e) = text
             \/ /\ e.type = "Request" /\ y.owner["PRIMARY"] = "us"
                /\ y.since = 0 \/ y.cache = NULL

\* The switch to the remote waits for it.
Waiting ==
  /\ Len(waits) = 1 /\ waits[1].kind = "switch" /\ toRemote = <<>> /\ toMaster = <<>>
  /\ "remote" \in holders /\ PrimaryText(x) = newest /\ Awaited(x, newest)

Stage == Resting \/ Pressed \/ Sent \/ Asked \/ Fetched \/ Waiting

\* The waits are waits, and a time that is up is that of one of them.
WaitInv == waits \in Seq(Wait) /\ (due => waits # <<>>)

NodeInv == focused \in {"master", "remote"} /\ newest \in AllTexts

CalmInv == calm => focused \in holders /\ Stage

-----------------------------------------------------------------------------
(***************************************************************************)
(* Queues, seen through a set of events.                                   *)
(***************************************************************************)
\* r has the same events of S as q, if q has at most one.
Keeps(q, r, S) ==
  /\ None(q, S) => None(r, S)
  /\ \A e : Lone(q, e, S) => Lone(r, e, S)

\* A queue with one event of S is not one without.
LEMMA LoneSome == \A q, e, S : Lone(q, e, S) => ~None(q, S)
BY Zenon DEF Lone, None

\* An event that is not of S changes nothing, one of S is the only one.
LEMMA AppendKeeps ==
  ASSUME NEW S, NEW q \in Seq(Event), NEW ev \in Event
  PROVE  /\ ev \notin S => Keeps(q, Append(q, ev), S)
         /\ ev \in S /\ None(q, S) => Lone(Append(q, ev), ev, S)
<1> DEFINE r == Append(q, ev)
           n == Len(q) + 1
<1>1. /\ DOMAIN q = 1..Len(q) /\ DOMAIN r = 1..n /\ Len(q) \in Nat /\ n \in DOMAIN r
      /\ r[n] = ev /\ n \notin DOMAIN q
  OBVIOUS
<1>2. \A i \in DOMAIN q : i \in DOMAIN r /\ r[i] = q[i]
  OBVIOUS
<1>3. \A i \in DOMAIN r : i = n \/ i \in DOMAIN q
  BY <1>1
<1> HIDE DEF r, n
<1>4. ASSUME ev \notin S, None(q, S)
      PROVE  None(r, S)
  BY Zenon, <1>1, <1>2, <1>3, <1>4 DEF None
<1>5. ASSUME ev \notin S, NEW e, Lone(q, e, S)
      PROVE  Lone(r, e, S)
  BY Zenon, <1>1, <1>2, <1>3, <1>5 DEF Lone
<1>6. ASSUME ev \in S, None(q, S)
      PROVE  Lone(r, ev, S)
  BY Zenon, <1>1, <1>2, <1>3, <1>6 DEF Lone, None
<1> QED  BY Zenon, <1>4, <1>5, <1>6 DEF Keeps, r

\* The head of the queue is the one event of S, or not of S.
LEMMA TailKeeps ==
  ASSUME NEW S, NEW q \in Seq(Event), q # <<>>
  PROVE  /\ Head(q) \notin S => Keeps(q, Tail(q), S)
         /\ None(q, S) => Head(q) \notin S /\ None(Tail(q), S)
         /\ \A e : Lone(q, e, S) /\ Head(q) \in S => Head(q) = e /\ None(Tail(q), S)
<1> DEFINE r == Tail(q)
           h == Head(q)
<1>1. /\ DOMAIN q = 1..Len(q) /\ DOMAIN r = 1..Len(q) - 1 /\ Len(q) \in Nat \ {0}
      /\ 1 \in DOMAIN q /\ h = q[1]
  OBVIOUS
<1>2. \A i \in DOMAIN r : i + 1 \in DOMAIN q /\ r[i] = q[i + 1] /\ i + 1 # 1
  BY <1>1
<1>3. \A j \in DOMAIN q : j # 1 => j - 1 \in DOMAIN r /\ r[j - 1] = q[j]
  BY <1>1
<1>4. \A i, j \in DOMAIN r : i + 1 = j + 1 => i = j
  BY <1>1
<1>5. \A i \in DOMAIN r, j \in DOMAIN q : i + 1 = j => i = j - 1
  BY <1>1
<1> HIDE DEF r, h
<1>6. ASSUME None(q, S)
      PROVE  h \notin S /\ None(r, S)
  BY Zenon, <1>1, <1>2, <1>6 DEF None
<1>7. ASSUME NEW e, Lone(q, e, S), h \in S
      PROVE  h = e /\ None(r, S)
  <2>1. PICK k \in DOMAIN q : q[k] = e /\ \A i \in DOMAIN q : q[i] \in S => i = k
    BY Zenon, <1>7 DEF Lone
  <2>2. k = 1
    BY Zenon, <1>1, <1>7, <2>1
  <2> QED  BY Zenon, <1>1, <1>2, <2>1, <2>2 DEF None
<1>8. ASSUME NEW e, Lone(q, e, S), h \notin S
      PROVE  Lone(r, e, S)
  <2>1. PICK k \in DOMAIN q : q[k] = e /\ \A i \in DOMAIN q : q[i] \in S => i = k
    BY Zenon, <1>8 DEF Lone
  <2>2. e \in S /\ k # 1
    BY Zenon, <1>1, <1>8, <2>1 DEF Lone
  <2>3. k - 1 \in DOMAIN r /\ r[k - 1] = e
    BY Zenon, <1>3, <2>1, <2>2
  <2>4. ASSUME NEW i \in DOMAIN r, r[i] \in S
        PROVE  i = k - 1
    BY Zenon, <1>2, <1>5, <2>1, <2>4
  <2> QED  BY Zenon, <2>2, <2>3, <2>4 DEF Lone
<1> QED  BY Zenon, <1>6, <1>7, <1>8 DEF Keeps, r, h

LEMMA KeepsTrans ==
  \A q, r, s, S : /\ Keeps(q, q, S)
                  /\ Keeps(q, r, S) /\ Keeps(r, s, S) => Keeps(q, s, S)
BY Zenon DEF Keeps

-----------------------------------------------------------------------------
(***************************************************************************)
(* The fields of the state after the operators of Selection.               *)
(***************************************************************************)
LEMMA PrimaryType == \A y \in SelectionState : PrimaryText(y) \in AllTexts
<1> SUFFICES ASSUME NEW y \in SelectionState PROVE PrimaryText(y) \in AllTexts
  BY Zenon
<1>1. y.theirs \in AllTexts /\ y.cache \in AllTexts \cup {NULL} /\ "" \in AllTexts
  BY Zenon, Fields DEF AllTexts
<1> QED  BY Zenon, <1>1 DEF PrimaryText

\* Another client takes a selection.
LEMMA TakeFields ==
  ASSUME NEW y \in SelectionState, NEW a \in Atoms, NEW t \in AllTexts,
         NEW z, z = Take(y, a, t)
  PROVE  /\ z.prop = y.prop /\ z.cache = y.cache /\ z.since = y.since
         /\ a = "PRIMARY" => z.owner["PRIMARY"] = "them" /\ z.theirs = t
         /\ a # "PRIMARY" => z.theirs = y.theirs
         /\ z.asks = y.asks /\ z.lastev = y.lastev
         /\ z \in SelectionState
         /\ \E ev \in Event : ev.type = "Clear" /\ z.queue \in {y.queue, Append(y.queue, ev)}
<1> DEFINE ev == [type |-> "Clear", atom |-> a, time |-> y.clock + 1]
           c == y.clock + 1
           o == [y.owner EXCEPT ![a] = "them"]
           th == IF a = "PRIMARY" THEN t ELSE y.theirs
           q == IF y.owner[a] = "us" THEN Append(y.queue, ev) ELSE y.queue
<1>1. /\ y.clock \in Nat /\ y.queue \in Seq(Event) /\ y.theirs \in AllTexts
      /\ y.owner \in [Atoms -> {"none", "us", "them"}]
  BY Zenon, Fields
<1>2. ev \in Event /\ ev.type = "Clear" /\ c \in Nat
  BY <1>1, EventTypes
<1>4. z = [y EXCEPT !.clock = c, !.owner = o, !.theirs = th, !.queue = q]
  BY Zenon DEF Take
<1>5. q \in {y.queue, Append(y.queue, ev)} /\ th \in AllTexts
      /\ o \in [Atoms -> {"none", "us", "them"}]
  BY Zenon, <1>1
<1> HIDE DEF ev
<1>6. q \in Seq(Event)
  BY Zenon, <1>1, <1>2, <1>5, QueueType
<1> HIDE DEF c, o, th, q
<1>7. /\ z \in SelectionState /\ z.asks = y.asks /\ z.prop = y.prop /\ z.queue = q
      /\ z.owner = o /\ z.theirs = th /\ z.cache = y.cache /\ z.since = y.since
      /\ z.lastev = y.lastev
  BY ZenonT(30), <1>1, <1>2, <1>4, <1>5, <1>6 DEF SelectionState
<1>9. \E e \in Event : e.type = "Clear" /\ z.queue \in {y.queue, Append(y.queue, e)}
  BY Zenon, <1>2, <1>5, <1>7
<1>10. /\ a = "PRIMARY" => o["PRIMARY"] = "them" /\ th = t
       /\ a # "PRIMARY" => th = y.theirs
  BY Zenon, <1>1 DEF o, th
<1> QED  BY Zenon, <1>7, <1>9, <1>10

\* get_xevent: the head of the queue is gone, and only its time is kept.
LEMMA NextFields ==
  ASSUME NEW y \in SelectionState, y.queue # <<>>,
         NEW z, z = GetXevent(y)
  PROVE  /\ z \in SelectionState /\ z.queue = Tail(y.queue) /\ z.asks = y.asks
         /\ z.prop = y.prop /\ z.owner = y.owner /\ z.theirs = y.theirs
         /\ z.cache = y.cache /\ z.since = y.since
         /\ Head(y.queue) \in Event
         /\ PrimaryText(z) = PrimaryText(y)
<1> DEFINE n == Head(y.queue).time
           q == Tail(y.queue)
<1>1. y.queue \in Seq(Event) /\ y.asks \in Seq(Nat)
  BY Zenon, Fields
<1>2. q \in Seq(Event) /\ Head(y.queue) \in Event /\ n \in Nat
  BY Zenon, <1>1, TailEvent, EventTime
<1>3. z = [y EXCEPT !.queue = q, !.lastev = n]
  BY Zenon DEF GetXevent
<1> HIDE DEF n, q
<1>6. /\ z \in SelectionState /\ z.queue = q /\ z.asks = y.asks /\ z.prop = y.prop
      /\ z.owner = y.owner /\ z.theirs = y.theirs /\ z.cache = y.cache /\ z.since = y.since
  BY Zenon, <1>2, <1>3 DEF SelectionState
<1>7. PrimaryText(z) = PrimaryText(y)
  BY Zenon, <1>6 DEF PrimaryText
<1> QED  BY Zenon, <1>2, <1>6, <1>7 DEF q

\* z is y with the clipboard text set, and at most a SelectionClear in addition.
Reset(y, z, text) ==
  /\ z \in SelectionState /\ z.asks = y.asks /\ z.prop = y.prop /\ z.cache = text
  /\ z.theirs = y.theirs \/ z.theirs = PrimaryText(z)
  /\ \E ev \in Event : ev.type = "Clear" /\ z.queue \in {y.queue, Append(y.queue, ev)}

\* A selection is lost again at once.
LEMMA LostFields ==
  ASSUME NEW y \in SelectionState, NEW u \in SelectionState,
         u.asks = y.asks, u.prop = y.prop, u.queue = y.queue, u.theirs = y.theirs,
         NEW a \in Atoms, NEW t \in AllTexts, NEW z, z = Take(u, a, t)
  PROVE  Reset(y, z, u.cache)
<1>1. /\ z \in SelectionState /\ z.cache = u.cache /\ z.prop = u.prop /\ z.asks = u.asks
      /\ a = "PRIMARY" => z.owner["PRIMARY"] = "them" /\ z.theirs = t
      /\ a # "PRIMARY" => z.theirs = u.theirs
      /\ \E ev \in Event : ev.type = "Clear" /\ z.queue \in {u.queue, Append(u.queue, ev)}
  BY TakeFields
<1>2. a = "PRIMARY" => z.theirs = PrimaryText(z)
  BY Zenon, <1>1 DEF PrimaryText
<1> QED  BY Zenon, <1>1, <1>2 DEF Reset

\* set_clipboard_text: the text is cached; one selection may be lost again.
LEMMA SetFields ==
  ASSUME NEW y \in SelectionState, NEW text \in AllTexts,
         NEW lost \in Atoms \cup {"none"}, NEW t \in AllTexts,
         NEW z, z = SetClipboardText(y, text, lost, t)
  PROVE  /\ Reset(y, z, text)
         /\ lost = "none" => z.queue = y.queue /\ z.owner["PRIMARY"] = "us"
<1> DEFINE op == [y.owner EXCEPT !["PRIMARY"] = "us"]
           ob == [op EXCEPT !["CLIPBOARD"] = "us"]
           owned(o, n) == [y EXCEPT !.cache = text, !.since = n, !.owner = o]
<1>1. /\ y.owner \in [Atoms -> {"none", "us", "them"}] /\ y.lastev \in Nat /\ 0 \in Nat
      /\ y.queue \in Seq(Event)
  BY Zenon, Fields
<1>2. /\ op \in [Atoms -> {"none", "us", "them"}] /\ ob \in [Atoms -> {"none", "us", "them"}]
      /\ ob["PRIMARY"] = "us"
  BY Zenon, <1>1 DEF Atoms
<1>3. ASSUME NEW o \in [Atoms -> {"none", "us", "them"}], NEW n \in Nat
      PROVE  /\ owned(o, n) \in SelectionState /\ owned(o, n).asks = y.asks
             /\ owned(o, n).prop = y.prop /\ owned(o, n).queue = y.queue
             /\ owned(o, n).cache = text /\ owned(o, n).theirs = y.theirs
             /\ owned(o, n).owner = o
  BY Zenon, <1>3 DEF SelectionState
<1>4. \E ev \in Event : ev.type = "Clear"
  <2>1. "PRIMARY" \in Atoms /\ [type |-> "Clear", atom |-> "PRIMARY", time |-> 0].type = "Clear"
    BY Zenon DEF Atoms
  <2> QED  BY Zenon, <1>1, <2>1, EventTypes
<1>5. CASE lost = "none"
  <2>1. z = owned(ob, y.lastev)
    BY Zenon, <1>5 DEF SetClipboardText, ClearClipboardCache, SelectionState
  <2> HIDE DEF owned, ob, op
  <2>2. /\ z \in SelectionState /\ z.asks = y.asks /\ z.prop = y.prop /\ z.queue = y.queue
        /\ z.cache = text /\ z.theirs = y.theirs /\ z.owner = ob
    BY <1>1, <1>2, <1>3, <2>1
  <2>3. \E ev \in Event : ev.type = "Clear" /\ z.queue \in {y.queue, Append(y.queue, ev)}
    BY Zenon, <1>4, <2>2
  <2>4. Reset(y, z, text)
    BY Zenon, <2>2, <2>3 DEF Reset
  <2> QED  BY Zenon, <1>2, <2>2, <2>4
<1>6. ASSUME NEW a \in Atoms, NEW o \in [Atoms -> {"none", "us", "them"}],
             z = Take(owned(o, 0), a, t)
      PROVE  Reset(y, z, text)
  <2> DEFINE u == owned(o, 0)
  <2> HIDE DEF owned
  <2>1. /\ u \in SelectionState /\ u.cache = text /\ u.theirs = y.theirs
        /\ u.asks = y.asks /\ u.prop = y.prop /\ u.queue = y.queue /\ z = Take(u, a, t)
    BY Zenon, <1>1, <1>3, <1>6
  <2> HIDE DEF u, op, ob
  <2>2. Reset(y, z, u.cache)
    BY Zenon, <2>1, LostFields
  <2> QED  BY Zenon, <2>1, <2>2
<1>7. CASE lost = "PRIMARY"
  <2>1. z = Take(owned(op, 0), "PRIMARY", t)
    BY Zenon, <1>7 DEF SetClipboardText, ClearClipboardCache, SelectionState
  <2>2. "PRIMARY" \in Atoms /\ lost # "none"
    BY Zenon, <1>7 DEF Atoms
  <2> HIDE DEF owned, op, ob
  <2> QED  BY Zenon, <1>2, <1>6, <2>1, <2>2
<1>8. CASE lost = "CLIPBOARD"
  <2>1. z = Take(owned(ob, 0), "CLIPBOARD", t)
    BY Zenon, <1>8 DEF SetClipboardText, ClearClipboardCache, SelectionState
  <2>2. "CLIPBOARD" \in Atoms /\ lost # "none"
    BY Zenon, <1>8 DEF Atoms
  <2> HIDE DEF owned, op, ob
  <2> QED  BY Zenon, <1>2, <1>6, <2>1, <2>2
<1> QED  BY Zenon, <1>5, <1>7, <1>8 DEF Atoms

\* The events of a conversion.
LEMMA PendingEvents ==
  /\ \A ok \in BOOLEAN, n \in Nat :
       LET e == [type |-> "Notify", ok |-> ok, time |-> n]
       IN e \in Event /\ e \in Pending /\ e \in Busy /\ e.type = "Notify" /\ e.ok = ok
  /\ \A a \in Atoms, n \in Nat :
       LET e == [type |-> "Request", from |-> "us", atom |-> a, time |-> n]
       IN e \in Event /\ e \in Pending /\ e \in Busy /\ e.type = "Request" /\ e.from = "us"
<1>1. ASSUME NEW ok \in BOOLEAN, NEW n \in Nat
      PROVE  LET e == [type |-> "Notify", ok |-> ok, time |-> n]
             IN e \in Event /\ e \in Pending /\ e \in Busy /\ e.type = "Notify" /\ e.ok = ok
  <2> DEFINE e == [type |-> "Notify", ok |-> ok, time |-> n]
  <2>1. e \in Event /\ e.type = "Notify" /\ e.ok = ok
    BY Zenon, EventTypes
  <2> HIDE DEF e
  <2>2. e \in Pending /\ e \in Busy
    BY Zenon, <2>1 DEF Pending, Busy
  <2> QED  BY Zenon, <2>1, <2>2 DEF e
<1>2. ASSUME NEW a \in Atoms, NEW n \in Nat
      PROVE  LET e == [type |-> "Request", from |-> "us", atom |-> a, time |-> n]
             IN e \in Event /\ e \in Pending /\ e \in Busy /\ e.type = "Request" /\ e.from = "us"
  <2> DEFINE e == [type |-> "Request", from |-> "us", atom |-> a, time |-> n]
  <2>1. e \in Event /\ e.type = "Request" /\ e.from = "us"
    BY Zenon, EventTypes
  <2> HIDE DEF e
  <2>2. e \in Pending /\ e \in Busy
    BY Zenon, <2>1 DEF Pending, Busy
  <2> QED  BY Zenon, <2>1, <2>2 DEF e
<1> QED  BY Zenon, <1>1, <1>2

\* A key and a request of another client are no part of a conversion.
LEMMA OtherEvents ==
  /\ \A k \in {"remote", "master", "clear"}, n \in Nat :
       /\ [type |-> "Key", action |-> k, time |-> n] \in Event
       /\ [type |-> "Key", action |-> k, time |-> n] \notin Pending
       /\ [type |-> "Key", action |-> k, time |-> n] \in Busy
  /\ \A a \in Atoms, n \in Nat :
       /\ [type |-> "Request", from |-> "them", atom |-> a, time |-> n] \in Event
       /\ [type |-> "Request", from |-> "them", atom |-> a, time |-> n] \notin Pending
       /\ [type |-> "Request", from |-> "them", atom |-> a, time |-> n] \notin Busy
<1>1. ASSUME NEW e \in Event, e.type = "Key"
      PROVE  e \notin Pending /\ e \in Busy
  BY Zenon, <1>1 DEF Pending, Busy
<1>2. ASSUME NEW e \in Event, e.type = "Request", e.from = "them"
      PROVE  e \notin Pending /\ e \notin Busy
  BY Zenon, <1>2 DEF Pending, Busy
<1>3. ASSUME NEW k \in {"remote", "master", "clear"}, NEW n \in Nat
      PROVE  LET e == [type |-> "Key", action |-> k, time |-> n]
             IN e \in Event /\ e \notin Pending /\ e \in Busy
  <2> DEFINE e == [type |-> "Key", action |-> k, time |-> n]
  <2>1. e \in Event /\ e.type = "Key"
    BY Zenon, EventTypes
  <2> HIDE DEF e
  <2> QED  BY Zenon, <1>1, <2>1 DEF e
<1>4. ASSUME NEW a \in Atoms, NEW n \in Nat
      PROVE  LET e == [type |-> "Request", from |-> "them", atom |-> a, time |-> n]
             IN e \in Event /\ e \notin Pending /\ e \notin Busy
  <2> DEFINE e == [type |-> "Request", from |-> "them", atom |-> a, time |-> n]
  <2>1. e \in Event /\ e.type = "Request" /\ e.from = "them"
    BY Zenon, EventTypes
  <2> HIDE DEF e
  <2> QED  BY Zenon, <1>2, <2>1 DEF e
<1> QED  BY Zenon, <1>3, <1>4

\* What the server puts into the queue for a conversion.
Asks(o, e) ==
  \/ o = "none" /\ e.type = "Notify" /\ e.ok = FALSE
  \/ o = "us" /\ e.type = "Request" /\ e.from = "us"

\* XConvertSelection: an answer, a request or a debt of the other client.
LEMMA ConvertFields ==
  ASSUME NEW y \in SelectionState, NEW z, z = ConvertSelection(y)
  PROVE  /\ z.prop = y.prop /\ z.owner = y.owner
         /\ z.theirs = y.theirs /\ z.cache = y.cache /\ z.since = y.since
         /\ \/ /\ y.owner["PRIMARY"] \in {"none", "us"} /\ z.asks = y.asks
               /\ \E e \in Event : /\ z.queue = Append(y.queue, e)
                                  /\ Asks(y.owner["PRIMARY"], e)
            \/ /\ y.owner["PRIMARY"] = "them" /\ z.queue = y.queue
               /\ z.asks = Append(y.asks, y.lastev)
<1>1. /\ y.queue \in Seq(Event) /\ y.asks \in Seq(Nat) /\ y.lastev \in Nat
      /\ y.owner["PRIMARY"] \in {"none", "us", "them"} /\ "PRIMARY" \in Atoms
  BY Zenon, Fields DEF Atoms
<1>2. ASSUME NEW e \in Event, z = [y EXCEPT !.queue = Append(y.queue, e)]
      PROVE  /\ z.asks = y.asks /\ z.prop = y.prop /\ z.owner = y.owner
             /\ z.theirs = y.theirs /\ z.cache = y.cache /\ z.since = y.since
             /\ z.queue = Append(y.queue, e)
  BY Zenon, <1>2 DEF SelectionState
<1>3. CASE y.owner["PRIMARY"] = "none"
  <2> DEFINE e == [type |-> "Notify", ok |-> FALSE, time |-> y.lastev]
  <2>1. e \in Event /\ e \in Pending /\ e.type = "Notify" /\ e.ok = FALSE
    BY Zenon, <1>1, PendingEvents
  <2>2. z = [y EXCEPT !.queue = Append(y.queue, e)]
    BY Zenon, <1>3 DEF ConvertSelection
  <2> HIDE DEF e
  <2>3. Asks(y.owner["PRIMARY"], e)
    BY Zenon, <1>3, <2>1 DEF Asks
  <2> QED  BY Zenon, <1>2, <1>3, <2>1, <2>2, <2>3
<1>4. CASE y.owner["PRIMARY"] = "us"
  <2> DEFINE e == [type |-> "Request", from |-> "us", atom |-> "PRIMARY", time |-> y.lastev]
  <2>1. e \in Event /\ e \in Pending /\ e.type = "Request" /\ e.from = "us"
    BY Zenon, <1>1, PendingEvents
  <2>2. z = [y EXCEPT !.queue = Append(y.queue, e)]
    BY Zenon, <1>4 DEF ConvertSelection
  <2> HIDE DEF e
  <2>3. Asks(y.owner["PRIMARY"], e)
    BY Zenon, <1>4, <2>1 DEF Asks
  <2> QED  BY Zenon, <1>2, <1>4, <2>1, <2>2, <2>3
<1>5. CASE y.owner["PRIMARY"] = "them"
  <2>1. z = [y EXCEPT !.asks = Append(y.asks, y.lastev)]
    BY Zenon, <1>5 DEF ConvertSelection
  <2>2. /\ z.asks = Append(y.asks, y.lastev) /\ z.prop = y.prop /\ z.owner = y.owner
        /\ z.theirs = y.theirs /\ z.cache = y.cache /\ z.since = y.since
        /\ z.queue = y.queue
    BY Zenon, <2>1 DEF SelectionState
  <2> QED  BY Zenon, <1>5, <2>2
<1> QED  BY Zenon, <1>1, <1>3, <1>4, <1>5

\* handle_selection_request on the process's own request.
LEMMA ServeFields ==
  ASSUME NEW y \in SelectionState, NEW ev \in Event, ev.from = "us",
         NEW z, z = HandleSelectionRequest(y, ev)
  PROVE  /\ z.asks = y.asks /\ z.owner = y.owner
         /\ z.theirs = y.theirs /\ z.cache = y.cache /\ z.since = y.since
         /\ \E n \in Event : /\ n.type = "Notify" /\ n.ok = ~Refuses(y, ev)
                             /\ z.queue = Append(y.queue, n)
                             /\ z.prop = (IF n.ok THEN y.cache ELSE y.prop)
<1> DEFINE ok == ~Refuses(y, ev)
           n == [type |-> "Notify", ok |-> ok, time |-> ev.time]
           p == IF ok THEN y.cache ELSE y.prop
<1>1. ok \in BOOLEAN /\ ev.time \in Nat
  BY Zenon, EventTime
<1>2. n \in Event /\ n \in Pending /\ n.type = "Notify" /\ n.ok = ok
  BY Zenon, <1>1, PendingEvents
<1>3. z = [y EXCEPT !.prop = p, !.queue = Append(y.queue, n)]
  BY Zenon DEF HandleSelectionRequest
<1>4. p = IF n.ok THEN y.cache ELSE y.prop
  BY Zenon, <1>2
<1> HIDE DEF n, p
<1>5. /\ z.asks = y.asks /\ z.owner = y.owner /\ z.theirs = y.theirs /\ z.cache = y.cache
      /\ z.since = y.since /\ z.queue = Append(y.queue, n) /\ z.prop = p
  BY Zenon, <1>3 DEF SelectionState
<1> HIDE DEF ok
<1> QED  BY Zenon, <1>2, <1>4, <1>5 DEF ok

\* An answer of the other client takes the place of what it owed.
LEMMA AnswerFields ==
  ASSUME NEW y \in SelectionState, NEW ok \in BOOLEAN, y.asks # <<>>, NEW z, z = Answer(y, ok)
  PROVE  /\ z.asks = Tail(y.asks) /\ z.owner = y.owner
         /\ z.theirs = y.theirs /\ z.cache = y.cache /\ z.since = y.since
         /\ \E n \in Event : /\ n.type = "Notify" /\ n.ok = ok
                             /\ z.queue = Append(y.queue, n)
                             /\ z.prop = (IF ok THEN y.theirs ELSE y.prop)
<1> DEFINE n == [type |-> "Notify", ok |-> ok, time |-> Head(y.asks)]
           p == IF ok THEN y.theirs ELSE y.prop
<1>1. y.asks \in Seq(Nat) /\ y.queue \in Seq(Event)
  BY Zenon, Fields
<1>2. /\ Head(y.asks) \in Nat /\ Len(Tail(y.asks)) = Len(y.asks) - 1 /\ Len(y.asks) \in Nat
  BY <1>1
<1>3. n \in Event /\ n \in Pending /\ n.type = "Notify" /\ n.ok = ok
  BY Zenon, <1>2, PendingEvents
<1>4. z = [y EXCEPT !.asks = Tail(y.asks), !.prop = p, !.queue = Append(y.queue, n)]
  BY Zenon DEF Answer
<1> HIDE DEF n
<1>5. /\ z.asks = Tail(y.asks) /\ z.owner = y.owner /\ z.theirs = y.theirs
      /\ z.cache = y.cache /\ z.since = y.since /\ z.queue = Append(y.queue, n) /\ z.prop = p
  BY Zenon, <1>4 DEF SelectionState
<1> QED  BY Zenon, <1>3, <1>5

-----------------------------------------------------------------------------
(***************************************************************************)
(* Waits.                                                                  *)
(***************************************************************************)
LEMMA WaitFields ==
  ASSUME NEW w \in Seq(Wait), NEW i \in DOMAIN w
  PROVE  /\ w[i] \in Wait /\ w[i].kind \in {"switch", "forward"} /\ w[i].clean \in BOOLEAN
         /\ w[i].seen \subseteq AllTexts
<1>1. w[i] \in Wait
  OBVIOUS
<1> QED  BY Zenon, <1>1 DEF Wait

\* Noted adds a text to what each wait has seen.
LEMMA NotedFields ==
  ASSUME waits \in Seq(Wait), NEW y \in SelectionState
  PROVE  /\ Noted(y) \in Seq(Wait) /\ Len(Noted(y)) = Len(waits)
         /\ \A i \in DOMAIN waits : /\ Noted(y)[i].clean = waits[i].clean
                                    /\ Noted(y)[i].kind = waits[i].kind
                                    /\ Noted(y)[i].seen = waits[i].seen \cup {PrimaryText(y)}
<1> DEFINE p == PrimaryText(y)
           v(i) == [waits[i] EXCEPT !.seen = waits[i].seen \cup {p}]
           n == Len(waits)
<1>1. p \in AllTexts
  BY Zenon, PrimaryType
<1>2. n \in Nat /\ DOMAIN waits = 1..n
  OBVIOUS
<1>3. Noted(y) = [i \in 1..n |-> v(i)]
  BY Zenon, <1>2 DEF Noted
<1> HIDE DEF p
<1>4. ASSUME NEW i \in 1..n
      PROVE  /\ v(i) \in Wait /\ v(i).clean = waits[i].clean /\ v(i).kind = waits[i].kind
             /\ v(i).seen = waits[i].seen \cup {p}
  <2>1. waits[i] \in Wait /\ waits[i].seen \cup {p} \in SUBSET AllTexts
    BY Zenon, <1>1, <1>2, WaitFields
  <2> QED  BY Zenon, <2>1 DEF Wait
<1> HIDE DEF v, n
<1>5. Noted(y) \in Seq(Wait) /\ Len(Noted(y)) = n
  BY <1>2, <1>3, <1>4
<1>6. \A i \in 1..n : Noted(y)[i] = v(i)
  BY Zenon, <1>3
<1> QED  BY Zenon, <1>2, <1>4, <1>5, <1>6 DEF p, n

LEMMA TailOne == \A S : \A q \in Seq(S) : Len(q) = 1 => Tail(q) = <<>>
<1>1. \A S : \A q \in Seq(S) : Len(q) = 0 => q = <<>>
  OBVIOUS
<1>2. \A S : \A q \in Seq(S) : Len(q) = 1 => Tail(q) \in Seq(S) /\ Len(Tail(q)) = 0
  OBVIOUS
<1> QED  BY Zenon, <1>1, <1>2

\* get_clipboard_text and its return: waits begin and end, the innermost first.
LEMMA WaitStep == ASSUME IInv, IInv', WaitInv, Next PROVE WaitInv'
<1>0. x' \in SelectionState /\ waits \in Seq(Wait) /\ (due => waits # <<>>)
  BY Zenon DEF IInv, Good, Timely, WaitInv
<1>1. ASSUME waits' = Noted(x')
      PROVE  waits' \in Seq(Wait) /\ (waits # <<>> => waits' # <<>>)
  <2>1. waits' \in Seq(Wait) /\ Len(waits') = Len(waits)
    BY Zenon, <1>0, <1>1, NotedFields
  <2> QED  BY <1>0, <2>1
<1>2. ASSUME NEW y \in SelectionState, NEW kind \in {"switch", "forward"}, GetClipboardText(y, kind)
      PROVE  waits' \in Seq(Wait)
  <2> DEFINE first == [kind |-> kind, expired |-> FALSE, seen |-> {PrimaryText(y)},
                       clean |-> Alone(y)]
             v(i) == [waits[i] EXCEPT !.clean = FALSE]
             rest == [i \in DOMAIN waits |-> v(i)]
  <2>1. waits' = waits \/ waits' = <<first>> \o rest
    BY Zenon, <1>2 DEF GetClipboardText
  <2>2. first \in Wait
    <3>1. {PrimaryText(y)} \in SUBSET AllTexts /\ Alone(y) \in BOOLEAN
      BY Zenon, <1>2, PrimaryType DEF Alone
    <3> QED  BY Zenon, <1>2, <3>1 DEF Wait
  <2>3. \A i \in DOMAIN waits : v(i) \in Wait
    <3>1. \A i \in DOMAIN waits : waits[i] \in Wait
      BY <1>0
    <3> QED  BY Zenon, <3>1 DEF Wait
  <2> HIDE DEF first, v
  <2>4. rest \in Seq(Wait)
    BY <1>0, <2>3
  <2> HIDE DEF rest
  <2>5. <<first>> \o rest \in Seq(Wait)
    BY <2>2, <2>4
  <2> QED  BY Zenon, <1>0, <2>1, <2>5
<1>3. ASSUME NEW y, NEW text, NEW early, Return(y, text, early), waits # <<>>
      PROVE  waits' \in Seq(Wait)
  BY <1>0, <1>3 DEF Return
<1>4. ASSUME NEW a \in Atoms, NEW t \in Texts, TheirCopy(a, t)
      PROVE  WaitInv'
  BY Zenon, <1>0, <1>1, <1>4 DEF TheirCopy, WaitInv
<1>5. CASE TimeOut
  <2>1. PICK i \in DOMAIN waits : waits' = [waits EXCEPT ![i].expired = TRUE]
    BY Zenon, <1>5 DEF TimeOut
  <2> DEFINE w == [waits[i] EXCEPT !.expired = TRUE]
  <2>2. waits[i] \in Wait
    BY Zenon, <1>0, WaitFields
  <2>3. w \in Wait /\ waits' = [waits EXCEPT ![i] = w]
    BY Zenon, <2>1, <2>2 DEF Wait
  <2> HIDE DEF w
  <2>4. waits' \in Seq(Wait) /\ waits' # <<>>
    BY <1>0, <2>3
  <2> QED  BY Zenon, <2>4 DEF WaitInv
<1>6. CASE \/ \E ok \in BOOLEAN : TheirAnswer(ok)
           \/ \E a \in Atoms, time \in 0..x.clock : TheirPaste(a, time)
           \/ \E action \in {"remote", "master", "clear"} : PressHotkey(action)
           \/ \E t \in Texts : RemoteCopy(t)
           \/ RemoteReceive
  <2>1. due' = due /\ waits' = waits
    BY Zenon, <1>6 DEF TheirAnswer, TheirPaste, PressHotkey, RemoteCopy, RemoteReceive
  <2> QED  BY Zenon, <1>0, <2>1 DEF WaitInv
<1>7. ASSUME TestTime, waits' \in Seq(Wait) PROVE WaitInv'
  BY Zenon, <1>7 DEF TestTime, WaitInv
<1>8. ASSUME NEW lost \in Atoms \cup {"none"}, NEW t \in Texts, Dispatch(lost, t)
      PROVE  WaitInv'
  <2> DEFINE ev == Head(x.queue)
             y == GetXevent(x)
  <2>1. x.queue # <<>> /\ HandleEvent(y, ev, lost, t) /\ TestTime
    BY Zenon, <1>8 DEF Dispatch
  <2>2. x \in SelectionState
    BY Zenon DEF IInv, Good, Timely
  <2>3. y \in SelectionState
    BY Zenon, <2>1, <2>2, NextFields
  <2> HIDE DEF ev, y
  <2>4. ActionCb(y, ev.action, lost, t) \/ \E z : Only(z)
    BY Zenon, <2>1 DEF HandleEvent
  <2>5. \/ ClearClipboards(y, lost, t) \/ FocusMaster(y)
        \/ GetClipboardText(y, "switch") \/ \E z : Only(z)
    BY Zenon, <2>4 DEF ActionCb
  <2>6. waits' = Noted(x') \/ waits' = waits \/ GetClipboardText(y, "switch")
    BY Zenon, <2>5 DEF ClearClipboards, FocusMaster, Only
  <2>7. "switch" \in {"switch", "forward"}
    BY Zenon
  <2> QED  BY Zenon, <1>0, <1>1, <1>2, <1>7, <2>1, <2>3, <2>6, <2>7
<1>9. ASSUME NEW lost \in Atoms \cup {"none"}, NEW t \in Texts, ReceiveSet(lost, t)
      PROVE  WaitInv'
  <2> DEFINE text == Head(toMaster).text
             y == SetClipboardText(x, text, lost, t)
  <2>1. /\ toMaster # <<>> /\ TestTime
        /\ GetClipboardText(y, "forward") \/ Only(y)
    BY Zenon, <1>9 DEF ReceiveSet
  <2>2. text \in AllTexts
    <3>1. toMaster \in Seq([type : {"SET"}, text : AllTexts])
      BY Zenon DEF IInv
    <3>2. Head(toMaster) \in [type : {"SET"}, text : AllTexts]
      BY Zenon, <2>1, <3>1, QueueType
    <3> QED  BY Zenon, <3>2
  <2>3. x \in SelectionState /\ t \in AllTexts
    BY Zenon DEF IInv, Good, Timely, AllTexts
  <2> HIDE DEF text
  <2>4. y = SetClipboardText(x, text, lost, t)
    BY Zenon
  <2> HIDE DEF y
  <2>5. y \in SelectionState
    BY Zenon, <2>2, <2>3, <2>4, SetFields DEF Reset
  <2>6. "forward" \in {"switch", "forward"}
    BY Zenon
  <2> QED  BY Zenon, <1>0, <1>2, <1>7, <2>1, <2>5, <2>6 DEF Only
<1>10. ASSUME NEW early \in BOOLEAN, Notified(early) \/ GiveUp(early)
       PROVE  WaitInv'
  <2>1. waits # <<>> /\ TestTime /\ \E y, text : Return(y, text, early)
    BY Zenon, <1>0, <1>10 DEF Notified, GiveUp
  <2> QED  BY Zenon, <1>3, <1>7, <2>1
<1> QED  BY Zenon, <1>4, <1>5, <1>6, <1>8, <1>9, <1>10 DEF Next

-----------------------------------------------------------------------------
(***************************************************************************)
(* CalmInv is kept by every step.                                          *)
(***************************************************************************)
LEMMA NodeStep == ASSUME NodeInv, Next PROVE NodeInv'
<1>1. newest' \in AllTexts
  <2>1. newest' = newest \/ newest' \in Texts \/ newest' = ""
    BY Zenon DEF Next, TheirCopy, TheirAnswer, TheirPaste, PressHotkey, RemoteCopy, TimeOut,
                 Dispatch, ReceiveSet, Notified, GiveUp, RemoteReceive, history
  <2> QED  BY Zenon, <2>1 DEF AllTexts, NodeInv
<1>2. focused' \in {"master", "remote"}
  <2>1. ASSUME NEW kind, NEW text, NEW early, Use(kind, text, early)
        PROVE  focused' \in {focused, "remote"}
    BY Zenon, <2>1 DEF Use
  <2>2. ASSUME NEW y, NEW kind, GetClipboardText(y, kind)
        PROVE  focused' \in {focused, "remote"}
    BY Zenon, <2>1, <2>2 DEF GetClipboardText
  <2>3. ASSUME NEW y, NEW text, NEW early, Return(y, text, early)
        PROVE  focused' \in {focused, "remote"}
    BY Zenon, <2>1, <2>3 DEF Return
  <2>4. ASSUME NEW y, Only(y) \/ FocusMaster(y) PROVE focused' \in {focused, "master"}
    BY Zenon, <2>4 DEF Only, FocusMaster
  <2>5. ASSUME NEW lost, NEW t, Dispatch(lost, t)
        PROVE  focused' \in {focused, "master", "remote"}
    <3> DEFINE ev == Head(x.queue)
               y == GetXevent(x)
    <3>1. HandleEvent(y, ev, lost, t)
      BY Zenon, <2>5 DEF Dispatch
    <3> HIDE DEF ev, y
    <3>2. ActionCb(y, ev.action, lost, t) \/ \E z : Only(z)
      BY Zenon, <3>1 DEF HandleEvent
    <3>3. \/ ClearClipboards(y, lost, t) \/ FocusMaster(y)
          \/ GetClipboardText(y, "switch") \/ \E z : Only(z)
      BY Zenon, <3>2 DEF ActionCb
    <3>4. ClearClipboards(y, lost, t) => focused' = focused
      BY Zenon DEF ClearClipboards
    <3> QED  BY Zenon, <2>2, <2>4, <3>3, <3>4
  <2>6. ASSUME NEW lost, NEW t, ReceiveSet(lost, t)
        PROVE  focused' \in {focused, "remote", "master"}
    <3>1. \E y : GetClipboardText(y, "forward") \/ Only(y)
      BY Zenon, <2>6 DEF ReceiveSet
    <3> QED  BY Zenon, <2>2, <2>4, <3>1
  <2>7. ASSUME NEW early, Notified(early) \/ GiveUp(early)
        PROVE  focused' \in {focused, "remote"}
    <3>1. \E y, text : Return(y, text, early)
      BY Zenon, <2>7 DEF Notified, GiveUp
    <3> QED  BY Zenon, <2>3, <3>1
  <2>8. \/ focused' = focused
        \/ \E lost, t : Dispatch(lost, t) \/ ReceiveSet(lost, t)
        \/ \E early : Notified(early) \/ GiveUp(early)
    BY Zenon DEF Next, TheirCopy, TheirAnswer, TheirPaste, PressHotkey, RemoteCopy, TimeOut,
                 RemoteReceive
  <2> QED  BY Zenon, <2>5, <2>6, <2>7, <2>8 DEF NodeInv
<1> QED  BY Zenon, <1>1, <1>2 DEF NodeInv

\* The text of PRIMARY is that of the owner, the other client's and the cache.
LEMMA PrimarySame ==
  ASSUME NEW y, NEW z, z.owner = y.owner, z.theirs = y.theirs, z.cache = y.cache
  PROVE  PrimaryText(z) = PrimaryText(y)
BY Zenon DEF PrimaryText

\* Requests of other clients come and go, and time passes, at every stage.
LEMMA StageKept ==
  ASSUME Stage,
         x'.owner = x.owner, x'.theirs = x.theirs, x'.prop = x.prop, x'.asks = x.asks,
         x'.cache = x.cache, x'.since = x.since, Keeps(x.queue, x'.queue, Busy),
         waits = <<>> => waits' = <<>>,
         Len(waits) = 1 /\ waits[1].kind = "switch" =>
           Len(waits') = 1 /\ waits'[1].kind = "switch",
         UNCHANGED <<focused, toRemote, toMaster, rtext, newest, holders>>
  PROVE  Stage'
<1>0. PrimaryText(x') = PrimaryText(x)
  BY Zenon, PrimarySame
<1>u. /\ focused' = focused /\ toRemote' = toRemote /\ toMaster' = toMaster
      /\ rtext' = rtext /\ newest' = newest /\ holders' = holders
  BY Zenon
<1>m. (MasterHas => MasterHas') /\ (RemoteHas => RemoteHas')
  BY Zenon, <1>0, <1>u DEF MasterHas, RemoteHas
<1>s. Still => Still'
  BY Zenon, <1>u DEF Still
<1>n. None(x.queue, Busy) => None(x'.queue, Busy)
  BY Zenon DEF Keeps
<1>l. \A e : Lone(x.queue, e, Busy) => Lone(x'.queue, e, Busy)
  BY Zenon DEF Keeps
<1>1. CASE Resting
  <2>1. Resting'
    BY Zenon, <1>1, <1>u, <1>m, <1>s, <1>n DEF Resting
  <2> QED  BY Zenon, <2>1 DEF Stage
<1>2. CASE Pressed
  <2>1. PICK e \in Busy :
               /\ Lone(x.queue, e, Busy)
               /\ e.type = "Key" \/ (e.type = "Clear" /\ x.owner["PRIMARY"] = "them")
    BY Zenon, <1>2 DEF Pressed
  <2>2. Pressed'
    BY Zenon, <1>2, <1>u, <1>m, <1>s, <1>l, <2>1 DEF Pressed
  <2> QED  BY Zenon, <2>2 DEF Stage
<1>3. CASE Sent
  <2>1. Sent'
    BY Zenon, <1>3, <1>u, <1>m, <1>s, <1>n DEF Sent
  <2> QED  BY Zenon, <2>1 DEF Stage
<1>4. CASE Asked
  <2>1. Asked'
    BY Zenon, <1>4, <1>u, <1>s, <1>n DEF Asked
  <2> QED  BY Zenon, <2>1 DEF Stage
<1>5. CASE Fetched
  <2>1. Fetched'
    BY Zenon, <1>5, <1>u, <1>n DEF Fetched
  <2> QED  BY Zenon, <2>1 DEF Stage
<1>6. CASE Waiting
  <2>1. Awaited(x', newest)
    <3>1. CASE Len(x.asks) = 1 /\ None(x.queue, Busy) /\ x.owner["PRIMARY"] = "them"
      BY Zenon, <1>n, <3>1 DEF Awaited
    <3>2. CASE x.asks = <<>> /\ \E e \in Busy :
               /\ Lone(x.queue, e, Busy)
               /\ \/ e.type = "Notify" /\ AnswerText(x, e) = newest
                  \/ /\ e.type = "Request" /\ x.owner["PRIMARY"] = "us"
                     /\ x.since = 0 \/ x.cache = NULL
      <4>1. PICK e \in Busy :
               /\ Lone(x.queue, e, Busy)
               /\ \/ e.type = "Notify" /\ AnswerText(x, e) = newest
                  \/ /\ e.type = "Request" /\ x.owner["PRIMARY"] = "us"
                     /\ x.since = 0 \/ x.cache = NULL
        BY Zenon, <3>2
      <4>2. AnswerText(x', e) = AnswerText(x, e)
        BY Zenon DEF AnswerText
      <4>3. x'.asks = <<>> /\ Lone(x'.queue, e, Busy)
        BY Zenon, <1>l, <3>2, <4>1
      <4> QED  BY Zenon, <4>1, <4>2, <4>3 DEF Awaited
    <3> QED  BY Zenon, <1>6, <3>1, <3>2 DEF Waiting, Awaited
  <2>2. Waiting'
    BY Zenon, <1>0, <1>6, <1>u, <2>1 DEF Waiting
  <2> QED  BY Zenon, <2>2 DEF Stage
<1> QED  BY Zenon, <1>1, <1>2, <1>3, <1>4, <1>5, <1>6 DEF Stage

\* At rest, no event of the queue is more than a request of another client.
LEMMA RestNone == IInv /\ AtRest => None(x.queue, Busy)
<1> SUFFICES ASSUME IInv, AtRest PROVE None(x.queue, Busy)
  BY Zenon
<1>1. x.queue \in Seq(Event)
  BY Zenon, Fields DEF IInv, Good, Timely
<1>2. \A i \in DOMAIN x.queue : x.queue[i].type = "Request" /\ x.queue[i].from = "them"
  BY Zenon DEF AtRest
<1> QED  BY Zenon, <1>2 DEF None, Busy

\* A stage at rest is that in which all is transferred.
LEMMA RestStage == ASSUME IInv, Stage, AtRest PROVE Resting
<1>1. None(x.queue, Busy) /\ waits = <<>> /\ x.asks = <<>> /\ toRemote = <<>> /\ toMaster = <<>>
  BY Zenon, RestNone DEF AtRest
<1>2. ~Pressed
  BY Zenon, <1>1, LoneSome DEF Pressed
<1>3. \A m : <<m>> # <<>>
  BY Zenon
<1>4. ~Sent /\ ~Asked /\ ~Fetched
  BY Zenon, <1>1, <1>3 DEF Sent, Asked, Fetched
<1>5. ~Waiting
  <2>1. Len(<<>>) # 1
    OBVIOUS
  <2> QED  BY Zenon, <1>1, <2>1 DEF Waiting
<1> QED  BY Zenon, <1>2, <1>4, <1>5 DEF Stage

LEMMA EmptySeq == \A S : \A q \in Seq(S) : Len(q) = 0 => q = <<>>
OBVIOUS

\* An event that changes more than a time stands in a queue that had none.
LEMMA JoinBusy ==
  ASSUME NEW q \in Seq(Event), None(q, Busy), NEW e \in Event, e.type \in {"Clear", "Key", "Notify"}
  PROVE  e \in Busy /\ Lone(Append(q, e), e, Busy)
<1>1. e \in Busy
  BY Zenon DEF Busy
<1> QED  BY Zenon, <1>1, AppendKeeps

\* The other client copies at rest.
LEMMA CopyCalm ==
  ASSUME IInv, WaitInv, NEW a \in Atoms, NEW t \in Texts, TheirCopy(a, t), calm'
  PROVE  (focused \in holders /\ Stage)'
<1>0. x \in SelectionState /\ x.queue \in Seq(Event) /\ waits \in Seq(Wait)
  BY Zenon, Fields DEF IInv, Good, Timely, WaitInv
<1>1. /\ a = "PRIMARY" /\ AtRest /\ focused = "master" /\ newest' = t /\ holders' = {"master"}
      /\ x' = Take(x, a, t) /\ waits' = Noted(x') /\ t \in AllTexts
      /\ focused' = focused /\ toRemote' = toRemote /\ toMaster' = toMaster
  BY Zenon DEF TheirCopy, AllTexts
<1>2. None(x.queue, Busy) /\ waits = <<>> /\ x.asks = <<>> /\ toRemote = <<>> /\ toMaster = <<>>
  BY Zenon, <1>1, RestNone DEF AtRest
<1>3. /\ x'.owner["PRIMARY"] = "them" /\ x'.theirs = t /\ x'.asks = x.asks
      /\ x' \in SelectionState
      /\ \E ev \in Event : ev.type = "Clear" /\ x'.queue \in {x.queue, Append(x.queue, ev)}
  BY SMTT(30), <1>0, <1>1, TakeFields
<1>4. waits' = <<>>
  <2>1. waits' \in Seq(Wait) /\ Len(waits') = Len(waits)
    BY Zenon, <1>0, <1>1, <1>3, NotedFields
  <2>2. Len(waits) = 0
    BY Zenon, <1>2
  <2> QED  BY Zenon, <2>1, <2>2, EmptySeq
<1>5. /\ (focused \in holders)' /\ MasterHas' /\ RemoteHas'
  <2>1. PrimaryText(x') = newest'
    BY Zenon, <1>1, <1>3 DEF PrimaryText
  <2>2. (focused \in holders)' /\ "remote" \notin holders'
    BY Zenon, <1>1
  <2> QED  BY Zenon, <2>1, <2>2 DEF MasterHas, RemoteHas
<1>6. Still' /\ toRemote' = <<>>
  BY Zenon, <1>1, <1>2, <1>3, <1>4 DEF Still
<1>7. CASE x'.queue = x.queue
  <2>1. Resting'
    BY Zenon, <1>2, <1>5, <1>6, <1>7 DEF Resting
  <2> QED  BY Zenon, <1>5, <2>1 DEF Stage
<1>8. ASSUME NEW ev \in Event, ev.type = "Clear", x'.queue = Append(x.queue, ev)
      PROVE  (focused \in holders /\ Stage)'
  <2>1. ev.type \in {"Clear", "Key", "Notify"}
    BY Zenon, <1>8
  <2>2. ev \in Busy /\ Lone(x'.queue, ev, Busy)
    BY Zenon, <1>0, <1>2, <1>8, <2>1, JoinBusy
  <2>3. Pressed'
    BY Zenon, <1>3, <1>5, <1>6, <1>8, <2>2 DEF Pressed
  <2> QED  BY Zenon, <1>5, <2>3 DEF Stage
<1> QED  BY Zenon, <1>3, <1>7, <1>8

\* The other client answers: it is the switch that waits.
LEMMA AnswerCalm ==
  ASSUME IInv, WaitInv, CalmInv, NEW ok \in BOOLEAN, TheirAnswer(ok), calm'
  PROVE  (focused \in holders /\ Stage)'
<1>0. x \in SelectionState /\ x.queue \in Seq(Event) /\ x.asks \in Seq(Nat)
  BY Zenon, Fields DEF IInv, Good, Timely
<1>a. x.asks # <<>> /\ x' = Answer(x, ok)
  BY Zenon DEF TheirAnswer
<1>1. /\ x.asks # <<>> /\ ok = TRUE /\ focused \in holders /\ Stage
      /\ waits' = waits /\ focused' = focused /\ toRemote' = toRemote /\ toMaster' = toMaster
      /\ newest' = newest /\ holders' = holders
  BY Zenon DEF TheirAnswer, CalmInv
<1>2. Waiting
  BY Zenon, <1>1 DEF Stage, Resting, Pressed, Sent, Asked, Fetched, Still
<1>3. /\ Len(x.asks) = 1 /\ None(x.queue, Busy) /\ x.owner["PRIMARY"] = "them"
      /\ PrimaryText(x) = newest
  BY Zenon, <1>1, <1>2 DEF Waiting, Awaited
<1>4. /\ x'.asks = Tail(x.asks) /\ x'.owner = x.owner /\ x'.theirs = x.theirs
      /\ x'.cache = x.cache
      /\ \E n \in Event : /\ n.type = "Notify" /\ n.ok = ok
                          /\ x'.queue = Append(x.queue, n)
                          /\ x'.prop = (IF ok THEN x.theirs ELSE x.prop)
  BY <1>0, <1>a, AnswerFields
<1>5. PICK n \in Event : n.type = "Notify" /\ n.ok /\ x'.queue = Append(x.queue, n)
                         /\ x'.prop = x.theirs
  BY Zenon, <1>1, <1>4
<1>6. n \in Busy /\ Lone(x'.queue, n, Busy)
  <2>1. n.type \in {"Clear", "Key", "Notify"}
    BY Zenon, <1>5
  <2> QED  BY Zenon, <1>0, <1>3, <1>5, <2>1, JoinBusy
<1>7. AnswerText(x', n) = newest
  <2>1. x.theirs = newest
    BY Zenon, <1>3 DEF PrimaryText
  <2> QED  BY Zenon, <1>5, <2>1 DEF AnswerText
<1>8. Awaited(x', newest)
  <2>1. x'.asks = <<>>
    BY Zenon, <1>0, <1>3, <1>4, TailOne
  <2> QED  BY Zenon, <1>5, <1>6, <1>7, <2>1 DEF Awaited
<1>9. PrimaryText(x') = newest
  BY Zenon, <1>3, <1>4, PrimarySame
<1>10. Waiting'
  BY Zenon, <1>1, <1>2, <1>8, <1>9 DEF Waiting
<1> QED  BY Zenon, <1>1, <1>10 DEF Stage

\* A request of the other client, and the passing of time.
LEMMA QuietCalm ==
  ASSUME IInv, WaitInv, CalmInv, calm',
         TimeOut \/ \E a \in Atoms, time \in 0..x.clock : TheirPaste(a, time)
  PROVE  (focused \in holders /\ Stage)'
<1>0. /\ x \in SelectionState /\ x.queue \in Seq(Event) /\ x.clock \in Nat
      /\ waits \in Seq(Wait)
  BY Zenon, Fields DEF IInv, Good, Timely, WaitInv
<1>1. /\ UNCHANGED <<focused, toRemote, toMaster, rtext, newest, holders>>
      /\ calm' = calm
  BY Zenon DEF TimeOut, TheirPaste, history
<1>2. focused \in holders /\ Stage
  BY Zenon, <1>1 DEF CalmInv
<1>3. CASE TimeOut
  <2>1. PICK i \in DOMAIN waits : waits' = [waits EXCEPT ![i].expired = TRUE]
    BY Zenon, <1>3 DEF TimeOut
  <2>2. x' = x
    BY Zenon, <1>3 DEF TimeOut
  <2> DEFINE w == [waits[i] EXCEPT !.expired = TRUE]
  <2>3. waits[i] \in Wait
    BY Zenon, <1>0, WaitFields
  <2>4. w \in Wait /\ w.kind = waits[i].kind
    BY Zenon, <2>3 DEF Wait
  <2>5. waits' = [waits EXCEPT ![i] = w]
    BY Zenon, <2>1
  <2> HIDE DEF w
  <2>6. /\ waits # <<>>
        /\ Len(waits) = 1 /\ waits[1].kind = "switch" =>
             Len(waits') = 1 /\ waits'[1].kind = "switch"
    BY <1>0, <2>4, <2>5
  <2>7. Keeps(x.queue, x'.queue, Busy)
    BY Zenon, <2>2, KeepsTrans
  <2>8. Stage'
    BY Zenon, <1>1, <1>2, <2>2, <2>6, <2>7, StageKept
  <2> QED  BY Zenon, <1>1, <1>2, <2>8
<1>4. ASSUME NEW a \in Atoms, NEW time \in 0..x.clock, TheirPaste(a, time)
      PROVE  (focused \in holders /\ Stage)'
  <2> DEFINE ev == [type |-> "Request", from |-> "them", atom |-> a, time |-> time]
  <2>1. x' = [x EXCEPT !.queue = Append(x.queue, ev)] /\ waits' = waits
    BY Zenon, <1>4 DEF TheirPaste, Paste
  <2>2. time \in Nat
    BY <1>0
  <2>3. ev \in Event /\ ev \notin Busy
    BY Zenon, <2>2, OtherEvents
  <2> HIDE DEF ev
  <2>4. /\ x'.queue = Append(x.queue, ev) /\ x'.asks = x.asks /\ x'.prop = x.prop
        /\ x'.theirs = x.theirs /\ x'.cache = x.cache /\ x'.owner = x.owner
        /\ x'.since = x.since
    BY Zenon, <1>0, <2>1 DEF SelectionState
  <2>5. Keeps(x.queue, x'.queue, Busy)
    BY Zenon, <1>0, <2>3, <2>4, AppendKeeps
  <2>6. Stage'
    BY Zenon, <1>1, <1>2, <2>1, <2>4, <2>5, StageKept
  <2> QED  BY Zenon, <1>1, <1>2, <2>6
<1> QED  BY Zenon, <1>3, <1>4

\* A hotkey at rest.
LEMMA PressCalm ==
  ASSUME IInv, CalmInv, calm', NEW action \in {"remote", "master", "clear"}, PressHotkey(action)
  PROVE  (focused \in holders /\ Stage)'
<1>0. x \in SelectionState /\ x.queue \in Seq(Event) /\ x.clock \in Nat
  BY Zenon, Fields DEF IInv, Good, Timely
<1> DEFINE c == x.clock + 1
           ev == [type |-> "Key", action |-> action, time |-> c]
<1>1. /\ x' = [x EXCEPT !.clock = c, !.queue = Append(x.queue, ev)] /\ calm /\ AtRest
      /\ waits' = waits /\ focused' = focused /\ toRemote' = toRemote /\ toMaster' = toMaster
      /\ newest' = newest /\ holders' = holders /\ rtext' = rtext
  BY Zenon DEF PressHotkey
<1>2. Resting /\ focused \in holders
  BY Zenon, <1>1, RestStage DEF CalmInv
<1>3. c \in Nat
  BY <1>0
<1> HIDE DEF c
<1>4. ev \in Event /\ ev \in Busy /\ ev.type = "Key"
  BY Zenon, <1>3, OtherEvents
<1> HIDE DEF ev
<1>5. /\ x'.queue = Append(x.queue, ev) /\ x'.asks = x.asks
      /\ x'.theirs = x.theirs /\ x'.cache = x.cache /\ x'.owner = x.owner
  BY Zenon, <1>0, <1>1 DEF SelectionState
<1>6. Lone(x'.queue, ev, Busy)
  BY Zenon, <1>0, <1>2, <1>4, <1>5, AppendKeeps DEF Resting
<1>7. PrimaryText(x') = PrimaryText(x)
  BY Zenon, <1>5, PrimarySame
<1>8. MasterHas' /\ RemoteHas' /\ Still'
  BY Zenon, <1>1, <1>2, <1>5, <1>7 DEF Resting, MasterHas, RemoteHas, Still
<1>9. Pressed'
  BY Zenon, <1>1, <1>2, <1>4, <1>6, <1>8 DEF Pressed, Resting
<1> QED  BY Zenon, <1>1, <1>2, <1>9 DEF Stage

\* A copy on the remote, at rest.
LEMMA RemoteCopyCalm ==
  ASSUME IInv, calm', NEW t \in Texts, RemoteCopy(t)
  PROVE  (focused \in holders /\ Stage)'
<1>0. x \in SelectionState
  BY Zenon DEF IInv, Good, Timely
<1>1. /\ x' = [x EXCEPT !.clock = x.clock + 1] /\ AtRest /\ focused = "remote"
      /\ waits' = waits /\ focused' = focused /\ toRemote' = toRemote /\ toMaster' = toMaster
      /\ newest' = t /\ holders' = {"remote"} /\ rtext' = t
  BY Zenon DEF RemoteCopy
<1>2. None(x.queue, Busy) /\ waits = <<>> /\ x.asks = <<>> /\ toRemote = <<>> /\ toMaster = <<>>
  BY Zenon, <1>1, RestNone DEF AtRest
<1>3. x'.queue = x.queue /\ x'.asks = x.asks
  BY Zenon, <1>0, <1>1 DEF SelectionState
<1>4. (focused \in holders)' /\ "master" \notin holders'
  BY <1>1
<1>5. MasterHas' /\ RemoteHas' /\ Still'
  BY Zenon, <1>1, <1>2, <1>3, <1>4 DEF MasterHas, RemoteHas, Still
<1>6. Resting'
  BY Zenon, <1>1, <1>2, <1>3, <1>5 DEF Resting
<1> QED  BY Zenon, <1>4, <1>6 DEF Stage

\* A message of one is not empty, and leaves nothing behind.
LEMMA OneMessage ==
  \A m : <<m>> # <<>> /\ Head(<<m>>) = m /\ Tail(<<m>>) = <<>> /\ Append(<<>>, m) = <<m>>
OBVIOUS

\* The remote handles a message: the text arrives, or is sent back.
LEMMA RemoteReceiveCalm ==
  ASSUME CalmInv, calm', RemoteReceive
  PROVE  (focused \in holders /\ Stage)'
<1>1. /\ toRemote # <<>> /\ toRemote' = Tail(toRemote) /\ calm' = calm /\ x' = x
      /\ waits' = waits /\ focused' = focused /\ newest' = newest /\ holders' = holders
      /\ IF Head(toRemote).type = "GET"
         THEN toMaster' = Append(toMaster, [type |-> "SET", text |-> rtext]) /\ rtext' = rtext
         ELSE rtext' = Head(toRemote).text /\ toMaster' = toMaster
  BY Zenon DEF RemoteReceive, history
<1>2. focused \in holders /\ Stage
  BY Zenon, <1>1 DEF CalmInv
<1>3. Sent \/ Asked
  BY Zenon, <1>1, <1>2 DEF Stage, Resting, Pressed, Fetched, Waiting
<1>4. CASE Sent
  <2> DEFINE m == [type |-> "SET", text |-> newest]
  <2>1. m.type # "GET" /\ m.text = newest
    BY Zenon
  <2>2. toRemote = <<m>>
    BY Zenon, <1>4 DEF Sent
  <2> HIDE DEF m
  <2>3. toRemote' = <<>> /\ rtext' = newest /\ toMaster' = toMaster
    BY Zenon, <1>1, <2>1, <2>2, OneMessage
  <2>4. RemoteHas' /\ MasterHas' /\ Still'
    BY Zenon, <1>1, <1>4, <2>3 DEF Sent, RemoteHas, MasterHas, Still
  <2>5. Resting'
    BY Zenon, <1>1, <1>4, <2>3, <2>4 DEF Sent, Resting
  <2> QED  BY Zenon, <1>1, <1>2, <2>5 DEF Stage
<1>5. CASE Asked
  <2> DEFINE m == [type |-> "GET"]
             r == [type |-> "SET", text |-> rtext]
  <2>1. m.type = "GET"
    BY Zenon
  <2>2. toRemote = <<m>> /\ toMaster = <<>>
    BY Zenon, <1>5 DEF Asked, Still
  <2>3. Head(toRemote) = m /\ Tail(toRemote) = <<>>
    BY Zenon, <2>2, OneMessage
  <2> HIDE DEF m
  <2>4. toRemote' = <<>> /\ rtext' = rtext /\ toMaster' = Append(<<>>, r)
    BY Zenon, <1>1, <2>1, <2>2, <2>3
  <2>5. toMaster' = <<[type |-> "SET", text |-> newest']>>
    BY Zenon, <1>1, <1>5, <2>4, OneMessage DEF Asked
  <2>6. Fetched'
    BY Zenon, <1>1, <1>5, <2>4, <2>5 DEF Asked, Fetched, Still
  <2> QED  BY Zenon, <1>1, <1>2, <2>6 DEF Stage
<1> QED  BY Zenon, <1>3, <1>4, <1>5

\* The master caches the text that the remote sent.
LEMMA ReceiveCalm ==
  ASSUME IInv, NodeInv, CalmInv, calm', NEW lost \in Atoms \cup {"none"}, NEW t \in Texts,
         ReceiveSet(lost, t)
  PROVE  (focused \in holders /\ Stage)'
<1>0. x \in SelectionState
  BY Zenon DEF IInv, Good, Timely
<1>1. /\ toMaster # <<>> /\ toMaster' = Tail(toMaster) /\ calm /\ lost = "none"
      /\ newest' = newest /\ holders' = holders /\ rtext' = rtext
  BY Zenon DEF ReceiveSet, NoteSet
<1>2. focused \in holders /\ Stage
  BY Zenon, <1>1 DEF CalmInv
<1>3. Fetched
  BY Zenon, <1>1, <1>2 DEF Stage, Resting, Pressed, Sent, Asked, Waiting, Still
<1> DEFINE m == [type |-> "SET", text |-> newest]
           y == SetClipboardText(x, newest, lost, t)
<1>4. m.text = newest
  BY Zenon
<1>5. toMaster = <<m>>
  BY Zenon, <1>3 DEF Fetched
<1> HIDE DEF m
<1>6. Head(toMaster).text = newest /\ toMaster' = <<>>
  BY Zenon, <1>1, <1>4, <1>5, OneMessage
<1>7. focused = "master" /\ focused # "remote"
  BY Zenon, <1>3 DEF Fetched
<1>8. Only(SetClipboardText(x, Head(toMaster).text, lost, t))
  BY Zenon, <1>7 DEF ReceiveSet
<1>9. /\ x' = y /\ waits' = waits /\ focused' = focused /\ toRemote' = toRemote
  BY Zenon, <1>6, <1>8 DEF Only
<1>10. newest \in AllTexts /\ t \in AllTexts
  BY Zenon DEF NodeInv, AllTexts
<1> HIDE DEF y
<1>11. y.asks = x.asks /\ y.cache = newest /\ y.queue = x.queue /\ y.owner["PRIMARY"] = "us"
  BY <1>0, <1>1, <1>10, SetFields DEF y, Reset
<1>12. PrimaryText(y) = newest
  BY Zenon, <1>10, <1>11, ClipboardAssumption DEF PrimaryText
<1>13. MasterHas' /\ RemoteHas' /\ Still'
  BY Zenon, <1>1, <1>3, <1>6, <1>9, <1>11, <1>12 DEF Fetched, MasterHas, RemoteHas, Still
<1>14. Resting'
  BY Zenon, <1>3, <1>9, <1>11, <1>13 DEF Fetched, Resting
<1> QED  BY Zenon, <1>1, <1>2, <1>9, <1>14 DEF Stage

\* get_clipboard_text has the answer that it waited for, and the text is sent.
LEMMA NotifiedCalm ==
  ASSUME IInv, WaitInv, NodeInv, CalmInv, calm', NEW early \in BOOLEAN, Notified(early)
  PROVE  (focused \in holders /\ Stage)'
<1> DEFINE ev == Head(x.queue)
           y == GetXevent(x)
           z == ReadProperty(y, ev)
           text == NotifiedText(y, ev)
<1>0. x \in SelectionState /\ x.queue \in Seq(Event) /\ waits \in Seq(Wait)
  BY Zenon, Fields DEF IInv, Good, Timely, WaitInv
<1>1. /\ x.queue # <<>> /\ ev.type = "Notify" /\ waits # <<>>
      /\ x' = z /\ waits' = Tail(waits) /\ Use(Head(waits).kind, text, early)
      /\ toMaster' = toMaster /\ newest' = newest /\ holders' = holders /\ calm' = calm
  BY Zenon DEF Notified, Return
<1>2. /\ y \in SelectionState /\ y.queue = Tail(x.queue) /\ y.asks = x.asks
      /\ y.prop = x.prop /\ ev \in Event /\ PrimaryText(y) = PrimaryText(x)
  BY Zenon, <1>0, <1>1, NextFields
<1> HIDE DEF ev, y
<1>3. focused \in holders /\ Stage
  BY Zenon, <1>1 DEF CalmInv
<1>4. Waiting
  BY Zenon, <1>1, <1>3 DEF Stage, Resting, Pressed, Sent, Asked, Fetched, Still
<1>5. ev \in Busy
  BY Zenon, <1>1, <1>2 DEF Busy
<1>6. ~None(x.queue, Busy)
  BY Zenon, <1>0, <1>1, <1>5, TailKeeps DEF ev
<1>7. PICK e \in Busy :
             /\ Lone(x.queue, e, Busy)
             /\ \/ e.type = "Notify" /\ AnswerText(x, e) = newest
                \/ e.type = "Request"
  BY Zenon, <1>4, <1>6 DEF Waiting, Awaited
<1>8. ev = e /\ None(y.queue, Busy)
  BY Zenon, <1>0, <1>1, <1>2, <1>5, <1>7, TailKeeps DEF ev
<1>9. AnswerText(x, ev) = newest
  <2>1. "Notify" # "Request"
    BY Zenon
  <2> QED  BY Zenon, <1>1, <1>7, <1>8, <2>1
<1>10. text = newest
  <2>1. newest # NULL
    BY Zenon, ClipboardAssumption DEF NodeInv
  <2> QED  BY Zenon, <1>2, <1>9, <2>1 DEF AnswerText, NotifiedText
<1>11. z.queue = y.queue /\ z.asks = y.asks /\ PrimaryText(z) = PrimaryText(y)
  <2>1. /\ z.queue = y.queue /\ z.asks = y.asks /\ z.owner = y.owner
        /\ z.theirs = y.theirs /\ z.cache = y.cache
    BY Zenon, <1>2 DEF ReadProperty, SelectionState
  <2> HIDE DEF z
  <2> QED  BY Zenon, <2>1, PrimarySame
<1> HIDE DEF z, text
<1>12. Len(waits) = 1 /\ Head(waits).kind = "switch"
  <2>1. Head(waits) = waits[1]
    BY <1>0, <1>1
  <2> QED  BY Zenon, <1>4, <2>1 DEF Waiting
<1>13. waits' = <<>>
  BY Zenon, <1>0, <1>1, <1>12, TailOne
<1>14. x'.asks = <<>>
  BY Zenon, <1>1, <1>2, <1>4, <1>6, <1>11 DEF Waiting, Awaited
<1>15. focused' = "remote" /\ toRemote' = Append(toRemote, [type |-> "SET", text |-> newest])
  BY Zenon, <1>1, <1>10, <1>12 DEF Use, SendSetclipboard
<1>16. toRemote' = <<[type |-> "SET", text |-> newest]>>
  BY Zenon, <1>4, <1>15, OneMessage DEF Waiting
<1>17. Still' /\ MasterHas'
  BY Zenon, <1>1, <1>2, <1>4, <1>11, <1>13, <1>14 DEF Waiting, Still, MasterHas
<1>18. Sent'
  BY Zenon, <1>1, <1>8, <1>11, <1>16, <1>17 DEF Sent
<1> QED  BY Zenon, <1>1, <1>4, <1>15, <1>18 DEF Waiting, Stage

LEMMA FirstWait ==
  ASSUME NEW w, w = <<>>, NEW first,
         NEW v, v = <<first>> \o [i \in DOMAIN w |-> [w[i] EXCEPT !.clean = FALSE]]
  PROVE  Len(v) = 1 /\ v[1] = first
<1> DEFINE rest == [i \in DOMAIN w |-> [w[i] EXCEPT !.clean = FALSE]]
<1>1. DOMAIN w = 1..0
  OBVIOUS
<1>2. rest \in Seq({}) /\ Len(rest) = 0
  BY <1>1
<1> HIDE DEF rest
<1>3. v = <<first>> \o rest
  BY Zenon DEF rest
<1> QED  BY <1>2, <1>3

\* A queue without events that change anything has no SelectionClear.
LEMMA NoClear ==
  ASSUME NEW y \in SelectionState, None(y.queue, Busy)
  PROVE  ~HasEvent(y, "Clear")
<1>1. y.queue \in Seq(Event)
  BY Zenon, Fields
<1>2. ASSUME NEW i \in DOMAIN y.queue, y.queue[i].type = "Clear"
      PROVE  y.queue[i] \in Busy
  <2>1. y.queue[i] \in Event
    BY <1>1
  <2> QED  BY Zenon, <1>2, <2>1 DEF Busy
<1> QED  BY Zenon, <1>2 DEF None, HasEvent

\* get_clipboard_text for a switch: the cached text is sent, or one that is the
\* text of PRIMARY is on its way.
LEMMA GetCalm ==
  ASSUME NodeInv, NEW y, NEW old, NEW set, Good(y, old, set), y.asks = <<>>,
         None(y.queue, Busy), PrimaryText(y) = newest, waits = <<>>, toRemote = <<>>,
         toMaster = <<>>, focused \in holders', "remote" \in holders',
         GetClipboardText(y, "switch"), toMaster' = toMaster, newest' = newest
  PROVE  (focused \in holders /\ Stage)'
<1>0. y \in SelectionState /\ y.queue \in Seq(Event) /\ y.lastev \in Nat
  BY Zenon, Fields DEF Good, Timely
<1>1. CASE UsesCache(y)
  <2>1. x' = y /\ waits' = waits /\ Use("switch", y.cache, TRUE)
    BY Zenon, <1>1 DEF GetClipboardText
  <2>2. y.cache # NULL /\ ~HasEvent(y, "Clear")
    BY Zenon, <1>0, <1>1, NoClear DEF UsesCache
  <2>3. y.owner["PRIMARY"] = "us"
    BY Zenon, <2>2 DEF Good, OwnsAll, Atoms
  <2>4. y.cache = newest
    BY Zenon, <2>2, <2>3 DEF PrimaryText
  <2>5. focused' = "remote" /\ toRemote' = Append(toRemote, [type |-> "SET", text |-> newest])
    BY Zenon, <2>1, <2>4 DEF Use, SendSetclipboard
  <2>6. toRemote' = <<[type |-> "SET", text |-> newest]>>
    BY Zenon, <2>5, OneMessage
  <2>7. Sent'
    BY Zenon, <2>1, <2>6 DEF Sent, Still, MasterHas
  <2> QED  BY Zenon, <2>5, <2>7 DEF Stage
<1>2. CASE ~UsesCache(y)
  <2> DEFINE first == [kind |-> "switch", expired |-> FALSE, seen |-> {PrimaryText(y)},
                       clean |-> Alone(y)]
  <2>1. /\ x' = ConvertSelection(y) /\ focused' = focused /\ toRemote' = toRemote
        /\ waits' = <<first>> \o [i \in DOMAIN waits |-> [waits[i] EXCEPT !.clean = FALSE]]
    BY Zenon, <1>2 DEF GetClipboardText
  <2>2. first.kind = "switch"
    BY Zenon
  <2> HIDE DEF first
  <2>3. Len(waits') = 1 /\ waits'[1] = first
    BY <2>1, FirstWait
  <2>4. /\ x'.owner = y.owner /\ x'.theirs = y.theirs /\ x'.cache = y.cache
        /\ x'.since = y.since
        /\ \/ /\ y.owner["PRIMARY"] \in {"none", "us"} /\ x'.asks = y.asks
              /\ \E e \in Event : /\ x'.queue = Append(y.queue, e)
                                 /\ Asks(y.owner["PRIMARY"], e)
           \/ /\ y.owner["PRIMARY"] = "them" /\ x'.queue = y.queue
              /\ x'.asks = Append(y.asks, y.lastev)
    BY <1>0, <2>1, ConvertFields
  <2>5. Awaited(x', newest)
    <3>1. CASE y.owner["PRIMARY"] = "them"
      <4>1. x'.queue = y.queue /\ x'.asks = <<y.lastev>>
        BY Zenon, <2>4, <3>1, OneMessage
      <4>2. Len(<<y.lastev>>) = 1
        BY Zenon
      <4> QED  BY Zenon, <2>4, <3>1, <4>1, <4>2 DEF Awaited
    <3>2. CASE y.owner["PRIMARY"] # "them"
      <4>1. PICK e \in Event : x'.queue = Append(y.queue, e) /\ Asks(y.owner["PRIMARY"], e)
        BY Zenon, <2>4, <3>2
      <4>2. e \in Busy
        BY Zenon, <4>1 DEF Busy, Asks
      <4>3. x'.asks = <<>> /\ Lone(x'.queue, e, Busy)
        BY Zenon, <1>0, <2>4, <3>2, <4>1, <4>2, AppendKeeps
      <4>4. CASE y.owner["PRIMARY"] = "none" /\ e.type = "Notify" /\ e.ok = FALSE
        <5>1. y.owner["PRIMARY"] # "us"
          BY Zenon, <4>4
        <5>2. AnswerText(x', e) = newest
          BY Zenon, <3>2, <4>4, <5>1 DEF AnswerText, PrimaryText
        <5> QED  BY Zenon, <4>2, <4>3, <4>4, <5>2 DEF Awaited
      <4>5. CASE y.owner["PRIMARY"] = "us" /\ e.type = "Request"
        <5>1. x'.since = 0 \/ x'.cache = NULL
          BY Zenon, <1>2, <2>4 DEF UsesCache
        <5> QED  BY Zenon, <2>4, <4>2, <4>3, <4>5, <5>1 DEF Awaited
      <4> QED  BY Zenon, <4>1, <4>4, <4>5 DEF Asks
    <3> QED  BY Zenon, <3>1, <3>2
  <2>6. PrimaryText(x') = newest
    BY Zenon, <2>4, PrimarySame
  <2>7. Waiting'
    BY Zenon, <2>1, <2>2, <2>3, <2>5, <2>6 DEF Waiting
  <2> QED  BY Zenon, <2>1, <2>7 DEF Stage
<1> QED  BY Zenon, <1>1, <1>2

\* set_clipboard_text, if neither selection is lost again.
Owned(y, z, text) ==
  /\ z \in SelectionState /\ z.asks = y.asks /\ z.queue = y.queue
  /\ z.cache = text /\ z.owner["PRIMARY"] = "us"

LEMMA SetOwns ==
  \A y \in SelectionState, text \in AllTexts, t \in AllTexts :
    Owned(y, SetClipboardText(y, text, "none", t), text)
<1> SUFFICES ASSUME NEW y \in SelectionState, NEW text \in AllTexts, NEW t \in AllTexts
             PROVE  Owned(y, SetClipboardText(y, text, "none", t), text)
  BY Zenon
<1> DEFINE z == SetClipboardText(y, text, "none", t)
<1>1. "none" \in Atoms \cup {"none"} /\ z = SetClipboardText(y, text, "none", t)
  BY Zenon
<1> HIDE DEF z
<1>2. Reset(y, z, text) /\ z.queue = y.queue /\ z.owner["PRIMARY"] = "us"
  BY <1>1, SetFields
<1> QED  BY Zenon, <1>1, <1>2 DEF Reset, Owned

\* clear-clipboard: the empty text is cached, and on its way to the remote.
LEMMA ClearCalm ==
  ASSUME NodeInv, WaitInv, NEW y \in SelectionState, y.asks = <<>>, None(y.queue, Busy),
         waits = <<>>, toRemote = <<>>, toMaster = <<>>, NEW t \in Texts,
         ClearClipboards(y, "none", t), toMaster' = toMaster,
         newest' = "", holders' = {"master", "remote"}
  PROVE  (focused \in holders /\ Stage)'
<1>1. /\ x' = SetClipboardText(y, "", "none", t) /\ waits' = Noted(x') /\ focused' = focused
      /\ toRemote' = Append(toRemote, [type |-> "SET", text |-> ""])
  BY Zenon DEF ClearClipboards, SendSetclipboard
<1>2. t \in AllTexts /\ "" \in AllTexts
  BY Zenon DEF AllTexts
<1>3. /\ x' \in SelectionState /\ x'.asks = y.asks /\ x'.cache = "" /\ x'.queue = y.queue
      /\ x'.owner["PRIMARY"] = "us"
  <2>1. Owned(y, SetClipboardText(y, "", "none", t), "")
    BY Zenon, <1>2, SetOwns
  <2> QED  BY Zenon, <1>1, <2>1 DEF Owned
<1>4. waits' = <<>>
  <2>0. waits \in Seq(Wait)
    BY Zenon DEF WaitInv
  <2>1. waits' \in Seq(Wait) /\ Len(waits') = Len(waits)
    BY Zenon, <1>1, <1>3, <2>0, NotedFields
  <2>2. Len(waits) = 0
    BY Zenon
  <2> QED  BY Zenon, <2>1, <2>2, EmptySeq
<1>5. PrimaryText(x') = ""
  BY Zenon, <1>2, <1>3, ClipboardAssumption DEF PrimaryText
<1>6. toRemote' = <<[type |-> "SET", text |-> ""]>>
  BY Zenon, <1>1, OneMessage
<1>7. Sent'
  BY Zenon, <1>3, <1>4, <1>5, <1>6 DEF Sent, Still, MasterHas
<1>8. (focused \in holders)'
  BY Zenon, <1>1 DEF NodeInv
<1> QED  BY Zenon, <1>7, <1>8 DEF Stage

\* The process handles the event that was unread: a hotkey, or the loss of
\* PRIMARY.
LEMMA PressedCalm ==
  ASSUME IInv, WaitInv, NodeInv, CalmInv, calm', NEW lost \in Atoms \cup {"none"},
         NEW t \in Texts, Dispatch(lost, t), Pressed, focused \in holders,
         Head(x.queue) \in Busy
  PROVE  (focused \in holders /\ Stage)'
<1> DEFINE ev == Head(x.queue)
           y == GetXevent(x)
<1>0. /\ x \in SelectionState /\ x.queue \in Seq(Event) /\ Good(x, stale, settime)
      /\ settime \in Nat /\ stale \in BOOLEAN
  BY Zenon, Fields DEF IInv, Good, Timely
<1>1. /\ x.queue # <<>> /\ HandleEvent(y, ev, lost, t) /\ toMaster' = toMaster
      /\ rtext' = rtext /\ ev \in Busy
  BY Zenon DEF Dispatch
<1>2. /\ y \in SelectionState /\ y.queue = Tail(x.queue) /\ y.asks = x.asks
      /\ y.owner = x.owner /\ y.theirs = x.theirs /\ y.cache = x.cache
      /\ PrimaryText(y) = PrimaryText(x)
  BY Zenon, <1>0, <1>1, NextFields
<1>3. ev.type # "Clear" => Good(y, stale, settime)
  BY Zenon, <1>0, <1>1, NextEventGood
<1>4. IF ev.type = "Key" /\ ev.action = "clear"
      THEN calm' = (calm /\ lost = "none") /\ newest' = "" /\ holders' = {"master", "remote"}
      ELSE /\ newest' = newest
           /\ holders' = IF ev.type = "Key" THEN holders \cup {ev.action} ELSE holders
  BY Zenon DEF Dispatch, NoteSet
<1> HIDE DEF ev, y
<1>5. PICK e \in Busy :
             /\ Lone(x.queue, e, Busy)
             /\ e.type = "Key" \/ (e.type = "Clear" /\ x.owner["PRIMARY"] = "them")
  BY Zenon DEF Pressed
<1>6. ev = e /\ None(y.queue, Busy)
  BY Zenon, <1>0, <1>1, <1>2, <1>5, TailKeeps DEF ev
<1>7. /\ waits = <<>> /\ x.asks = <<>> /\ toMaster = <<>> /\ toRemote = <<>>
      /\ MasterHas /\ RemoteHas
  BY Zenon DEF Pressed, Still
<1>8. ASSUME Only(y), newest' = newest, "master" \in holders' => "master" \in holders,
             "remote" \in holders' => "remote" \in holders, focused \in holders'
      PROVE  (focused \in holders /\ Stage)'
  <2>1. x' = y /\ waits' = waits /\ focused' = focused /\ toRemote' = toRemote
    BY Zenon, <1>8 DEF Only
  <2>2. MasterHas' /\ RemoteHas'
    BY Zenon, <1>1, <1>2, <1>7, <1>8, <2>1 DEF MasterHas, RemoteHas
  <2>3. Resting'
    BY Zenon, <1>1, <1>2, <1>6, <1>7, <2>1, <2>2 DEF Resting, Still
  <2> QED  BY Zenon, <1>8, <2>1, <2>3 DEF Stage
<1>9. CASE ev.type = "Clear"
  <2>1. /\ x' = HandleSelectionClear(y, ev) /\ waits' = waits /\ focused' = focused
        /\ toRemote' = toRemote
    BY Zenon, <1>1, <1>9 DEF HandleEvent, Only
  <2>2. /\ x'.asks = y.asks /\ x'.queue = y.queue /\ x'.theirs = y.theirs
        /\ x'.owner = y.owner
    BY Zenon, <1>2, <2>1 DEF HandleSelectionClear, ClearClipboardCache, SelectionState
  <2>3. ev.type # "Key" /\ x.owner["PRIMARY"] = "them"
    BY <1>5, <1>6, <1>9
  <2>4. newest' = newest /\ holders' = holders
    BY Zenon, <1>4, <2>3
  <2>5. PrimaryText(x') = PrimaryText(x)
    BY Zenon, <1>2, <2>2, <2>3 DEF PrimaryText
  <2>6. MasterHas' /\ RemoteHas'
    BY Zenon, <1>1, <1>7, <2>4, <2>5 DEF MasterHas, RemoteHas
  <2>7. Resting'
    BY Zenon, <1>1, <1>2, <1>6, <1>7, <2>1, <2>2, <2>6 DEF Resting, Still
  <2> QED  BY Zenon, <2>1, <2>4, <2>7 DEF Stage
<1>10. CASE ev.type = "Key" /\ ev.action = "clear"
  <2>1. lost = "none" /\ newest' = "" /\ holders' = {"master", "remote"}
    BY Zenon, <1>4, <1>10
  <2>2. ClearClipboards(y, lost, t)
    <3>1. ActionCb(y, ev.action, lost, t)
      BY Zenon, <1>1, <1>10 DEF HandleEvent
    <3>2. ev.action = "clear"
      BY <1>10
    <3> QED  BY Zenon, <3>1, <3>2 DEF ActionCb
  <2>3. ClearClipboards(y, "none", t)
    BY Zenon, <2>1, <2>2
  <2> QED  BY Zenon, <1>1, <1>2, <1>6, <1>7, <2>1, <2>3, ClearCalm
<1>11. CASE ev.type = "Key" /\ ev.action # "clear"
  <2>1. /\ ev.action \in {"master", "remote"} /\ ev.type # "Clear"
        /\ ActionCb(y, ev.action, lost, t)
    <3>1. ev \in Event
      BY Zenon, <1>1 DEF Busy
    <3>2. ev.action \in {"master", "remote"}
      BY Zenon, <1>11, <3>1 DEF Event
    <3> QED  BY <1>1, <1>11, <3>2 DEF HandleEvent
  <2>2. newest' = newest /\ holders' = holders \cup {ev.action}
    BY Zenon, <1>4, <1>11
  <2>3. CASE ev.action = focused
    <3>1. Only(y)
      BY Zenon, <2>1, <2>3 DEF ActionCb
    <3>2. holders' = holders
      BY Zenon, <2>2, <2>3
    <3> QED  BY Zenon, <1>8, <2>2, <3>1, <3>2
  <2>4. CASE ev.action = "master" /\ focused = "remote"
    <3>1. FocusMaster(y)
      BY Zenon, <2>1, <2>4 DEF ActionCb
    <3>2. /\ focused' = "master" /\ x' = y /\ waits' = waits
          /\ toRemote' = Append(toRemote, [type |-> "GET"])
      BY Zenon, <3>1 DEF FocusMaster
    <3>3. toRemote' = <<[type |-> "GET"]>>
      BY Zenon, <1>7, <3>2, OneMessage
    <3>4. rtext = newest
      BY Zenon, <1>7, <2>4 DEF RemoteHas
    <3>5. Asked'
      BY Zenon, <1>1, <1>2, <1>6, <1>7, <2>2, <3>2, <3>3, <3>4 DEF Asked, Still
    <3> QED  BY Zenon, <2>2, <2>4, <3>2, <3>5 DEF Stage
  <2>5. CASE ev.action = "remote" /\ focused = "master"
    <3>1. GetClipboardText(y, "switch")
      BY Zenon, <2>1, <2>5 DEF ActionCb
    <3>2. Good(y, stale, settime)
      BY Zenon, <1>3, <2>1
    <3>3. PrimaryText(y) = newest
      BY Zenon, <1>2, <1>7, <2>5 DEF MasterHas
    <3>4. focused \in holders' /\ "remote" \in holders'
      BY Zenon, <2>2, <2>5
    <3>5. y.asks = <<>>
      BY Zenon, <1>2, <1>7
    <3> QED  BY Zenon, <1>1, <1>6, <1>7, <2>2, <3>1, <3>2, <3>3, <3>4, <3>5, GetCalm
  <2> QED  BY Zenon, <2>1, <2>3, <2>4, <2>5 DEF NodeInv
<1> QED  BY Zenon, <1>5, <1>6, <1>9, <1>10, <1>11

\* The process answers itself, while the switch waits.
LEMMA WaitingCalm ==
  ASSUME IInv, CalmInv, NEW lost \in Atoms \cup {"none"}, NEW t \in Texts,
         Dispatch(lost, t), Waiting, focused \in holders, Head(x.queue) \in Busy
  PROVE  (focused \in holders /\ Stage)'
<1> DEFINE ev == Head(x.queue)
           y == GetXevent(x)
<1>0. x \in SelectionState /\ x.queue \in Seq(Event)
  BY Zenon, Fields DEF IInv, Good, Timely
<1>1. /\ x.queue # <<>> /\ HandleEvent(y, ev, lost, t) /\ toMaster' = toMaster
      /\ ev \in Busy
      /\ ev.type = "Notify" => waits = <<>>
  BY Zenon DEF Dispatch
<1>2. /\ y \in SelectionState /\ y.queue = Tail(x.queue) /\ y.asks = x.asks
      /\ y.owner = x.owner /\ y.theirs = x.theirs /\ y.cache = x.cache /\ y.since = x.since
  BY Zenon, <1>0, <1>1, NextFields
<1>3. ev.type # "Key" => newest' = newest /\ holders' = holders
  BY Zenon DEF Dispatch
<1> HIDE DEF ev, y
<1>4. ~None(x.queue, Busy)
  BY Zenon, <1>0, <1>1, TailKeeps DEF ev
<1>5. PICK e \in Busy :
             /\ Lone(x.queue, e, Busy)
             /\ \/ e.type = "Notify"
                \/ /\ e.type = "Request" /\ x.owner["PRIMARY"] = "us"
                   /\ x.since = 0 \/ x.cache = NULL
  BY Zenon, <1>4 DEF Waiting, Awaited
<1>6. ev = e /\ None(y.queue, Busy) /\ x.asks = <<>>
  BY Zenon, <1>0, <1>1, <1>2, <1>4, <1>5, TailKeeps DEF ev, Waiting, Awaited
<1>7. ev.type = "Request"
  <2>1. Len(<<>>) # 1
    OBVIOUS
  <2>2. waits # <<>>
    BY Zenon, <2>1 DEF Waiting
  <2> QED  BY Zenon, <1>1, <1>5, <1>6, <2>2
<1>8. ev \in Event /\ ev.from = "us" /\ ev.type # "Key"
  <2>1. ev \in Event /\ ev.from # "them"
    BY Zenon, <1>1, <1>7 DEF Busy
  <2> QED  BY Zenon, <1>7, <2>1 DEF Event
<1>9. /\ x' = HandleSelectionRequest(y, ev) /\ waits' = waits /\ focused' = focused
      /\ toRemote' = toRemote
  BY <1>1, <1>7 DEF HandleEvent, Only
<1>a. x' = HandleSelectionRequest(y, ev)
  BY Zenon, <1>9
<1>10. /\ x'.asks = y.asks /\ x'.owner = y.owner
       /\ x'.theirs = y.theirs /\ x'.cache = y.cache
       /\ \E n \in Event : /\ n.type = "Notify" /\ n.ok = ~Refuses(y, ev)
                           /\ x'.queue = Append(y.queue, n)
                           /\ x'.prop = (IF n.ok THEN y.cache ELSE y.prop)
  <2>1. y \in SelectionState /\ ev \in Event /\ ev.from = "us"
    BY Zenon, <1>2, <1>8
  <2> QED  BY <1>a, <2>1, ServeFields
<1>11. PICK n \in Event : /\ n.type = "Notify" /\ n.ok = ~Refuses(y, ev)
                          /\ x'.queue = Append(y.queue, n)
                          /\ x'.prop = (IF n.ok THEN y.cache ELSE y.prop)
  BY Zenon, <1>10
<1>12. n \in Busy /\ Lone(x'.queue, n, Busy)
  <2>1. n.type \in {"Clear", "Key", "Notify"}
    BY Zenon, <1>11
  <2>2. y.queue \in Seq(Event)
    BY Zenon, <1>2, Fields
  <2> QED  BY Zenon, <1>6, <1>11, <2>1, <2>2, JoinBusy
<1>13. Refuses(y, ev) <=> y.cache = NULL
  <2>1. ev.time \in Nat
    BY <1>8, EventTime
  <2>2. ev.time < 0 => FALSE
    BY <2>1
  <2> QED  BY Zenon, <1>2, <1>5, <1>6, <1>7, <2>2 DEF Refuses
<1>14. AnswerText(x', n) = newest
  <2>1. x.owner["PRIMARY"] = "us" /\ x.owner["PRIMARY"] # "them"
    BY Zenon, <1>5, <1>6, <1>7
  <2>2. newest = IF x.cache # NULL THEN x.cache ELSE ""
    BY Zenon, <2>1 DEF Waiting, PrimaryText
  <2> QED  BY Zenon, <1>2, <1>11, <1>13, <2>2 DEF AnswerText
<1>15. Awaited(x', newest)
  BY Zenon, <1>2, <1>6, <1>10, <1>11, <1>12, <1>14 DEF Awaited
<1>16. PrimaryText(x') = newest
  <2>1. PrimaryText(x') = PrimaryText(x)
    BY Zenon, <1>2, <1>10, PrimarySame
  <2> QED  BY Zenon, <2>1 DEF Waiting
<1>17. Waiting'
  BY Zenon, <1>1, <1>3, <1>8, <1>9, <1>15, <1>16 DEF Waiting
<1> QED  BY Zenon, <1>3, <1>8, <1>9, <1>17 DEF Stage

\* The process handles an event that nobody waits for.
LEMMA DispatchCalm ==
  ASSUME IInv, WaitInv, NodeInv, CalmInv, calm', NEW lost \in Atoms \cup {"none"},
         NEW t \in Texts, Dispatch(lost, t)
  PROVE  (focused \in holders /\ Stage)'
<1> DEFINE ev == Head(x.queue)
           y == GetXevent(x)
<1>0. x \in SelectionState /\ x.queue \in Seq(Event)
  BY Zenon, Fields DEF IInv, Good, Timely
<1>1. /\ x.queue # <<>> /\ HandleEvent(y, ev, lost, t) /\ toMaster' = toMaster
      /\ rtext' = rtext /\ calm
      /\ ev.type # "Key" => newest' = newest /\ holders' = holders
  BY Zenon DEF Dispatch, NoteSet
<1>2. focused \in holders /\ Stage
  BY Zenon, <1>1 DEF CalmInv
<1>3. CASE ev \notin Busy
  <2>1. /\ y.queue = Tail(x.queue) /\ y.asks = x.asks /\ y.prop = x.prop
        /\ y.owner = x.owner /\ y.theirs = x.theirs /\ y.cache = x.cache /\ y.since = x.since
        /\ ev \in Event
    BY <1>0, <1>1, NextFields
  <2> HIDE DEF ev, y
  <2>2. Keeps(x.queue, y.queue, Busy)
    <3>1. Keeps(x.queue, Tail(x.queue), Busy)
      BY Zenon, <1>0, <1>1, <1>3, TailKeeps DEF ev
    <3> QED  BY Zenon, <2>1, <3>1
  <2>3. ev.type = "Request" /\ ev.from = "them"
    BY Zenon, <1>3, <2>1 DEF Busy
  <2>4. Only(y)
    BY Zenon, <1>1, <2>3 DEF HandleEvent, HandleSelectionRequest
  <2>5. x' = y /\ waits' = waits /\ focused' = focused /\ toRemote' = toRemote
    BY Zenon, <2>4 DEF Only
  <2>6. newest' = newest /\ holders' = holders
    BY <1>1, <2>3
  <2>7. UNCHANGED <<focused, toRemote, toMaster, rtext, newest, holders>>
    BY Zenon, <1>1, <2>5, <2>6
  <2>8. Stage'
    BY Zenon, <1>2, <2>1, <2>2, <2>5, <2>7, StageKept
  <2> QED  BY Zenon, <1>2, <2>5, <2>6, <2>8
<1>4. CASE ev \in Busy
  <2>1. ~None(x.queue, Busy)
    BY Zenon, <1>0, <1>1, <1>4, TailKeeps
  <2>2. Pressed \/ Waiting
    BY Zenon, <1>2, <2>1 DEF Stage, Resting, Sent, Asked, Fetched
  <2> QED  BY Zenon, <1>2, <1>4, <2>2, PressedCalm, WaitingCalm
<1> QED  BY Zenon, <1>3, <1>4

-----------------------------------------------------------------------------
(***************************************************************************)
(* All together.                                                           *)
(***************************************************************************)
FullInv == IInv /\ WaitInv /\ NodeInv /\ CalmInv

LEMMA InitFull == Init => FullInv
<1> SUFFICES ASSUME Init PROVE FullInv
  OBVIOUS
<1>1. IInv
  BY Zenon, InitInv
<1>a. PICK o \in {"none", "them"}, t \in AllTexts :
             x = SelectionInit(o, t) /\ (o = "none" => t = "")
  BY Zenon DEF Init, AllTexts
<1>3. /\ waits = <<>> /\ due = FALSE /\ focused = "master" /\ toRemote = <<>>
      /\ toMaster = <<>> /\ newest = x.theirs /\ holders = {"master"}
  BY Zenon DEF Init
<1>b. /\ x.owner["PRIMARY"] = o /\ x.theirs = t /\ x.queue = <<>> /\ x.asks = <<>>
  <2>1. x.owner["PRIMARY"] = o
    BY Zenon, <1>a DEF SelectionInit, Atoms
  <2> QED  BY Zenon, <1>a, <2>1 DEF SelectionInit
<1>2. <<>> \in Seq(Wait)
  OBVIOUS
<1>4. WaitInv /\ NodeInv
  BY Zenon, <1>2, <1>3, <1>a, <1>b DEF WaitInv, NodeInv
<1>5. None(x.queue, Busy)
  <2>1. DOMAIN x.queue = {}
    BY <1>b
  <2> QED  BY Zenon, <2>1 DEF None
<1>6. PrimaryText(x) = newest
  <2>1. o = "none" \/ o = "them"
    BY Zenon
  <2>2. "none" # "them" /\ "none" # "us"
    BY Zenon
  <2> QED  BY Zenon, <1>3, <1>a, <1>b, <2>1, <2>2 DEF PrimaryText
<1>7. focused \in holders /\ "remote" \notin holders
  BY Zenon, <1>3
<1>8. Resting
  BY Zenon, <1>3, <1>5, <1>6, <1>7, <1>b DEF Resting, Still, MasterHas, RemoteHas
<1>9. CalmInv
  BY Zenon, <1>7, <1>8 DEF CalmInv, Stage
<1> QED  BY Zenon, <1>1, <1>4, <1>9 DEF FullInv

LEMMA StepFull == FullInv /\ [Next]_vars => FullInv'
<1> SUFFICES ASSUME FullInv, [Next]_vars PROVE FullInv'
  OBVIOUS
<1>0. IInv /\ WaitInv /\ NodeInv /\ CalmInv
  BY Zenon DEF FullInv
<1>1. IInv'
  BY Zenon, <1>0, StepInv
<1>2. CASE UNCHANGED vars
  <2>1. /\ x' = x /\ waits' = waits /\ due' = due /\ focused' = focused
        /\ toRemote' = toRemote /\ toMaster' = toMaster /\ rtext' = rtext
        /\ got' = got /\ newest' = newest /\ holders' = holders /\ calm' = calm
    BY Zenon, <1>2 DEF vars, history
  <2>2. WaitInv' /\ NodeInv'
    BY Zenon, <1>0, <2>1 DEF WaitInv, NodeInv
  <2>3. UNCHANGED <<focused, toRemote, toMaster, rtext, newest, holders>>
    BY Zenon, <2>1
  <2>4. Keeps(x.queue, x'.queue, Busy)
    BY Zenon, <2>1, KeepsTrans
  <2>5. Stage => Stage'
    BY Zenon, <2>1, <2>3, <2>4, StageKept
  <2>6. CalmInv'
    BY Zenon, <1>0, <2>1, <2>5 DEF CalmInv
  <2> QED  BY Zenon, <1>1, <2>2, <2>6 DEF FullInv
<1>3. CASE Next
  <2>1. NodeInv' /\ WaitInv'
    BY Zenon, <1>0, <1>1, <1>3, NodeStep, WaitStep
  <2>3. ASSUME calm' PROVE (focused \in holders /\ Stage)'
    <3>1. CASE \E early \in BOOLEAN : GiveUp(early)
      BY Zenon, <2>3, <3>1 DEF GiveUp
    <3>2. CASE \/ \E a \in Atoms, t \in Texts : TheirCopy(a, t)
               \/ \E ok \in BOOLEAN : TheirAnswer(ok)
      BY Zenon, <1>0, <2>3, <3>2, CopyCalm, AnswerCalm
    <3>3. CASE \/ \E a \in Atoms, time \in 0..x.clock : TheirPaste(a, time)
               \/ \E action \in {"remote", "master", "clear"} : PressHotkey(action)
               \/ \E t \in Texts : RemoteCopy(t)
               \/ TimeOut \/ RemoteReceive
      BY Zenon, <1>0, <2>3, <3>3, QuietCalm, PressCalm, RemoteCopyCalm, RemoteReceiveCalm
    <3>4. CASE \/ \E lost \in Atoms \cup {"none"}, t \in Texts :
                    Dispatch(lost, t) \/ ReceiveSet(lost, t)
               \/ \E early \in BOOLEAN : Notified(early)
      BY Zenon, <1>0, <2>3, <3>4, DispatchCalm, ReceiveCalm, NotifiedCalm
    <3> QED  BY Zenon, <1>3, <3>1, <3>2, <3>3, <3>4 DEF Next
  <2>4. CalmInv'
    BY Zenon, <2>3 DEF CalmInv
  <2> QED  BY Zenon, <1>1, <2>1, <2>4 DEF FullInv
<1> QED  BY Zenon, <1>2, <1>3

LEMMA FullInvariance == Spec => []FullInv
BY InitFull, StepFull, PTL DEF Spec

\* transfer_clipboard, the handlers of MT_GETCLIPBOARD and MT_SETCLIPBOARD and
\* action_cb together carry the text copied last along with the focus, whether
\* it comes from the cache, from another client, or from the process itself:
\* at rest and after calm transfers, the nodes that hold the text have it.
THEOREM TextFollows == Spec => []ClipboardFollows
<1>1. FullInv => ClipboardFollows
  <2> SUFFICES ASSUME FullInv, AtRest, calm
               PROVE  /\ "master" \in holders => PrimaryText(x) = newest
                      /\ "remote" \in holders => rtext = newest
    BY Zenon DEF ClipboardFollows
  <2>1. Resting
    BY Zenon, RestStage DEF FullInv, CalmInv
  <2> QED  BY Zenon, <2>1 DEF Resting, MasterHas, RemoteHas
<1> QED  BY <1>1, FullInvariance, PTL
=============================================================================
