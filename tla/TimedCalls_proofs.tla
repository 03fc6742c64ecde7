------------------------- MODULE TimedCalls_proofs -------------------------
(***************************************************************************)
(* Proofs about TimedCalls, for every set of remotes, every focus hint and *)
(* every number of steps: scheduled calls run in order, the time-out of    *)
(* select() never wraps, and overlapping brightness transitions settle.    *)
(***************************************************************************)
EXTENDS ScheduledCalls_proofs

\* The level that n settles at, from rest, when the call run is under way.
Level(list, run, n, rest) ==
  Final(list, n, IF run # NULL /\ IsStep(run, n) THEN run.arg.level ELSE rest)

\* The node that has been shown to have the focus.
FocusOf(q) == IF q.waiting = <<>> THEN q.focused ELSE Head(q.waiting)

Screens(list, run, q, h) ==
  \A n \in Nodes : Live(q, n) =>
    Level(list, run, n, q.shown[n])
      = IF h.type = "flash_active" \/ n = FocusOf(q) THEN Full ELSE Dim

\* With flash-active even the steps that are pending for a lost connection
\* lead to a bright screen.
Flash(list, run, h) ==
  h.type = "flash_active" => \A n \in Nodes : Level(list, run, n, Full) = Full

\* A call that runs was the first of the list, and its remote still knows it.
Running(run, list, q, time) ==
  /\ run \in Scheduled /\ run.time <= time
  /\ \A i \in 1..Len(list) : Before(run, list[i]) /\ run.id # list[i].id
  /\ run.fn = "reconnect" => /\ q.conn[run.arg.node] = "FAILED"
                             /\ q.timer[run.arg.node] = run.id

\* The inductive invariant.
Inv ==
  /\ clock \in Nat /\ now \in Nat /\ now <= clock /\ hint \in Hints
  /\ Good(State, clock + hint.duration)
  /\ Lively(p)
  /\ Flash(calls, running, hint)
  /\ pc = "call" => Running(running, calls, p, clock)
  /\ pc # "call" => running = NULL
  /\ p.waiting # <<>> => pc = "idle"
  /\ ~crossed => Len(p.waiting) <= 1 /\ Screens(calls, running, p, hint)
  /\ NoUnderflow

LEMMA LevelIdle ==
  ASSUME NEW l, NEW n, NEW rest
  PROVE  Level(l, NULL, n, rest) = Final(l, n, rest)
BY Zenon, SMTT(30) DEF Level

LEMMA StateIs ==
  ASSUME NEW q, NEW l, NEW limit
  PROVE  Good([p |-> q, calls |-> l], limit)
           <=> q \in Proc /\ Listed(l, q.serial, limit) /\ TimersOK(l, q)
<1>1. [p |-> q, calls |-> l].p = q /\ [p |-> q, calls |-> l].calls = l
  BY Zenon
<1>2. [p |-> q, calls |-> l] \in States <=> q \in Proc /\ l \in Seq(Scheduled)
  BY Zenon DEF States
<1> QED BY Zenon, <1>1, <1>2 DEF Good, Listed

LEMMA InvCalls ==
  ASSUME Inv
  PROVE  calls \in Seq(Scheduled) /\ DOMAIN calls = 1..Len(calls)
<1>1. calls \in Seq(Scheduled)
  BY Zenon, StateIs DEF Inv, State, Listed
<1>2. ASSUME NEW S, NEW l \in Seq(S) PROVE DOMAIN l = 1..Len(l)
  OBVIOUS
<1> QED BY <1>1, <1>2, Zenon

\* The initial state: all screens are bright, as the focused node should be.
\* No remote is connected.
LEMMA InitInv == Init => Inv
<1> SUFFICES ASSUME Init PROVE Inv
  BY Zenon, SMTT(30)
<1> USE DEF Init, TimersInit
<1>1. p \in Proc
  <2>1. MasterNode \in Nodes /\ <<>> \in Seq(Nodes) /\ Full \in Int
    BY SMTT(30), TimedCallsAssumption DEF Nodes
  <2> QED BY Zenon, <2>1 DEF Proc
<1>2. Listed(<<>>, p.serial, clock + hint.duration)
  BY SMTT(30) DEF Listed, Ordered
<1>3. TimersOK(<<>>, p)
  BY SMTT(30) DEF TimersOK
<1>4. Good(State, clock + hint.duration)
  BY Zenon, <1>1, <1>2, <1>3, StateIs DEF State
<1>5. \A n, rest : Final(<<>>, n, rest) = rest
  BY SMTT(30), FinalNone
<1>6. Lively(p)
  BY SMTT(30) DEF Lively, Live
<1>7. Flash(calls, running, hint)
  BY Zenon, <1>5 DEF Flash, Level
<1>8. Screens(calls, running, p, hint)
  <2>1. ASSUME NEW n \in Nodes, Live(p, n)
        PROVE  Level(calls, running, n, p.shown[n]) = Full /\ n = FocusOf(p)
    <3>1. n = MasterNode
      BY Zenon, <2>1 DEF Live, Nodes
    <3> QED BY Zenon, <1>5, <3>1 DEF Level, FocusOf
  <2> QED BY Zenon, <2>1 DEF Screens
<1>9. NoUnderflow
  BY Zenon, SMTT(30) DEF NoUnderflow
<1> QED BY <1>4, <1>6, <1>7, <1>8, <1>9 DEF Inv

\* What a handler that ends in the state z has to ensure.
LEMMA BecomeInv ==
  ASSUME Inv, pc = "idle", NEW z, Become(z), Good(z, clock + hint.duration), Lively(z.p),
         Flash(z.calls, NULL, hint),
         ~crossed' => Len(z.p.waiting) <= 1 /\ Screens(z.calls, NULL, z.p, hint)
  PROVE  Inv'
<1>1. /\ p' = z.p /\ calls' = z.calls
      /\ UNCHANGED <<clock, pc, now, running, timeout, since, hint>>
  BY ZenonT(30) DEF Become
<1>2. running' = NULL /\ pc' = "idle"
  BY Zenon, <1>1 DEF Inv
<1>3. z.p \in Proc /\ Listed(z.calls, z.p.serial, clock + hint.duration) /\ TimersOK(z.calls, z.p)
  BY Zenon DEF Good, States
<1>4. Good([p |-> z.p, calls |-> z.calls], clock + hint.duration)
  BY Zenon, <1>3, StateIs
<1>5. Good(State', clock' + hint'.duration)
  BY Zenon, <1>1, <1>4 DEF State
<1>6. Flash(calls', running', hint') /\ Lively(p')
  BY Zenon, <1>1, <1>2
<1>7. ~crossed' => Len(p'.waiting) <= 1 /\ Screens(calls', running', p', hint')
  BY Zenon, <1>1, <1>2
<1>8. NoUnderflow'
  BY Zenon, <1>2 DEF NoUnderflow
<1>9. clock' \in Nat /\ now' \in Nat /\ now' <= clock' /\ hint' \in Hints
  BY Zenon, <1>1 DEF Inv
<1> QED BY ZenonT(30), <1>2, <1>5, <1>6, <1>7, <1>8, <1>9 DEF Inv

\* A state in which only the focus and the switches that wait have changed.
Refocused(z, y, focused, waiting, limit) ==
  /\ Good(y, limit) /\ y.calls = z.calls
  /\ y.p.focused = focused /\ y.p.waiting = waiting
  /\ y.p.conn = z.p.conn /\ y.p.shown = z.p.shown

LEMMA FocusSet ==
  ASSUME NEW z, NEW limit, Good(z, limit), NEW f \in Nodes, NEW v \in Seq(Nodes)
  PROVE  Refocused(z, [z EXCEPT !.p.focused = f, !.p.waiting = v], f, v, limit)
<1> DEFINE y == [z EXCEPT !.p.focused = f, !.p.waiting = v]
           w == [z.p EXCEPT !.focused = f, !.waiting = v]
<1>1. /\ z \in States /\ z.p \in Proc
      /\ Listed(z.calls, z.p.serial, limit) /\ TimersOK(z.calls, z.p)
  BY Zenon DEF Good, States
<1>2. y = [z EXCEPT !.p = w]
  BY Zenon, <1>1 DEF States, Proc
<1>3. /\ w \in Proc /\ w.focused = f /\ w.waiting = v /\ w.conn = z.p.conn
      /\ w.timer = z.p.timer /\ w.shown = z.p.shown /\ w.serial = z.p.serial
  BY ZenonT(30), <1>1 DEF Proc
<1> HIDE DEF w, y
<1>4. y \in States /\ y.p = w /\ y.calls = z.calls
  BY Zenon, <1>1, <1>2, <1>3 DEF States
<1>5. Good(y, limit)
  BY ZenonT(30), <1>1, <1>3, <1>4 DEF Good, TimersOK
<1> QED BY Zenon, <1>3, <1>4, <1>5 DEF Refocused, y

\* focus_node: the node that is shown to have the focus ends bright, the one
\* that had it ends as configured, and the others are left alone.
LEMMA FocusNodeInv ==
  ASSUME Inv, NEW n \in Nodes, NEW waits \in BOOLEAN, FocusNode(n, waits)
  PROVE  Inv'
<1> DEFINE down == n \in Remotes /\ p.conn[n] # "CONNECTED"
           from == p.focused
           to == IF down THEN from ELSE n
           s == IF down THEN ReconnectRemote(State, n) ELSE State
           z == IndicateSwitch(s, from, to)
           f == IF waits THEN p.focused ELSE to
           v == IF waits THEN <<to>> \o p.waiting ELSE p.waiting
           y == IF waits THEN [z EXCEPT !.p.waiting = <<to>> \o @] ELSE [z EXCEPT !.p.focused = to]
           limit == clock + hint.duration
<1>1. /\ pc = "idle" /\ Become(y) /\ crossed' = (crossed \/ p.waiting # <<>>)
      /\ waits => from = MasterNode /\ to # from
  BY Zenon DEF FocusNode
<1>2. State.p = p /\ State.calls = calls
  BY Zenon, SMTT(30) DEF State
<1>3. /\ clock \in Nat /\ hint \in Hints /\ Good(State, limit) /\ Lively(p)
      /\ Flash(calls, running, hint) /\ running = NULL
      /\ ~crossed => Len(p.waiting) <= 1 /\ Screens(calls, running, p, hint)
  BY ZenonT(30), <1>1 DEF Inv
<1>4. p \in Proc /\ from \in Nodes /\ p.waiting \in Seq(Nodes)
  BY ZenonT(30), <1>2, <1>3, ProcFields DEF Good, States
<1>5. to \in Nodes /\ Live(p, to)
  BY SMTT(30), <1>3, <1>4 DEF Lively, Live, Nodes
<1>6. /\ Good(s, limit) /\ s.p.focused = from /\ s.p.waiting = p.waiting
      /\ \A m \in Nodes : SameLevel(State, s, m) /\ (Live(s.p, m) <=> Live(p, m))
  <2>1. CASE down
    BY ZenonT(30), <1>2, <1>3, <2>1, Reconnected
  <2>2. CASE ~down
    BY Zenon, <1>2, <1>3, <2>2 DEF SameLevel
  <2> QED BY ZenonT(30), <2>1, <2>2
<1> HIDE DEF s, down, to, from
<1>7. Indicated(s, z, from, to, limit)
  BY SMTT(30), <1>3, <1>4, <1>5, <1>6, IndicateSwitchIs
<1> HIDE DEF z
<1>8. /\ Good(z, limit) /\ SameNodes(s, z)
      /\ z.p.focused = from /\ z.p.waiting = p.waiting
      /\ z \in States /\ z.p \in Proc
  BY Zenon, <1>6, <1>7 DEF Indicated, SameNodes, Good, States
<1>9. f \in Nodes /\ v \in Seq(Nodes)
  BY <1>4, <1>5 DEF from
<1>10. y = [z EXCEPT !.p.focused = f, !.p.waiting = v]
  <2>1. CASE waits
    BY ZenonT(30), <1>8, <2>1 DEF States, Proc, from
  <2>2. CASE ~waits
    BY Zenon, <1>8, <2>2 DEF States, Proc
  <2> QED BY <2>1, <2>2
<1>11. Refocused(z, y, f, v, limit)
  <2> HIDE DEF f, v, y
  <2> QED BY ZenonT(30), <1>8, <1>9, <1>10, FocusSet
<1> HIDE DEF y
<1>12. Good(y, limit) /\ y.p.shown = z.p.shown /\ y.calls = z.calls
  BY ZenonT(20), <1>11 DEF Refocused
<1>13. \A m \in Nodes : Live(y.p, m) <=> Live(p, m)
  <2>1. y.p.conn = s.p.conn
    BY Zenon, <1>8, <1>11 DEF Refocused, SameNodes
  <2> QED BY Zenon, <1>6, <2>1 DEF Live
<1>14. Lively(y.p)
  <2>1. y.p.focused = f /\ y.p.waiting = v
    BY SMTT(30), <1>11 DEF Refocused
  <2>2. Live(y.p, f)
    BY Zenon, <1>3, <1>5, <1>9, <1>13 DEF Lively
  <2>3. ASSUME NEW i \in 1..Len(v) PROVE Live(y.p, v[i])
    <3>1. v[i] \in Nodes
      BY SMTT(30), <1>9
    <3>2. v[i] = to \/ \E j \in 1..Len(p.waiting) : v[i] = p.waiting[j]
      <4>1. CASE waits
        <5>1. v = <<to>> \o p.waiting /\ <<to>> \in Seq(Nodes) /\ Len(<<to>>) = 1
          BY <1>5, <4>1
        <5>2. CASE i = 1
          BY <1>4, <5>1, <5>2
        <5>3. CASE i # 1
          <6>1. Len(v) = 1 + Len(p.waiting) /\ Len(p.waiting) \in Nat
            BY <1>4, <5>1
          <6>2. i - 1 \in 1..Len(p.waiting)
            BY <5>3, <6>1
          <6>3. v[i] = p.waiting[i - 1]
            BY <1>4, <5>1, <5>3, <6>1
          <6> QED BY Zenon, <6>2, <6>3
        <5> QED BY <5>2, <5>3
      <4>2. CASE ~waits
        BY SMTT(30), <4>2
      <4> QED BY Zenon, <4>1, <4>2
    <3> HIDE DEF v
    <3> QED BY SMTT(30), <1>3, <1>5, <1>13, <3>1, <3>2 DEF Lively
  <2> HIDE DEF f, v
  <2> QED BY Zenon, <2>1, <2>2, <2>3 DEF Lively
<1>15. ASSUME NEW m \in Nodes
       PROVE  /\ m = to => \A rest \in Int : Final(y.calls, m, rest) = Full
              /\ m # to /\ m = from /\ hint.type = "dim_inactive" =>
                   \A rest \in Int : Final(y.calls, m, rest) = Dim
              /\ m # to /\ ~(m = from /\ hint.type = "dim_inactive") =>
                   SameLevel(State, y, m)
  <2>1. SameLevel(State, s, m)
    BY SMTT(30), <1>6
  <2> QED BY Zenon, <1>7, <1>12, <2>1 DEF Indicated, SameLevel
<1>16. Full \in Int /\ hint.type \in {"dim_inactive", "flash_active"}
  BY SMTT(30), <1>3, TimedCallsAssumption
<1>17. Flash(y.calls, NULL, hint)
  <2> SUFFICES ASSUME hint.type = "flash_active", NEW m \in Nodes
               PROVE  Final(y.calls, m, Full) = Full
    BY LevelIdle DEF Flash
  <2>1. Final(calls, m, Full) = Full
    BY <1>3, LevelIdle DEF Flash
  <2> QED BY Zenon, <1>2, <1>15, <1>16, <2>1 DEF SameLevel
<1>18. ASSUME ~crossed' PROVE Len(y.p.waiting) <= 1 /\ Screens(y.calls, NULL, y.p, hint)
  <2>1. ~crossed /\ p.waiting = <<>>
    BY Zenon, <1>1, <1>18
  <2>2. y.p.waiting = v /\ y.p.focused = f
    BY Zenon, <1>11 DEF Refocused
  <2>3. Len(v) <= 1 /\ FocusOf(y.p) = to
    <3>1. CASE waits
      <4>1. v = <<to>>
        BY <2>1, <3>1
      <4>2. Len(<<to>>) = 1 /\ <<to>> # <<>> /\ Head(<<to>>) = to
        OBVIOUS
      <4> HIDE DEF v
      <4> QED BY <2>2, <4>1, <4>2 DEF FocusOf
    <3>2. CASE ~waits
      BY <2>1, <2>2, <3>2 DEF FocusOf
    <3> QED BY <3>1, <3>2
  <2>4. FocusOf(p) = from
    BY Zenon, <2>1 DEF FocusOf, from
  <2>5. ASSUME NEW m \in Nodes, Live(y.p, m)
        PROVE  Final(y.calls, m, y.p.shown[m])
                 = IF hint.type = "flash_active" \/ m = to THEN Full ELSE Dim
    <3>1. Final(calls, m, p.shown[m])
            = IF hint.type = "flash_active" \/ m = from THEN Full ELSE Dim
      BY Zenon, <1>3, <1>13, <2>1, <2>4, <2>5, LevelIdle DEF Screens
    <3>2. y.p.shown[m] \in Int /\ p.shown[m] \in Int
      BY SMTT(30), <1>4, <1>12, ProcFields DEF Good, States
    <3>3. SameLevel(State, y, m) => Final(y.calls, m, y.p.shown[m]) = Final(calls, m, p.shown[m])
      BY Zenon, <1>2, <3>2 DEF SameLevel
    <3> QED BY SMTT(30), <1>15, <1>16, <3>1, <3>2, <3>3
  <2>6. Screens(y.calls, NULL, y.p, hint)
    BY <2>3, <2>5, LevelIdle DEF Screens
  <2> QED BY Zenon, <2>2, <2>3, <2>6
<1> QED BY ZenonT(30), <1>1, <1>12, <1>14, <1>17, <1>18, BecomeInv

\* The end of focus_node: the focus goes where it has been shown to go.
LEMMA FocusWaitedInv ==
  ASSUME Inv, FocusWaited
  PROVE  Inv'
<1> DEFINE f == Head(p.waiting)
           v == Tail(p.waiting)
           y == [State EXCEPT !.p.focused = f, !.p.waiting = v]
           limit == clock + hint.duration
<1>1. /\ pc = "idle" /\ p.waiting # <<>> /\ crossed' = crossed
      /\ Become([State EXCEPT !.p.focused = f, !.p.waiting = Tail(@)])
  BY Zenon DEF FocusWaited
<1>2. State.p = p /\ State.calls = calls
  BY DEF State
<1>3. /\ Good(State, limit) /\ Lively(p) /\ Flash(calls, running, hint) /\ running = NULL
      /\ ~crossed => Len(p.waiting) <= 1 /\ Screens(calls, running, p, hint)
  BY Zenon, <1>1 DEF Inv
<1>4. State \in States /\ p \in Proc /\ p.waiting \in Seq(Nodes)
  BY Zenon, <1>2, <1>3, ProcFields DEF Good, States
<1>5. /\ v \in Seq(Nodes) /\ Dropped(v, p.waiting, 1) /\ f = p.waiting[1] /\ f \in Nodes
  BY <1>1, <1>4, TailIs
<1>6. /\ Len(p.waiting) \in Nat /\ 1 \in 1..Len(p.waiting) /\ Len(v) = Len(p.waiting) - 1
      /\ \A i \in 1..Len(v) : v[i] = p.waiting[i + 1] /\ i + 1 \in 1..Len(p.waiting)
  BY <1>4, <1>5 DEF Dropped
<1>7. Become(y)
  <2>1. [State EXCEPT !.p.focused = f, !.p.waiting = Tail(@)] = y
    <3> HIDE DEF f
    <3> QED BY SMTT(30), <1>2, <1>4 DEF States, Proc
  <2> QED BY Zenon, <1>1, <2>1
<1> HIDE DEF f, v
<1>8. Refocused(State, y, f, v, limit)
  BY Zenon, <1>3, <1>5, FocusSet
<1> HIDE DEF y
<1>9. /\ Good(y, limit) /\ y.calls = calls /\ y.p.focused = f /\ y.p.waiting = v
      /\ y.p.conn = p.conn /\ y.p.shown = p.shown
  BY SMTT(30), <1>2, <1>8 DEF Refocused
<1>10. Lively(y.p)
  BY Zenon, <1>3, <1>5, <1>6, <1>9 DEF Lively, Live
<1>11. ASSUME ~crossed' PROVE Len(v) <= 1 /\ Screens(y.calls, NULL, y.p, hint)
  <2>1. Len(p.waiting) <= 1 /\ Screens(calls, NULL, p, hint)
    BY Zenon, <1>1, <1>3, <1>11
  <2>2. Len(v) = 0
    <3> DEFINE L == Len(p.waiting)
    <3>1. L \in Nat /\ 1 <= L /\ Len(v) = L - 1 /\ L <= 1
      BY <1>4, <1>5, <2>1 DEF Dropped
    <3> HIDE DEF L
    <3> QED BY <3>1
  <2>3. v = <<>>
    BY <1>5, <2>2
  <2>4. FocusOf(y.p) = FocusOf(p)
    BY Zenon, <1>1, <1>9, <2>3 DEF FocusOf, f
  <2> QED BY <1>9, <2>1, <2>2, <2>4 DEF Screens, Live
<1> QED BY <1>1, <1>3, <1>7, <1>9, <1>10, <1>11, BecomeInv

\* A remote that becomes ready, whatever was pending for it: with dim-inactive
\* the new transition ends last, with flash-active all lead to a bright screen.
LEMMA ReceiveReadyInv ==
  ASSUME Inv, NEW r \in Remotes, ReceiveReady(r)
  PROVE  Inv'
<1> DEFINE s == [State EXCEPT !.p.conn[r] = "CONNECTED", !.p.failcount[r] = 0,
                              !.p.shown[r] = Full]
           c == [p.conn EXCEPT ![r] = "CONNECTED"]
           g == [p.failcount EXCEPT ![r] = 0]
           h == [p.shown EXCEPT ![r] = Full]
           w == [p EXCEPT !.conn = c, !.failcount = g, !.shown = h]
           z == IF hint.type = "dim_inactive" THEN TransitionBrightness(s, r, Full, Dim) ELSE s
           limit == clock + hint.duration
<1>1. /\ pc = "idle" /\ p.waiting = <<>> /\ p.conn[r] = "SETTINGUP" /\ crossed' = crossed
      /\ Become(z)
  BY Zenon DEF ReceiveReady, Idle
<1>2. State = [p |-> p, calls |-> calls] /\ State.p = p /\ State.calls = calls
  BY Zenon DEF State
<1>3. /\ clock \in Nat /\ hint \in Hints /\ Good(State, limit) /\ Lively(p)
      /\ Flash(calls, running, hint) /\ running = NULL
      /\ ~crossed => Screens(calls, running, p, hint)
  BY SMTT(30), <1>1 DEF Inv
<1>4. /\ p \in Proc /\ calls \in Seq(Scheduled) /\ Listed(calls, p.serial, limit)
      /\ TimersOK(calls, p)
  BY Zenon, <1>2, <1>3 DEF Good, States
<1>5. /\ p.conn \in [Remotes -> {"SETTINGUP", "CONNECTED", "FAILED", "PERMFAILED"}]
      /\ p.failcount \in [Remotes -> Nat] /\ p.shown \in [Nodes -> Int]
  BY Zenon, <1>4, ProcFields
<1>6. Full \in Int /\ Dim \in Int /\ r \in Nodes /\ r # MasterNode
      /\ hint.type \in {"dim_inactive", "flash_active"}
  BY <1>3, TimedCallsAssumption DEF Nodes
<1>7. /\ c \in [Remotes -> {"SETTINGUP", "CONNECTED", "FAILED", "PERMFAILED"}]
      /\ c[r] = "CONNECTED" /\ \A o \in Remotes : o # r => c[o] = p.conn[o]
  BY Zenon, <1>5
<1>8. g \in [Remotes -> Nat]
  BY Zenon, <1>5
<1>9. h \in [Nodes -> Int] /\ h[r] = Full /\ \A m \in Nodes : m # r => h[m] = p.shown[m]
  BY Zenon, <1>5, <1>6
<1>10. s = [p |-> w, calls |-> calls]
  <2>1. s = [[p |-> p, calls |-> calls] EXCEPT !.p.conn[r] = "CONNECTED", !.p.failcount[r] = 0,
                                              !.p.shown[r] = Full]
    BY Zenon, <1>2
  <2> HIDE DEF s
  <2>2. s = [p |-> [p EXCEPT !.conn[r] = "CONNECTED", !.failcount[r] = 0, !.shown[r] = Full],
             calls |-> calls]
    <3> DEFINE a == [p EXCEPT !.conn[r] = "CONNECTED"]
               b == [a EXCEPT !.failcount[r] = 0]
    <3>1. [[p |-> p, calls |-> calls] EXCEPT !.p.conn[r] = "CONNECTED"]
            = [p |-> a, calls |-> calls]
      OBVIOUS
    <3> HIDE DEF a
    <3>2. [[p |-> a, calls |-> calls] EXCEPT !.p.failcount[r] = 0] = [p |-> b, calls |-> calls]
      OBVIOUS
    <3> HIDE DEF b
    <3>3. [[p |-> b, calls |-> calls] EXCEPT !.p.shown[r] = Full]
            = [p |-> [b EXCEPT !.shown[r] = Full], calls |-> calls]
      OBVIOUS
    <3>4. s = [[[[p |-> p, calls |-> calls] EXCEPT !.p.conn[r] = "CONNECTED"]
                 EXCEPT !.p.failcount[r] = 0] EXCEPT !.p.shown[r] = Full]
      BY Zenon, <2>1
    <3>5. [p EXCEPT !.conn[r] = "CONNECTED", !.failcount[r] = 0, !.shown[r] = Full]
            = [b EXCEPT !.shown[r] = Full]
      BY Zenon DEF a, b
    <3> QED BY Zenon, <3>1, <3>2, <3>3, <3>4, <3>5
  <2>3. [p EXCEPT !.conn[r] = "CONNECTED", !.failcount[r] = 0, !.shown[r] = Full] = w
    BY Zenon, <1>4 DEF Proc
  <2> QED BY Zenon, <2>2, <2>3
<1> HIDE DEF c, g, h, s
<1>11. /\ w \in Proc /\ w.focused = p.focused /\ w.waiting = p.waiting /\ w.conn = c
       /\ w.timer = p.timer /\ w.shown = h /\ w.serial = p.serial
  BY ZenonT(30), <1>4, <1>7, <1>8, <1>9 DEF Proc
<1> HIDE DEF w
<1>12. s.p = w /\ s.calls = calls
  BY Zenon, <1>10
<1>13. Good(s, limit)
  <2>1. TimersOK(calls, w)
    <3>1. ASSUME NEW j \in 1..Len(calls), calls[j].fn = "reconnect"
          PROVE  w.conn[calls[j].arg.node] = "FAILED"
      <4>1. p.conn[calls[j].arg.node] = "FAILED"
        BY ZenonT(20), <1>4, <3>1 DEF TimersOK
      <4>2. calls[j].arg.node \in Remotes
        BY SMTT(30), <1>4, <3>1, CallType
      <4> QED BY ZenonT(30), <1>1, <1>7, <1>11, <4>1, <4>2
    <3> QED BY ZenonT(20), <1>4, <1>11, <3>1 DEF TimersOK
  <2> QED BY <1>4, <1>10, <1>11, <2>1, StateIs
<1>14. CASE hint.type = "dim_inactive"
  <2>1. z = TransitionBrightness(s, r, Full, Dim)
    BY Zenon, <1>14
  <2> HIDE DEF z
  <2>2. Faded(s, z, r, limit) /\ \A rest \in Int : Final(z.calls, r, rest) = Dim
    BY SMTT(30), <1>3, <1>6, <1>13, <2>1, Transition
  <2>3. Good(z, limit) /\ z.p.focused = p.focused /\ z.p.waiting = <<>> /\ z.p.conn = c
    BY ZenonT(20), <1>1, <1>11, <1>12, <2>2 DEF Faded, SameNodes
  <2>4. Live(p, p.focused) /\ p.focused \in Nodes /\ p.focused # r
    BY Zenon, <1>1, <1>3, <1>4, <1>6, ProcFields DEF Lively, Live
  <2>5. ASSUME NEW m \in Nodes, m # r PROVE Live(z.p, m) <=> Live(p, m)
    BY SMTT(30), <1>7, <2>3, <2>5 DEF Live, Nodes
  <2>6. Lively(z.p)
    <3>1. Len(<<>>) = 0
      BY Zenon
    <3> QED BY <2>3, <2>4, <2>5, <3>1 DEF Lively
  <2>7. Flash(z.calls, NULL, hint)
    BY SMTT(30), <1>14 DEF Flash
  <2>8. ASSUME ~crossed' PROVE Len(z.p.waiting) <= 1 /\ Screens(z.calls, NULL, z.p, hint)
    <3>1. FocusOf(z.p) = p.focused /\ FocusOf(p) = p.focused /\ Len(z.p.waiting) <= 1
      BY SMTT(30), <1>1, <2>3 DEF FocusOf
    <3>2. z.p.shown \in [Nodes -> Int]
      BY Zenon, <2>3, ProcFields DEF Good, States
    <3>3. ASSUME NEW m \in Nodes, Live(z.p, m)
          PROVE  Final(z.calls, m, z.p.shown[m]) = IF m = p.focused THEN Full ELSE Dim
      <4>1. CASE m = r
        BY SMTT(30), <2>2, <2>4, <3>2, <4>1
      <4>2. CASE m # r
        <5>1. Final(calls, m, p.shown[m]) = IF m = p.focused THEN Full ELSE Dim
          BY Zenon, <1>1, <1>3, <1>14, <2>5, <2>8, <3>1, <3>3, <4>2, LevelIdle DEF Screens
        <5>2. SameLevel(s, z, m)
          BY SMTT(30), <2>2, <4>2 DEF Faded
        <5>3. z.p.shown[m] = p.shown[m] /\ p.shown[m] \in Int
          BY ZenonT(30), <1>5, <1>9, <1>11, <1>12, <4>2, <5>2 DEF SameLevel
        <5> QED BY SMTT(30), <1>12, <5>1, <5>2, <5>3 DEF SameLevel
      <4> QED BY Zenon, <4>1, <4>2
    <3> QED BY SMTT(30), <1>14, <3>1, <3>3, LevelIdle DEF Screens
  <2> QED BY Zenon, <1>1, <2>3, <2>6, <2>7, <2>8, BecomeInv
<1>15. CASE hint.type = "flash_active"
  <2>1. z = s
    BY <1>15
  <2> HIDE DEF z
  <2>2. ASSUME NEW m \in Nodes, m # r PROVE Live(z.p, m) <=> Live(p, m)
    BY SMTT(30), <1>7, <1>11, <1>12, <2>1, <2>2 DEF Live, Nodes
  <2>3. Live(p, p.focused) /\ p.focused \in Nodes /\ p.focused # r
    BY <1>1, <1>3, <1>4, <1>6, ProcFields DEF Lively, Live
  <2>4. Lively(z.p)
    <3>1. Len(<<>>) = 0
      OBVIOUS
    <3> QED BY SMTT(30), <1>1, <1>11, <1>12, <2>1, <2>2, <2>3, <3>1 DEF Lively
  <2>5. Flash(z.calls, NULL, hint)
    BY <1>3, <1>12, <2>1
  <2>6. ASSUME ~crossed' PROVE Len(z.p.waiting) <= 1 /\ Screens(z.calls, NULL, z.p, hint)
    <3>1. Len(z.p.waiting) <= 1
      BY <1>1, <1>11, <1>12, <2>1
    <3>2. ASSUME NEW m \in Nodes, Live(z.p, m) PROVE Final(z.calls, m, z.p.shown[m]) = Full
      <4>1. CASE m = r
        <5>1. Final(z.calls, m, Full) = Full
          BY SMTT(30), <1>15, <2>5, LevelIdle DEF Flash
        <5> QED BY SMTT(30), <1>9, <1>11, <1>12, <2>1, <4>1, <5>1
      <4>2. CASE m # r
        <5>1. Final(calls, m, p.shown[m]) = Full
          BY ZenonT(30), <1>1, <1>3, <1>15, <2>2, <2>6, <3>2, <4>2, LevelIdle DEF Screens
        <5> QED BY SMTT(30), <1>9, <1>11, <1>12, <2>1, <4>2, <5>1
      <4> QED BY Zenon, <4>1, <4>2
    <3> QED BY SMTT(30), <1>15, <3>1, <3>2, LevelIdle DEF Screens
  <2> QED BY Zenon, <1>1, <1>13, <2>1, <2>4, <2>5, <2>6, BecomeInv
<1> QED BY <1>6, <1>14, <1>15

\* A remote that fails, with the focus or without it.
LEMMA ChannelFailsInv ==
  ASSUME Inv, NEW r \in Remotes, ChannelFails(r)
  PROVE  Inv'
<1> DEFINE z == FailRemote(State, r)
           limit == clock + hint.duration
<1>1. /\ pc = "idle" /\ p.waiting = <<>> /\ p.conn[r] \in {"SETTINGUP", "CONNECTED"}
      /\ crossed' = crossed /\ Become(z)
  BY Zenon DEF ChannelFails, Idle
<1>2. State.p = p /\ State.calls = calls
  BY Zenon, SMTT(30) DEF State
<1>3. /\ clock \in Nat /\ hint \in Hints /\ Good(State, limit) /\ Lively(p)
      /\ Flash(calls, running, hint) /\ running = NULL
      /\ ~crossed => Screens(calls, running, p, hint)
  BY SMTT(30), <1>1 DEF Inv
<1>4. p.focused \in Nodes /\ MasterNode \in Nodes /\ p.shown \in [Nodes -> Int]
  BY ZenonT(30), <1>2, <1>3, ProcFields DEF Good, States, Nodes
<1>5. /\ Good(z, limit) /\ z.p.waiting = p.waiting
      /\ z.p.focused = IF r = p.focused THEN MasterNode ELSE p.focused
      /\ \A m \in Nodes : Live(z.p, m) <=> Live(p, m) /\ m # r
      /\ \A m \in Nodes : IF r = p.focused /\ m = MasterNode
                        THEN \A rest \in Int : Final(z.calls, m, rest) = Full
                        ELSE SameLevel(State, z, m)
  <2>1. State.p.conn[r] \in {"SETTINGUP", "CONNECTED"}
    BY Zenon, <1>1, <1>2
  <2>2. clock \in Nat /\ hint \in Hints /\ Good(State, clock + hint.duration)
    BY Zenon, <1>3
  <2>3. /\ Good(z, limit) /\ z.p.waiting = State.p.waiting
        /\ z.p.focused = IF r = State.p.focused THEN MasterNode ELSE State.p.focused
        /\ \A m \in Nodes : Live(z.p, m) <=> Live(State.p, m) /\ m # r
        /\ \A m \in Nodes : IF r = State.p.focused /\ m = MasterNode
                          THEN \A rest \in Int : Final(z.calls, m, rest) = Full
                          ELSE SameLevel(State, z, m)
    BY Zenon, <2>1, <2>2, Failed
  <2> HIDE DEF z, limit
  <2> QED BY Zenon, <1>2, <2>3
<1> HIDE DEF z
<1>6. Full \in Int /\ r # MasterNode /\ hint.type \in {"dim_inactive", "flash_active"}
  <2>1. Full \in Nat /\ r # MasterNode
    BY Zenon, TimedCallsAssumption
  <2>2. hint \in [type : {"dim_inactive", "flash_active"}, duration : Nat]
    BY Zenon, <1>3, TimedCallsAssumption
  <2>3. hint.type \in {"dim_inactive", "flash_active"}
    BY Zenon, <2>2
  <2> QED BY <2>1, <2>3
<1>7. Lively(z.p)
  <2>1. Live(p, p.focused) /\ Live(p, MasterNode)
    BY SMTT(30), <1>3 DEF Lively, Live
  <2>2. Live(z.p, z.p.focused)
    BY Zenon, <1>4, <1>5, <1>6, <2>1
  <2>3. Len(<<>>) = 0
    OBVIOUS
  <2> QED BY <1>1, <1>5, <2>2, <2>3 DEF Lively
<1>8. Flash(z.calls, NULL, hint)
  <2> SUFFICES ASSUME hint.type = "flash_active", NEW m \in Nodes
               PROVE  Final(z.calls, m, Full) = Full
    BY Zenon, LevelIdle DEF Flash
  <2>1. Final(calls, m, Full) = Full
    BY SMTT(30), <1>3, LevelIdle DEF Flash
  <2> QED BY <1>2, <1>5, <1>6, <2>1 DEF SameLevel
<1>9. ASSUME ~crossed' PROVE Len(z.p.waiting) <= 1 /\ Screens(z.calls, NULL, z.p, hint)
  <2>1. Len(z.p.waiting) <= 1 /\ FocusOf(z.p) = z.p.focused /\ FocusOf(p) = p.focused
    BY SMTT(30), <1>1, <1>5 DEF FocusOf
  <2>2. z.p.shown \in [Nodes -> Int]
    BY Zenon, <1>5, ProcFields DEF Good, States
  <2>3. ASSUME NEW m \in Nodes, Live(z.p, m)
        PROVE  Final(z.calls, m, z.p.shown[m])
                 = IF hint.type = "flash_active" \/ m = z.p.focused THEN Full ELSE Dim
    <3>1. Live(p, m) /\ m # r
      BY Zenon, <1>5, <2>3
    <3>2. Final(calls, m, p.shown[m])
            = IF hint.type = "flash_active" \/ m = p.focused THEN Full ELSE Dim
      BY ZenonT(30), <1>1, <1>3, <1>9, <2>1, <3>1, LevelIdle DEF Screens
    <3>3. CASE r = p.focused /\ m = MasterNode
      BY Zenon, <1>5, <2>2, <3>3
    <3>4. CASE ~(r = p.focused /\ m = MasterNode)
      <4>1. SameLevel(State, z, m)
        BY SMTT(30), <1>5, <3>4
      <4>2. Final(z.calls, m, z.p.shown[m]) = Final(calls, m, p.shown[m])
        BY SMTT(30), <1>2, <1>4, <4>1 DEF SameLevel
      <4>3. m = z.p.focused <=> m = p.focused
        BY Zenon, <1>5, <3>1, <3>4
      <4> QED BY Zenon, <3>2, <4>2, <4>3
    <3> QED BY Zenon, <3>3, <3>4
  <2> QED BY Zenon, <2>1, <2>3, LevelIdle DEF Screens
<1> QED BY ZenonT(30), <1>1, <1>5, <1>7, <1>8, <1>9, BecomeInv

\* A level that is reached is one that remains, if no other is pending.
LEMMA FinalRest ==
  ASSUME NEW l, NEW n, NEW a, NEW b, Final(l, n, a) = b
  PROVE  Final(l, n, b) = b
BY SMTT(30) DEF Final

\* What a called function that leaves the list alone has to ensure.
LEMMA CalledInv ==
  ASSUME Inv, NEW z, Called(z), Good(z, clock + hint.duration), Lively(z.p),
         z.p.waiting = p.waiting, Flash(z.calls, NULL, hint),
         ~crossed => Screens(z.calls, NULL, z.p, hint)
  PROVE  Inv'
<1>1. /\ pc = "call" /\ pc' = "run" /\ running' = NULL /\ calls' = z.calls /\ p' = z.p
      /\ UNCHANGED <<clock, now, timeout, since, hint, crossed>>
  BY Zenon, SMTT(30) DEF Called, Return
<1>2. p.waiting = <<>>
  BY ZenonT(30), <1>1 DEF Inv
<1>3. z.p \in Proc /\ Listed(z.calls, z.p.serial, clock + hint.duration) /\ TimersOK(z.calls, z.p)
  BY Zenon DEF Good, States
<1>4. Good([p |-> z.p, calls |-> z.calls], clock + hint.duration)
  BY Zenon, <1>3, StateIs
<1>5. Good(State', clock' + hint'.duration)
  BY SMTT(30), <1>1, <1>4 DEF State
<1>6. Flash(calls', running', hint') /\ Lively(p')
  BY Zenon, <1>1
<1>7. ~crossed' => Len(p'.waiting) <= 1 /\ Screens(calls', running', p', hint')
  BY SMTT(30), <1>1, <1>2
<1>8. NoUnderflow'
  BY Zenon, <1>1 DEF NoUnderflow
<1>9. clock' \in Nat /\ now' \in Nat /\ now' <= clock' /\ hint' \in Hints
  BY Zenon, <1>1 DEF Inv
<1> QED BY ZenonT(30), <1>1, <1>2, <1>5, <1>6, <1>7, <1>8, <1>9 DEF Inv

\* A step of a transition shows the level that the node was to have by then.
LEMMA SetBrightnessInv ==
  ASSUME Inv, SetBrightnessCb
  PROVE  Inv'
<1> DEFINE n == running.arg.node
           skip == n \in Remotes /\ p.conn[n] # "CONNECTED"
           z == IF skip THEN State ELSE SetNodeDisplayBrightness(State, n, running.arg.level)
           limit == clock + hint.duration
<1>1. pc = "call" /\ running.fn = "brightness" /\ Called(z)
  BY Zenon, SMTT(30) DEF SetBrightnessCb
<1>2. State.p = p /\ State.calls = calls
  BY DEF State
<1>3. /\ Good(State, limit) /\ Lively(p) /\ Flash(calls, running, hint)
      /\ running \in Scheduled
      /\ ~crossed => Screens(calls, running, p, hint)
  BY Zenon, <1>1 DEF Inv, Running
<1>4. n \in Nodes /\ running.arg.level \in Int /\ running # NULL
  BY SMTT(30), <1>1, <1>3, CallType, TimedCallsAssumption
<1>5. IsStep(running, n) /\ \A m \in Nodes : m # n => ~IsStep(running, m)
  BY ZenonT(30), <1>1 DEF IsStep
<1>6. /\ \A rest : Level(calls, running, n, rest) = Final(calls, n, running.arg.level)
      /\ \A m \in Nodes : m # n => \A rest : Level(calls, running, m, rest) = Final(calls, m, rest)
  BY Zenon, <1>4, <1>5 DEF Level
<1>7. Full \in Int
  BY SMTT(30), TimedCallsAssumption
<1>8. /\ Good(z, limit) /\ z.calls = calls /\ SameNodes(State, z)
      /\ \A m \in Nodes : m # n => z.p.shown[m] = p.shown[m]
      /\ ~skip => z.p.shown[n] = running.arg.level
  <2>1. CASE skip
    BY ZenonT(30), <1>2, <1>3, <2>1 DEF SameNodes
  <2>2. CASE ~skip
    <3> DEFINE lev == running.arg.level
               y == SetNodeDisplayBrightness(State, n, lev)
    <3>1. z = y
      BY Zenon, <2>2
    <3>2. Good(State, limit) /\ n \in Nodes /\ lev \in Int
      BY Zenon, <1>3, <1>4
    <3> HIDE DEF limit, n, lev
    <3>3. Faded(State, y, n, limit) /\ y.p.shown[n] = lev /\ y.calls = State.calls
      BY Zenon, <3>2, LevelSet
    <3> HIDE DEF y
    <3>4. Good(y, limit) /\ SameNodes(State, y)
          /\ \A m \in Nodes : m # n => y.p.shown[m] = State.p.shown[m]
      BY Zenon, <3>3 DEF Faded, SameLevel
    <3> HIDE DEF z
    <3> QED BY Zenon, <1>2, <3>1, <3>3, <3>4 DEF lev
  <2> QED BY ZenonT(30), <2>1, <2>2
<1> HIDE DEF z
<1>9. /\ z.p.focused = p.focused /\ z.p.waiting = p.waiting /\ z.p.conn = p.conn
  BY Zenon, <1>2, <1>8 DEF SameNodes
<1>10. Lively(z.p)
  BY Zenon, <1>3, <1>9 DEF Lively, Live
<1>11. Flash(z.calls, NULL, hint)
  <2> SUFFICES ASSUME hint.type = "flash_active", NEW m \in Nodes
               PROVE  Final(calls, m, Full) = Full
    BY <1>8, LevelIdle DEF Flash
  <2>1. Level(calls, running, m, Full) = Full
    BY Zenon, <1>3 DEF Flash
  <2>2. CASE m = n
    <3>1. Final(calls, m, running.arg.level) = Full
      BY Zenon, <1>6, <2>1, <2>2
    <3> QED BY <3>1, FinalRest
  <2>3. CASE m # n
    BY Zenon, <1>6, <2>1, <2>3
  <2> QED BY Zenon, <2>2, <2>3
<1>12. ASSUME ~crossed PROVE Screens(z.calls, NULL, z.p, hint)
  <2>1. FocusOf(z.p) = FocusOf(p)
    BY SMTT(30), <1>9 DEF FocusOf
  <2>2. ASSUME NEW m \in Nodes, Live(z.p, m)
        PROVE  Final(z.calls, m, z.p.shown[m])
                 = IF hint.type = "flash_active" \/ m = FocusOf(p) THEN Full ELSE Dim
    <3>1. Live(p, m)
      BY Zenon, <1>9, <2>2 DEF Live
    <3>2. Level(calls, running, m, p.shown[m])
            = IF hint.type = "flash_active" \/ m = FocusOf(p) THEN Full ELSE Dim
      BY SMTT(30), <1>3, <1>12, <3>1 DEF Screens
    <3>3. Level(calls, running, m, p.shown[m]) = Final(z.calls, m, z.p.shown[m])
      <4>1. CASE m = n
        <5>1. ~skip
          BY SMTT(30), <3>1, <4>1, TimedCallsAssumption DEF Live
        <5> QED BY ZenonT(20), <1>6, <1>8, <4>1, <5>1
      <4>2. CASE m # n
        BY SMTT(30), <1>6, <1>8, <4>2
      <4> QED BY SMTT(30), <4>1, <4>2
    <3> QED BY <3>2, <3>3
  <2> QED BY Zenon, <2>1, <2>2, LevelIdle DEF Screens
<1> QED BY Zenon, <1>1, <1>8, <1>9, <1>10, <1>11, <1>12, CalledInv

\* A reconnection that runs is the only one of its remote.
LEMMA ReconnectInv ==
  ASSUME Inv, ReconnectRemoteCb
  PROVE  Inv'
<1> DEFINE r == running.arg.node
           z == SetupRemote([State EXCEPT !.p.timer[r] = NULL], r)
           t == [p.timer EXCEPT ![r] = NULL]
           c == [p.conn EXCEPT ![r] = "SETTINGUP"]
           w == [p EXCEPT !.timer = t, !.conn = c]
           limit == clock + hint.duration
<1>1. pc = "call" /\ running.fn = "reconnect" /\ Called(z)
  BY Zenon DEF ReconnectRemoteCb
<1>2. State = [p |-> p, calls |-> calls]
  BY Zenon DEF State
<1>3. /\ Good(State, limit) /\ Lively(p) /\ Flash(calls, running, hint)
      /\ Running(running, calls, p, clock)
      /\ ~crossed => Screens(calls, running, p, hint)
  BY Zenon, <1>1 DEF Inv
<1>4. /\ p \in Proc /\ calls \in Seq(Scheduled) /\ Listed(calls, p.serial, limit)
      /\ TimersOK(calls, p)
  BY Zenon, <1>2, <1>3, StateIs DEF Listed
<1>5. /\ p.conn \in [Remotes -> {"SETTINGUP", "CONNECTED", "FAILED", "PERMFAILED"}]
      /\ p.timer \in [Remotes -> Nat \cup {NULL}]
  BY Zenon, <1>4, ProcFields
<1>6. /\ running \in Scheduled /\ r \in Remotes /\ p.conn[r] = "FAILED" /\ p.timer[r] = running.id
      /\ \A i \in 1..Len(calls) : calls[i].id # running.id
  BY Zenon, <1>1, <1>3, CallType DEF Running
<1>7. \A m, rest : Level(calls, running, m, rest) = Final(calls, m, rest)
  <2>1. \A m : ~IsStep(running, m)
    BY Zenon, <1>1 DEF IsStep
  <2> QED BY <2>1 DEF Level
<1> HIDE DEF r
<1>8. /\ t \in [Remotes -> Nat \cup {NULL}] /\ t[r] = NULL
      /\ \A o \in Remotes : o # r => t[o] = p.timer[o]
  BY Zenon, <1>5, <1>6
<1>9. /\ c \in [Remotes -> {"SETTINGUP", "CONNECTED", "FAILED", "PERMFAILED"}]
      /\ c[r] = "SETTINGUP" /\ \A o \in Remotes : o # r => c[o] = p.conn[o]
  BY <1>5, <1>6
<1>10. z = [p |-> w, calls |-> calls]
  <2> DEFINE a == [p EXCEPT !.timer[r] = NULL]
  <2>1. [State EXCEPT !.p.timer[r] = NULL] = [p |-> a, calls |-> calls]
    BY <1>2
  <2>2. z = [[p |-> a, calls |-> calls] EXCEPT !.p.conn[r] = "SETTINGUP"]
    BY Zenon, <2>1 DEF SetupRemote
  <2> HIDE DEF a, z
  <2>3. z = [p |-> [a EXCEPT !.conn[r] = "SETTINGUP"], calls |-> calls]
    BY Zenon, <2>2
  <2>4. [a EXCEPT !.conn[r] = "SETTINGUP"] = w
    BY Zenon, <1>4 DEF Proc, a
  <2> QED BY Zenon, <2>3, <2>4
<1> HIDE DEF t, c, z
<1>11. /\ w \in Proc /\ w.focused = p.focused /\ w.waiting = p.waiting /\ w.conn = c
       /\ w.timer = t /\ w.shown = p.shown /\ w.serial = p.serial
  BY ZenonT(30), <1>4, <1>8, <1>9 DEF Proc
<1> HIDE DEF w
<1>12. TimersOK(calls, w)
  <2>1. \A o \in Remotes : w.timer[o] # NULL => w.timer[o] < w.serial
    BY SMTT(30), <1>4, <1>8, <1>11 DEF TimersOK
  <2>2. ASSUME NEW j \in 1..Len(calls), calls[j].fn = "reconnect"
        PROVE  /\ w.conn[calls[j].arg.node] = "FAILED"
               /\ w.timer[calls[j].arg.node] = calls[j].id
    <3>1. calls[j].arg.node \in Remotes
      BY SMTT(30), <1>4, <2>2, CallType
    <3>2. p.conn[calls[j].arg.node] = "FAILED" /\ p.timer[calls[j].arg.node] = calls[j].id
      BY SMTT(30), <1>4, <2>2 DEF TimersOK
    <3>3. calls[j].arg.node # r
      BY Zenon, <1>6, <3>2
    <3> QED BY SMTT(30), <1>8, <1>9, <1>11, <3>1, <3>2, <3>3
  <2>3. ASSUME NEW j \in 1..Len(calls), NEW o \in Remotes, calls[j].id = w.timer[o]
        PROVE  calls[j].fn = "reconnect"
    <3>1. calls[j].id \in Nat
      BY SMTT(30), <1>4, CallType
    <3>2. o # r
      BY SMTT(30), <1>8, <1>11, <2>3, <3>1, TimersAssumption
    <3> QED BY SMTT(30), <1>4, <1>8, <1>11, <2>3, <3>2 DEF TimersOK
  <2> QED BY Zenon, <2>1, <2>2, <2>3 DEF TimersOK
<1>13. Good(z, limit)
  BY Zenon, <1>4, <1>10, <1>11, <1>12, StateIs
<1>14. z.p = w /\ z.calls = calls
  BY Zenon, <1>10
<1>15. \A m \in Nodes : Live(w, m) <=> Live(p, m)
  BY Zenon, <1>6, <1>9, <1>11 DEF Live, Nodes
<1>16. Lively(w)
  <2>1. p.focused \in Nodes /\ p.waiting \in Seq(Nodes)
    BY Zenon, <1>4, ProcFields
  <2>2. \A i \in 1..Len(p.waiting) : p.waiting[i] \in Nodes
    BY SMTT(30), <2>1
  <2> QED BY SMTT(30), <1>3, <1>11, <1>15, <2>1, <2>2 DEF Lively
<1>17. Flash(calls, NULL, hint)
  BY SMTT(30), <1>3, <1>7, LevelIdle DEF Flash
<1>18. ~crossed => Screens(calls, NULL, w, hint)
  <2>1. FocusOf(w) = FocusOf(p)
    BY Zenon, <1>11 DEF FocusOf
  <2>2. \A m \in Nodes :
          Level(calls, NULL, m, w.shown[m]) = Level(calls, running, m, p.shown[m])
    <3> SUFFICES ASSUME NEW m \in Nodes
                 PROVE  Level(calls, NULL, m, w.shown[m]) = Level(calls, running, m, p.shown[m])
      BY Zenon
    <3>1. w.shown[m] = p.shown[m]
      BY Zenon, <1>11
    <3>2. Level(calls, NULL, m, p.shown[m]) = Final(calls, m, p.shown[m])
      BY Zenon, LevelIdle
    <3>3. Level(calls, running, m, p.shown[m]) = Final(calls, m, p.shown[m])
      BY Zenon, <1>7
    <3> QED BY Zenon, <3>1, <3>2, <3>3
  <2>3. ~crossed => Screens(calls, running, p, hint)
    BY Zenon, <1>3
  <2>4. ASSUME ~crossed, NEW m \in Nodes, Live(w, m)
        PROVE  Level(calls, NULL, m, w.shown[m])
                 = IF hint.type = "flash_active" \/ m = FocusOf(w) THEN Full ELSE Dim
    <3>1. Live(p, m)
      BY Zenon, <1>15, <2>4
    <3>2. Level(calls, running, m, p.shown[m])
            = IF hint.type = "flash_active" \/ m = FocusOf(p) THEN Full ELSE Dim
      BY Zenon, <2>3, <2>4, <3>1 DEF Screens
    <3> QED BY Zenon, <2>1, <2>2, <3>2
  <2> QED BY Zenon, <2>4 DEF Screens
<1> QED BY ZenonT(20), <1>1, <1>11, <1>13, <1>14, <1>16, <1>17, <1>18, CalledInv

\* run_scheduled_calls takes the first call, which is due, off the list.
LEMMA RunCallInv ==
  ASSUME Inv, RunCall, UNCHANGED <<hint, p, crossed>>
  PROVE  Inv'
<1> DEFINE limit == clock + hint.duration
           l == calls
           run == Head(calls)
           new == Tail(calls)
<1>1. /\ pc = "run" /\ calls # <<>> /\ calls[1].time <= now
      /\ running' = run /\ calls' = new /\ pc' = "call"
      /\ UNCHANGED <<clock, now, timeout, since, hint, p, crossed>>
  BY Zenon, SMTT(30) DEF RunCall, Due
<1>2. /\ clock \in Nat /\ now \in Nat /\ now <= clock /\ hint \in Hints
      /\ Good(State, limit) /\ Lively(p) /\ Flash(calls, NULL, hint) /\ p.waiting = <<>>
      /\ ~crossed => Len(p.waiting) <= 1 /\ Screens(calls, NULL, p, hint)
  BY ZenonT(20), <1>1 DEF Inv
<1>3. /\ p \in Proc /\ calls \in Seq(Scheduled) /\ Listed(calls, p.serial, limit)
      /\ TimersOK(calls, p)
  BY Zenon, <1>2, StateIs DEF State, Listed
<1>4. /\ new \in Seq(Scheduled) /\ Dropped(new, calls, 1) /\ run = calls[1] /\ run \in Scheduled
  BY <1>1, <1>3, TailIs
<1>5. run # NULL /\ run.time \in Int /\ Len(calls) \in Nat
  BY <1>3, <1>4, CallType, TimedCallsAssumption
<1> HIDE DEF run, new
<1>6. 1 \in 1..Len(calls) /\ \A i \in 1..Len(new) : /\ i + 1 \in 1..Len(calls) /\ 1 < i + 1
                                                 /\ new[i] = calls[i + 1]
  BY <1>4, <1>5 DEF Dropped
<1>7. Listed(new, p.serial, limit)
  BY Zenon, <1>3, <1>4, DroppedListed
<1>8. TimersOK(new, p)
  <2>1. ASSUME NEW i \in 1..Len(new)
        PROVE  /\ new[i].fn = "reconnect" => /\ p.conn[new[i].arg.node] = "FAILED"
                                            /\ p.timer[new[i].arg.node] = new[i].id
               /\ \A r \in Remotes : new[i].id = p.timer[r] => new[i].fn = "reconnect"
    <3>1. PICK j \in 1..Len(calls) : new[i] = calls[j]
      BY Zenon, <1>6
    <3> QED BY Zenon, <1>3, <3>1 DEF TimersOK
  <2> QED BY ZenonT(20), <1>3, <2>1 DEF TimersOK
<1>9. Good(State', clock' + hint'.duration)
  <2>1. Good([p |-> p, calls |-> new], limit)
    BY SMTT(30), <1>3, <1>7, <1>8, StateIs
  <2> QED BY Zenon, <1>1, <2>1 DEF State
<1>10. Running(run, new, p, clock)
  <2>1. run.time <= clock
    BY SMTT(30), <1>1, <1>2, <1>4, <1>5
  <2>2. \A i \in 1..Len(new) : Before(run, new[i]) /\ run.id # new[i].id
    BY SMTT(30), <1>3, <1>4, <1>6 DEF Listed, Ordered
  <2>3. run.fn = "reconnect" => p.conn[run.arg.node] = "FAILED" /\ p.timer[run.arg.node] = run.id
    BY Zenon, <1>3, <1>4, <1>6 DEF TimersOK
  <2> QED BY Zenon, <1>4, <2>1, <2>2, <2>3 DEF Running
<1>11. ASSUME NEW m \in Nodes, NEW rest
       PROVE  Level(new, run, m, rest) = Level(calls, NULL, m, rest)
  <2>1. Level(calls, NULL, m, rest) = Final(calls, m, rest)
    BY Zenon, LevelIdle
  <2>2. CASE IsStep(run, m)
    <3>1. Level(new, run, m, rest) = Final(new, m, run.arg.level)
      BY SMTT(30), <1>5, <2>2 DEF Level
    <3> QED BY SMTT(30), <1>4, <1>5, <2>1, <2>2, <3>1, DroppedFirst
  <2>3. CASE ~IsStep(run, m)
    <3>1. Level(new, run, m, rest) = Final(new, m, rest)
      BY SMTT(30), <2>3 DEF Level
    <3> QED BY SMTT(30), <1>4, <1>5, <2>1, <2>3, <3>1, DroppedOther
  <2> QED BY Zenon, <2>2, <2>3
<1>12. Flash(new, run, hint)
  BY ZenonT(30), <1>2, <1>11 DEF Flash
<1>13. ~crossed => Screens(new, run, p, hint)
  BY Zenon, <1>2, <1>11 DEF Screens
<1>14. NoUnderflow'
  BY SMTT(30), <1>1 DEF NoUnderflow
<1>15. /\ Lively(p') /\ Flash(calls', running', hint') /\ Running(running', calls', p', clock')
       /\ ~crossed' => Len(p'.waiting) <= 1 /\ Screens(calls', running', p', hint')
       /\ p'.waiting = <<>>
  BY SMTT(30), <1>1, <1>2, <1>10, <1>12, <1>13
<1>16. clock' \in Nat /\ now' \in Nat /\ now' <= clock' /\ hint' \in Hints
  BY Zenon, <1>1, <1>2
<1> QED BY Zenon, <1>1, <1>9, <1>14, <1>15, <1>16 DEF Inv

\* As time passes, the limit for steps of transitions moves on.
LEMMA LaterListed ==
  ASSUME NEW l, NEW serial, NEW a \in Int, NEW b \in Int, a <= b, Listed(l, serial, a)
  PROVE  Listed(l, serial, b)
<1>1. \A i \in 1..Len(l) : l[i].time \in Int
  BY CallType DEF Listed
<1> QED BY <1>1 DEF Listed

\* The steps of the loop that call nothing, and the clock.
LEMMA PassInv ==
  ASSUME Inv, Pass
  PROVE  Inv'
<1> DEFINE limit == clock + hint.duration
<1>1. UNCHANGED <<hint, p, crossed>>
  BY DEF Pass
<1>2. CASE RunCall
  BY Zenon, <1>1, <1>2, RunCallInv
<1>3. ASSUME UNCHANGED <<calls, running>>,
             clock' \in Nat /\ now' \in Nat /\ now' <= clock' /\ clock <= clock',
             pc' = "call" <=> pc = "call", p.waiting # <<>> => pc' = "idle", NoUnderflow'
      PROVE  Inv'
  <2>1. hint.duration \in Nat /\ clock \in Nat /\ hint \in Hints
    BY ZenonT(30), TimedCallsAssumption DEF Inv
  <2>2. p \in Proc /\ Listed(calls, p.serial, limit) /\ TimersOK(calls, p)
    BY Zenon, StateIs DEF Inv, State
  <2>3. Listed(calls, p.serial, clock' + hint.duration)
    <3>1. limit \in Int /\ clock' + hint.duration \in Int /\ limit <= clock' + hint.duration
      BY SMTT(30), <1>3, <2>1
    <3> HIDE DEF limit
    <3> QED BY <2>2, <3>1, LaterListed
  <2>4. Good(State', clock' + hint'.duration)
    <3>1. Good([p |-> p, calls |-> calls], clock' + hint.duration)
      BY SMTT(30), <2>2, <2>3, StateIs
    <3> QED BY Zenon, <1>1, <1>3, <3>1 DEF State
  <2>5. ASSUME pc' = "call" PROVE Running(running', calls', p', clock')
    <3>1. Running(running, calls, p, clock)
      BY SMTT(30), <1>3, <2>5 DEF Inv
    <3>2. running.time \in Int
      BY SMTT(30), <3>1, CallType DEF Running
    <3>3. running.time <= clock'
      BY SMTT(30), <1>3, <2>1, <3>1, <3>2 DEF Running
    <3>4. Running(running, calls, p, clock')
      BY SMTT(30), <3>1, <3>3 DEF Running
    <3> QED BY Zenon, <1>1, <1>3, <3>4
  <2>6. /\ Lively(p') /\ Flash(calls', running', hint') /\ hint' \in Hints
        /\ ~crossed' => Len(p'.waiting) <= 1 /\ Screens(calls', running', p', hint')
        /\ pc' # "call" => running' = NULL
        /\ p'.waiting # <<>> => pc' = "idle"
    BY Zenon, <1>1, <1>3 DEF Inv
  <2> QED BY ZenonT(20), <1>3, <2>4, <2>5, <2>6 DEF Inv
<1>k. /\ clock \in Nat /\ now \in Nat /\ now <= clock /\ clock <= clock
      /\ p.waiting # <<>> => pc = "idle"
  <2>1. clock \in Nat /\ now \in Nat /\ now <= clock /\ (p.waiting # <<>> => pc = "idle")
    BY Zenon DEF Inv
  <2> QED BY <2>1
<1>4. CASE Begin /\ Idle
  <2>1. /\ pc = "idle" /\ now' = clock /\ pc' = "run" /\ p.waiting = <<>>
        /\ UNCHANGED <<clock, calls, running>>
    BY Zenon, <1>4 DEF Begin, Idle
  <2>2. NoUnderflow'
    BY Zenon, <2>1 DEF NoUnderflow
  <2>3. now' <= clock' /\ clock' \in Nat /\ now' \in Nat /\ clock <= clock'
    BY <1>k, <2>1
  <2> QED BY Zenon, <1>3, <2>1, <2>2, <2>3
<1>5. CASE Select
  <2>1. /\ pc = "run" /\ pc' = "select" /\ ~Due(calls, now) /\ timeout' = SelectTimeout(calls)
        /\ UNCHANGED <<clock, calls, now, running>>
    BY Zenon, <1>5 DEF Select
  <2>2. NoUnderflow'
    <3> SUFFICES ASSUME timeout' # NULL PROVE timeout' > 0
      BY Zenon DEF NoUnderflow
    <3>1. calls # <<>> /\ timeout' = calls[1].time - now /\ ~(calls[1].time <= now)
      BY Zenon, <2>1 DEF SelectTimeout, Due
    <3>2. calls \in Seq(Scheduled)
      BY InvCalls
    <3>3. calls[1] \in Scheduled
      BY Zenon, <3>1, <3>2, TailIs
    <3>4. calls[1].time \in Int /\ now \in Nat
      BY ZenonT(30), <3>3, CallType DEF Inv
    <3> QED BY <3>1, <3>4
  <2>3. now' <= clock' /\ clock' \in Nat /\ now' \in Nat /\ clock <= clock'
    BY Zenon, <1>k, <2>1
  <2>4. (pc' = "call" <=> pc = "call") /\ (p.waiting # <<>> => pc' = "idle")
    BY Zenon, <1>k, <2>1
  <2> QED BY Zenon, <1>3, <2>1, <2>2, <2>3, <2>4
<1>6. CASE Wake
  <2>1. /\ pc = "select" /\ pc' = "idle" /\ timeout' = NULL
        /\ UNCHANGED <<clock, calls, now, running>>
    BY Zenon, <1>6 DEF Wake
  <2>2. NoUnderflow'
    BY Zenon, <2>1 DEF NoUnderflow
  <2>3. now' <= clock' /\ clock' \in Nat /\ now' \in Nat /\ clock <= clock'
    BY <1>k, <2>1
  <2>4. pc' = "call" <=> pc = "call"
    BY <2>1
  <2> QED BY Zenon, <1>3, <2>1, <2>2, <2>3, <2>4
<1>7. CASE Tick
  <2>1. clock' = clock + 1 /\ UNCHANGED <<calls, pc, now, running, timeout>>
    BY <1>7 DEF Tick
  <2>2. NoUnderflow'
    BY Zenon, <2>1 DEF NoUnderflow, Inv
  <2>3. now' <= clock' /\ clock' \in Nat /\ now' \in Nat /\ clock <= clock'
    BY <1>k, <2>1
  <2>4. (pc' = "call" <=> pc = "call") /\ (p.waiting # <<>> => pc' = "idle")
    BY Zenon, <1>k, <2>1
  <2> QED BY Zenon, <1>3, <2>1, <2>2, <2>3, <2>4
<1> QED BY <1>2, <1>4, <1>5, <1>6, <1>7 DEF Pass, Loop

LEMMA Invariance == Spec => []Inv
<1>1. Inv /\ [Next]_vars => Inv'
  <2> SUFFICES ASSUME Inv, [Next]_vars PROVE Inv'
    BY Zenon
  <2>1. CASE \E n \in Nodes, waits \in BOOLEAN : FocusNode(n, waits)
    BY Zenon, <2>1, FocusNodeInv
  <2>2. CASE FocusWaited
    BY <2>2, FocusWaitedInv
  <2>3. CASE \E r \in Remotes : ReceiveReady(r) \/ ChannelFails(r)
    BY Zenon, <2>3, ReceiveReadyInv, ChannelFailsInv
  <2>4. CASE SetBrightnessCb
    BY Zenon, <2>4, SetBrightnessInv
  <2>5. CASE ReconnectRemoteCb
    BY <2>5, ReconnectInv
  <2>6. CASE Pass
    BY <2>6, PassInv
  <2>7. CASE UNCHANGED vars
    BY Zenon, <2>7 DEF vars, timers, Inv, State, NoUnderflow
  <2> QED BY SMTT(30), <2>1, <2>2, <2>3, <2>4, <2>5, <2>6, <2>7 DEF Next
<1> QED BY InitInv, <1>1, PTL DEF Spec

-----------------------------------------------------------------------------
\* No call runs before its time or before one that precedes it, although the
\* functions called insert new ones (schedule_call, run_scheduled_calls).
THEOREM CallsInOrder == Spec => []RunsInOrder
<1>1. Inv => RunsInOrder
  <2> SUFFICES ASSUME Inv, running # NULL
               PROVE  running.time <= clock /\ \A i \in DOMAIN calls : Before(running, calls[i])
    BY Zenon, SMTT(30) DEF RunsInOrder
  <2>1. Running(running, calls, p, clock)
    BY ZenonT(30) DEF Inv
  <2>2. DOMAIN calls = 1..Len(calls)
    BY InvCalls
  <2> QED BY Zenon, <2>1, <2>2 DEF Running
<1> QED BY <1>1, Invariance, PTL

\* The time-out of select() is positive, so that the unsigned difference does
\* not wrap (get_select_timeout).
THEOREM TimeoutPositive == Spec => []NoUnderflow
<1>1. Inv => NoUnderflow
  BY Zenon DEF Inv
<1> QED BY <1>1, Invariance, PTL

\* Whatever transitions overlap, for any number of remotes, steps and switches,
\* the screens settle as configured (transition_brightness, indicate_switch,
\* set_brightness_cb, handle_message, schedule_call).
THEOREM Settling == Spec => []ScreensSettle
<1>1. Inv => ScreensSettle
  <2> SUFFICES ASSUME Inv, ~crossed, NEW n \in Nodes, Live(p, n)
               PROVE  Settled(n) = IF hint.type = "flash_active" \/ n = FocusOf(p)
                                   THEN Full ELSE Dim
    BY Zenon, SMTT(30) DEF ScreensSettle, Live, FocusOf
  <2>1. DOMAIN calls = 1..Len(calls)
    BY Zenon, InvCalls
  <2>2. Settled(n) = Level(calls, running, n, p.shown[n])
    BY Zenon, <2>1 DEF Settled, Level, Final, IsStep
  <2> QED BY Zenon, <2>2 DEF Inv, Screens
<1> QED BY <1>1, Invariance, PTL
=============================================================================
