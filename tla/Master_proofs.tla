---------------------------- MODULE Master_proofs ----------------------------
(***************************************************************************)
(* Proofs about Master.  Each operator that models a C function has its    *)
(* lemma "the invariant holds after it if it held before", in the order in *)
(* which the functions call one another; the lemma on the next-state       *)
(* relation combines them.  The middle of a transition of remote r, where  *)
(* state, timer and channel of r do not match yet, is described by         *)
(* Others(s, r): the invariant for all remotes but r.                      *)
(***************************************************************************)
EXTENDS Master, TLAPS

\* The choices of the outside world are in range.
LEMMA EnvType ==
  ASSUME NEW e \in Env
  PROVE  /\ e.malloc \in Allocators
         /\ e.malloc \in [SUBSET Addr -> Addr]
         /\ e.hit \in Nodes \cup {None}
         /\ e.grabok \in BOOLEAN
  BY Zenon, MasterAssumption DEF Env

\* s with a call for r scheduled at address a.
WithCall(s, a, r) == [s EXCEPT !.calls[a] = r, !.timer[r] = a]

\* schedule_call either takes a free address or finds none.
LEMMA ScheduleCases ==
  ASSUME NEW s \in MasterState, NEW e \in Env, NEW r \in Remotes
  PROVE  \/ ScheduleReconnect(s, e, r) = Abort(s)
         \/ \E a \in Addr :
              /\ s.calls[a] = None
              /\ ScheduleReconnect(s, e, r) = WithCall(s, a, r)
<1> DEFINE used == {a \in Addr : s.calls[a] # None}
           a == e.malloc[used]
<1>1. used \in SUBSET Addr
  BY Zenon
<1>2. a \in Addr /\ (used # Addr => a \notin used)
  <2> HIDE DEF used
  <2> QED  BY <1>1, EnvType, MasterAssumption
<1>3. ScheduleReconnect(s, e, r)
        = IF used = Addr THEN Abort(s)
          ELSE WithCall(s, a, r)
  BY Zenon DEF ScheduleReconnect, WithCall
<1>4. used # Addr => s.calls[a] = None
  BY Zenon, <1>2
<1> HIDE DEF a, used
<1>5. CASE used = Addr
  BY Zenon, <1>3, <1>5
<1>6. CASE used # Addr
  <2>1. ScheduleReconnect(s, e, r) = WithCall(s, a, r)
    BY Zenon, <1>3, <1>6
  <2> QED  BY Zenon, <1>2, <1>4, <1>6, <2>1
<1> QED  BY Zenon, <1>5, <1>6

(***************************************************************************)
(* The inductive invariant, over an arbitrary process state s.             *)
(***************************************************************************)
IsLive(s, r) == s.state[r] \in {"SETTINGUP", "CONNECTED"}

ConnOK(s) ==
  \A r \in Remotes : /\ s.chan[r] <=> IsLive(s, r)
                     /\ s.procs[r] = IF IsLive(s, r) THEN 1 ELSE 0

CallsOK(s) ==
  \A a \in Addr : s.calls[a] # None =>
    s.state[s.calls[a]] = "FAILED" /\ s.timer[s.calls[a]] = a

FailedOK(s, r) ==
  s.state[r] = "FAILED" =>
    s.timer[r] # None /\ (r \in s.robbed \/ s.calls[s.timer[r]] = r)

TriesOK(s, r) ==
  /\ s.state[r] \in {"SETTINGUP", "FAILED"} => s.failcount[r] <= MaxTries
  /\ s.state[r] = "CONNECTED" => s.failcount[r] = 0

Base(s) ==
  /\ s \in MasterState /\ s.status # "exited"
  /\ ConnOK(s)
  /\ s.status = "running" =>
       CallsOK(s) /\ \A r \in Remotes : FailedOK(s, r) /\ TriesOK(s, r)

(***************************************************************************)
(* What each operator does to the fields that the invariant reads.         *)
(***************************************************************************)
\* t differs from s at most in fields that Base does not read.
SameConn(s, t) ==
  /\ t \in MasterState
  /\ t.state = s.state /\ t.failcount = s.failcount /\ t.chan = s.chan
  /\ t.procs = s.procs /\ t.timer = s.timer /\ t.calls = s.calls
  /\ t.robbed = s.robbed /\ t.status \in {s.status, "aborted"}

\* A change of the fields that Base does not read preserves it.
LEMMA SameConnBase ==
  ASSUME NEW s, NEW t, Base(s), SameConn(s, t)
  PROVE  Base(t)
  BY DEF Base, SameConn, ConnOK, IsLive, CallsOK, FailedOK, TriesOK

\* focus_master leaves connections, timers and queues alone.
LEMMA FocusMasterEffect ==
  ASSUME NEW s \in MasterState
  PROVE  /\ SameConn(s, FocusMaster(s))
         /\ FocusMaster(s).status = s.status
         /\ FocusMaster(s).queued = s.queued
<1> DEFINE t == FocusMaster(s)
           f == IF FocusHint = "none" THEN s.fades[MasterNode]
                ELSE s.fades[MasterNode] + FadeSteps
<1>1. MasterNode \in Nodes /\ f \in Nat
  BY MasterAssumption DEF MasterState, Nodes
<1>2. t = [s EXCEPT !.grab = "none", !.last = s.focused, !.focused = MasterNode,
                    !.fades = [s.fades EXCEPT ![MasterNode] = f],
                    !.torn = FALSE, !.disturbed = TRUE]
  BY Zenon DEF FocusMaster
<1> HIDE DEF f, t
<1>3. t \in MasterState
  BY Zenon, <1>1, <1>2 DEF MasterState
<1> QED  BY SMTT(30), <1>2, <1>3 DEF SameConn, t, MasterState

\* t is s with the channel of r closed, its queue emptied and its child reaped.
Closes(s, t, r) ==
  /\ t.chan = [s.chan EXCEPT ![r] = FALSE]
  /\ t.procs = [s.procs EXCEPT ![r] = s.procs[r] - 1]
  /\ t.queued = [s.queued EXCEPT ![r] = 0]
  /\ t.state = s.state /\ t.failcount = s.failcount /\ t.timer = s.timer
  /\ t.calls = s.calls /\ t.robbed = s.robbed /\ t.status = s.status

\* disconnect_remote on a live connection closes it and does no more.
LEMMA DisconnectEffect ==
  ASSUME NEW s \in MasterState, NEW r \in Remotes
  PROVE  /\ DisconnectRemote(s, r) \in MasterState
         /\ ~s.chan[r] => DisconnectRemote(s, r) = Abort(s)
         /\ s.chan[r] => Closes(s, DisconnectRemote(s, r), r)
<1> DEFINE u == [s EXCEPT !.chan[r] = FALSE, !.queued[r] = 0, !.procs[r] = @ - 1]
           t == DisconnectRemote(s, r)
<1>1. Abort(s) \in MasterState
  BY Zenon DEF Abort, MasterState
<1>2. u \in MasterState /\ Closes(s, u, r)
  <2>1. s.procs[r] - 1 \in Int
    BY DEF MasterState
  <2>2. u = [s EXCEPT !.chan[r] = FALSE, !.queued[r] = 0, !.procs[r] = s.procs[r] - 1]
    BY Zenon DEF MasterState
  <2> HIDE DEF u
  <2>3. u \in MasterState
    BY Zenon, <2>1, <2>2 DEF MasterState
  <2>4. Closes(s, u, r)
    BY Zenon, <2>2 DEF Closes, MasterState
  <2> QED  BY Zenon, <2>3, <2>4
<1>4. t = IF ~s.chan[r] THEN Abort(s) ELSE IF s.focused = r THEN FocusMaster(u) ELSE u
  BY Zenon DEF DisconnectRemote
<1> HIDE DEF u, t
<1>5. /\ SameConn(u, FocusMaster(u)) /\ FocusMaster(u).status = u.status
      /\ FocusMaster(u).queued = u.queued
  BY Zenon, <1>2, FocusMasterEffect
<1>6. Closes(s, FocusMaster(u), r) /\ FocusMaster(u) \in MasterState
  BY Zenon, <1>2, <1>5 DEF SameConn, Closes
<1> QED  BY Zenon, <1>1, <1>2, <1>4, <1>6 DEF t

\* FailRemote preserves the invariant, empties the queue of r, and leaves the
\* other queues alone.
LEMMA FailBase ==
  ASSUME NEW s, NEW e \in Env, NEW r \in Remotes, Base(s)
  PROVE  LET t == FailRemote(s, e, r)
         IN /\ Base(t)
            /\ t.status = "running" => /\ s.status = "running"
                                       /\ t.queued = [s.queued EXCEPT ![r] = 0]
<1> DEFINE d == DisconnectRemote(s, r)
           n == d.failcount[r] + 1
           p == [d EXCEPT !.failcount[r] = n, !.state[r] = "PERMFAILED"]
           q == [d EXCEPT !.failcount[r] = n, !.state[r] = "FAILED"]
           t == FailRemote(s, e, r)
<1>1. s \in MasterState
  BY Zenon DEF Base
<1>2. /\ d \in MasterState
      /\ ~s.chan[r] => d = Abort(s)
      /\ s.chan[r] => Closes(s, d, r)
  BY Zenon, <1>1, DisconnectEffect
<1>4. t = IF n > MaxTries THEN p ELSE ScheduleReconnect(q, e, r)
  BY Zenon DEF FailRemote
<1> HIDE DEF d
<1>5. n \in Nat
  BY <1>2 DEF MasterState
<1>6. n = d.failcount[r] + 1
  BY Zenon
<1> HIDE DEF n
<1>7. p \in MasterState /\ q \in MasterState
  BY Zenon, <1>2, <1>5 DEF MasterState, ConnStates
<1>8. /\ p.chan = d.chan /\ p.procs = d.procs /\ p.queued = d.queued
      /\ p.failcount = [d.failcount EXCEPT ![r] = n]
      /\ p.state = [d.state EXCEPT ![r] = "PERMFAILED"]
      /\ p.timer = d.timer /\ p.calls = d.calls
      /\ p.robbed = d.robbed /\ p.status = d.status
  BY Zenon, <1>2 DEF MasterState
<1>9. /\ q.chan = d.chan /\ q.procs = d.procs /\ q.queued = d.queued
      /\ q.failcount = [d.failcount EXCEPT ![r] = n]
      /\ q.state = [d.state EXCEPT ![r] = "FAILED"]
      /\ q.timer = d.timer /\ q.calls = d.calls
      /\ q.robbed = d.robbed /\ q.status = d.status
  BY Zenon, <1>2 DEF MasterState
<1>10. ~s.chan[r] => /\ d.chan = s.chan /\ d.procs = s.procs
                     /\ d.state = s.state /\ d.status = "aborted"
  BY Zenon, <1>1, <1>2 DEF Abort, MasterState
<1> HIDE DEF p, q, t
<1>11. ConnOK(p) /\ ConnOK(q)
  <2>1. d.state = s.state /\ s.state \in [Remotes -> ConnStates]
    BY Zenon, <1>1, <1>2, <1>10 DEF Closes, MasterState
  <2>2. s.chan \in [Remotes -> BOOLEAN] /\ s.procs \in [Remotes -> Int]
    BY Zenon, <1>1 DEF MasterState
  <2>3. ConnOK(s)
    BY Zenon DEF Base
  <2>4. CASE s.chan[r]
    BY <1>2, <1>8, <1>9, <2>1, <2>2, <2>3, <2>4 DEF ConnOK, IsLive, Closes
  <2>5. CASE ~s.chan[r]
    BY <1>8, <1>9, <1>10, <2>1, <2>2, <2>3, <2>5 DEF ConnOK, IsLive
  <2> QED  BY Zenon, <2>4, <2>5
<1>12. ASSUME d.status = "running"
       PROVE  /\ s.chan[r] /\ Closes(s, d, r) /\ s.status = "running"
              /\ \A a \in Addr : s.calls[a] # r
  <2>1. s.chan[r] /\ Closes(s, d, r) /\ s.status = "running"
    BY Zenon, <1>2, <1>10, <1>12 DEF Closes
  <2>2. s.state[r] # "FAILED" /\ CallsOK(s)
    BY Zenon, <2>1 DEF Base, ConnOK, IsLive
  <2>3. \A a \in Addr : s.calls[a] # r
    BY <2>2, MasterAssumption DEF CallsOK
  <2> QED  BY Zenon, <2>1, <2>3
<1>13. d.status # "exited"
  BY Zenon, <1>2, <1>10 DEF Base, Closes
<1> HIDE DEF p, q
<1>14. CASE n > MaxTries
  <2>1. t = p
    BY Zenon, <1>4, <1>14
  <2>2. ASSUME p.status = "running"
        PROVE  CallsOK(p) /\ \A x \in Remotes : FailedOK(p, x) /\ TriesOK(p, x)
    <3>1. /\ Closes(s, d, r) /\ CallsOK(s) /\ \A a \in Addr : s.calls[a] # r
          /\ \A x \in Remotes : FailedOK(s, x) /\ TriesOK(s, x)
      BY Zenon, <1>8, <1>12, <2>2 DEF Base
    <3>2. /\ s.state \in [Remotes -> ConnStates] /\ s.failcount \in [Remotes -> Nat]
          /\ s.calls \in [Addr -> Remotes \cup {None}]
      BY Zenon, <1>1 DEF MasterState
    <3>3. CallsOK(p)
      BY <1>8, <3>1, <3>2 DEF Closes, CallsOK
    <3>4. \A x \in Remotes : FailedOK(p, x) /\ TriesOK(p, x)
      BY <1>8, <3>1, <3>2 DEF Closes, FailedOK, TriesOK
    <3> QED  BY Zenon, <3>3, <3>4
  <2>3. Base(p)
    BY Zenon, <1>7, <1>8, <1>11, <1>13, <2>2 DEF Base
  <2> QED  BY Zenon, <1>8, <1>12, <2>1, <2>3 DEF Closes, t
<1>15. CASE ~(n > MaxTries)
  <2>1. t = ScheduleReconnect(q, e, r)
    BY Zenon, <1>4, <1>15
  <2>2. CASE t = Abort(q)
    <3>1. t \in MasterState /\ t.status = "aborted" /\ SameConn(q, t)
      BY Zenon, <1>7, <2>2 DEF Abort, MasterState, SameConn
    <3>2. ConnOK(t)
      BY <1>11, <3>1 DEF SameConn, ConnOK, IsLive
    <3> QED  BY Zenon, <3>1, <3>2 DEF Base, t
  <2>3. ASSUME NEW a \in Addr, q.calls[a] = None,
               t = WithCall(q, a, r)
        PROVE  /\ Base(t)
               /\ t.status = "running" => /\ s.status = "running"
                                          /\ t.queued = [s.queued EXCEPT ![r] = 0]
    <3>1. t \in MasterState
      BY ZenonT(30), <1>7, <2>3 DEF WithCall, MasterState
    <3>2. /\ t.calls = [q.calls EXCEPT ![a] = r] /\ t.timer = [q.timer EXCEPT ![r] = a]
          /\ t.chan = q.chan /\ t.procs = q.procs /\ t.queued = q.queued
          /\ t.failcount = q.failcount /\ t.state = q.state
          /\ t.robbed = q.robbed /\ t.status = q.status
      BY Zenon, <1>7, <2>3 DEF WithCall, MasterState
    <3>3. ConnOK(t)
      BY <1>11, <3>2 DEF ConnOK, IsLive
    <3>4. ASSUME t.status = "running"
          PROVE  CallsOK(t) /\ \A x \in Remotes : FailedOK(t, x) /\ TriesOK(t, x)
      <4>1. /\ Closes(s, d, r) /\ CallsOK(s) /\ \A b \in Addr : s.calls[b] # r
            /\ \A x \in Remotes : FailedOK(s, x) /\ TriesOK(s, x)
        BY Zenon, <1>9, <1>12, <3>2, <3>4 DEF Base
      <4>2. /\ s.state \in [Remotes -> ConnStates] /\ s.failcount \in [Remotes -> Nat]
            /\ s.calls \in [Addr -> Remotes \cup {None}]
            /\ s.timer \in [Remotes -> Addr \cup {None}]
        BY Zenon, <1>1 DEF MasterState
      <4>3. CallsOK(t)
        BY <1>9, <2>3, <3>2, <4>1, <4>2 DEF Closes, CallsOK
      <4>4. \A x \in Remotes : FailedOK(t, x)
        BY <1>9, <2>3, <3>2, <4>1, <4>2, MasterAssumption DEF Closes, FailedOK
      <4>5. \A x \in Remotes : TriesOK(t, x)
        BY <1>5, <1>9, <1>15, <3>2, <4>1, <4>2, MasterAssumption DEF Closes, TriesOK
      <4> QED  BY Zenon, <4>3, <4>4, <4>5
    <3>5. Base(t)
      BY Zenon, <1>9, <1>13, <3>1, <3>2, <3>3, <3>4 DEF Base
    <3> QED  BY Zenon, <1>9, <1>12, <3>2, <3>5 DEF Closes
  <2>4. \/ t = Abort(q)
        \/ \E a \in Addr : q.calls[a] = None /\ t = WithCall(q, a, r)
    BY Zenon, <1>7, <2>1, ScheduleCases
  <2> QED  BY Zenon, <2>2, <2>3, <2>4 DEF t
<1> QED  BY Zenon, <1>14, <1>15

Inv(s) ==
  /\ Base(s)
  /\ s.status = "running" => \A r \in Remotes : s.queued[r] <= MaxBacklog

\* A change of the fields that Inv does not read preserves it.
LEMMA SameInv ==
  ASSUME NEW s, NEW t, Inv(s), SameConn(s, t), t.queued = s.queued
  PROVE  Inv(t)
  BY Zenon, SameConnBase DEF Inv, SameConn

\* mc_enqueue_message changes the length of one queue.
LEMMA QueueEffect ==
  ASSUME NEW s \in MasterState, NEW r \in Remotes, NEW k \in Int,
         s.queued[r] + k \in Nat
  PROVE  /\ SameConn(s, Queue(s, r, k))
         /\ Queue(s, r, k).status = s.status
         /\ Queue(s, r, k).queued = [s.queued EXCEPT ![r] = s.queued[r] + k]
<1> DEFINE b == s.misused \/ (k > 0 /\ ~s.chan[r])
           t == Queue(s, r, k)
<1>1. b \in BOOLEAN
  BY Zenon DEF MasterState
<1>2. t = [s EXCEPT !.queued[r] = s.queued[r] + k, !.misused = b]
  BY Zenon DEF Queue, MasterState
<1> HIDE DEF b, t
<1>3. t \in MasterState
  BY Zenon, <1>1, <1>2 DEF MasterState
<1> QED  BY Zenon, <1>2, <1>3 DEF SameConn, t, MasterState

\* fail_remote re-establishes the bound on the queue that overflowed.
LEMMA FailInv ==
  ASSUME NEW s, NEW e \in Env, NEW r \in Remotes, Inv(s)
  PROVE  Inv(FailRemote(s, e, r))
<1> DEFINE t == FailRemote(s, e, r)
<1>1. /\ Base(t)
      /\ t.status = "running" => /\ s.status = "running"
                                 /\ t.queued = [s.queued EXCEPT ![r] = 0]
  BY Zenon, FailBase DEF Inv
<1>2. s.queued \in [Remotes -> Nat] /\ MaxBacklog \in Nat
  BY Zenon, MasterAssumption DEF Inv, Base, MasterState
<1> HIDE DEF t
<1> QED  BY <1>1, <1>2 DEF Inv, t

\* enqueue_message preserves the invariant, in whatever state the remote is.
LEMMA EnqueueInv ==
  ASSUME NEW s, NEW e \in Env, NEW r \in Remotes, NEW k \in Nat, Inv(s)
  PROVE  Inv(Enqueue(s, e, r, k))
<1> DEFINE room == MaxBacklog - s.queued[r]
           u == Queue(s, r, room + 1)
           f == FailRemote(u, e, r)
           rest == k - (room + 1)
           t == Enqueue(s, e, r, k)
<1>1. s \in MasterState /\ s.queued \in [Remotes -> Nat] /\ Base(s)
  BY Zenon, SMTT(30) DEF Inv, Base, MasterState
<1>2. MaxBacklog \in Nat
  BY Zenon, MasterAssumption
<1>3. room \in Int /\ rest \in Int /\ s.queued[r] + room + 1 = MaxBacklog + 1
  BY <1>1, <1>2
<1>4. t = IF k <= room THEN Queue(s, r, k)
          ELSE IF rest <= MaxBacklog THEN Queue(f, r, rest)
          ELSE Abort(Queue(f, r, rest))
  BY Zenon DEF Enqueue
<1>5. CASE k <= room
  <2>1. /\ SameConn(s, t) /\ t.status = s.status
        /\ t.queued = [s.queued EXCEPT ![r] = s.queued[r] + k]
    BY <1>1, <1>4, <1>5, QueueEffect
  <2>2. Base(t)
    BY Zenon, <1>1, <2>1, SameConnBase
  <2> QED  BY <1>1, <1>2, <1>5, <2>1, <2>2 DEF Inv
<1>6. CASE ~(k <= room)
  <2>1. rest \in Nat
    BY <1>3, <1>6
  <2>2. /\ SameConn(s, u) /\ u.status = s.status
        /\ u.queued = [s.queued EXCEPT ![r] = MaxBacklog + 1]
    BY SMTT(30), <1>1, <1>2, <1>3, QueueEffect
  <2>3. Base(u)
    BY Zenon, <1>1, <2>2, SameConnBase
  <2> HIDE DEF u
  <2>4. /\ Base(f)
        /\ f.status = "running" => /\ u.status = "running"
                                   /\ f.queued = [u.queued EXCEPT ![r] = 0]
    BY Zenon, <2>3, FailBase
  <2>5. f \in MasterState /\ f.queued \in [Remotes -> Nat]
    BY Zenon, <2>4 DEF Base, MasterState
  <2> HIDE DEF f, rest
  <2> DEFINE g == Queue(f, r, rest)
  <2>6. /\ SameConn(f, g) /\ g.status = f.status
        /\ g.queued = [f.queued EXCEPT ![r] = f.queued[r] + rest]
    BY <2>1, <2>5, QueueEffect
  <2>7. Base(g)
    BY Zenon, <2>4, <2>6, SameConnBase
  <2> HIDE DEF g
  <2>8. CASE rest <= MaxBacklog
    <3>1. t = g
      BY Zenon, <1>4, <1>6, <2>8 DEF g
    <3>2. ASSUME g.status = "running", NEW x \in Remotes
          PROVE  g.queued[x] <= MaxBacklog
      BY <1>1, <1>2, <2>1, <2>2, <2>4, <2>6, <2>8, <3>2 DEF Inv
    <3> QED  BY Zenon, <2>7, <3>1, <3>2 DEF Inv
  <2>9. CASE ~(rest <= MaxBacklog)
    <3>1. t = Abort(g)
      BY Zenon, <1>4, <1>6, <2>9 DEF g
    <3>2. SameConn(g, t) /\ t.status = "aborted"
      BY ZenonT(30), <2>7, <3>1 DEF Abort, SameConn, MasterState, Base
    <3> QED  BY Zenon, <2>7, <3>2, SameConnBase DEF Inv
  <2> QED  BY Zenon, <2>8, <2>9
<1> QED  BY Zenon, <1>5, <1>6

\* CancelCall leaves no call of r behind, and takes a call away from another
\* remote only by making it robbed.
LEMMA CancelEffect ==
  ASSUME NEW s \in MasterState, NEW e \in Env, NEW r \in Remotes,
         s.timer[r] # None
  PROVE  LET c == CancelCall(s, e, r)
         IN /\ c \in MasterState
            /\ c.state = s.state /\ c.failcount = s.failcount /\ c.chan = s.chan
            /\ c.procs = s.procs /\ c.queued = s.queued /\ c.timer = s.timer
            /\ c.status = s.status
            /\ CallsOK(s) => CallsOK(c) /\ \A a \in Addr : c.calls[a] # r
            /\ \A x \in Remotes \ {r} : FailedOK(s, x) => FailedOK(c, x)
<1> DEFINE h == s.timer[r]
           q == s.calls[h]
           b == IF q = r THEN s.robbed ELSE s.robbed \cup {q}
           f == IF s.fades[e.hit] = 0 THEN 0 ELSE s.fades[e.hit] - 1
           c == CancelCall(s, e, r)
<1>1. h \in Addr /\ q \in Remotes \cup {None}
  BY Zenon DEF MasterState
<1>2. c = IF q # None THEN [s EXCEPT !.calls[h] = None, !.robbed = b]
          ELSE IF e.hit # None THEN [s EXCEPT !.fades[e.hit] = f]
          ELSE s
  BY Zenon DEF CancelCall, MasterState
<1>3. q # None => b \in SUBSET Remotes
  BY Zenon, <1>1 DEF MasterState
<1>4. e.hit # None => e.hit \in Nodes /\ f \in Nat
  BY EnvType DEF MasterState
<1>5. CASE q # None
  <2>1. c = [s EXCEPT !.calls[h] = None, !.robbed = b]
    BY Zenon, <1>2, <1>5
  <2>a. \A x \in Remotes : /\ x \in s.robbed => x \in b
                           /\ x = q /\ x # r => x \in b
    BY Zenon
  <2>b. q = s.calls[h]
    BY Zenon
  <2>c. h = s.timer[r]
    BY Zenon
  <2> HIDE DEF b, h, q, c
  <2>2. c \in MasterState
    BY Zenon, <1>1, <1>3, <1>5, <2>1 DEF MasterState
  <2>3. /\ c.state = s.state /\ c.failcount = s.failcount /\ c.chan = s.chan
        /\ c.procs = s.procs /\ c.queued = s.queued /\ c.timer = s.timer
        /\ c.status = s.status /\ c.calls = [s.calls EXCEPT ![h] = None]
        /\ c.robbed = b
    BY Zenon, <2>1 DEF MasterState
  <2>4. s.calls \in [Addr -> Remotes \cup {None}]
    BY Zenon DEF MasterState
  <2>5. ASSUME CallsOK(s)
        PROVE  CallsOK(c) /\ \A a \in Addr : c.calls[a] # r
    BY <1>1, <2>c, <2>3, <2>4, <2>5, MasterAssumption DEF CallsOK
  <2>6. \A x \in Remotes \ {r} : FailedOK(s, x) => FailedOK(c, x)
    BY <1>1, <2>a, <2>b, <2>3, <2>4 DEF FailedOK
  <2> QED  BY Zenon, <2>2, <2>3, <2>5, <2>6 DEF c
<1>6. CASE q = None
  <2>1. c = IF e.hit # None THEN [s EXCEPT !.fades[e.hit] = f] ELSE s
    BY Zenon, <1>2, <1>6
  <2>2. s.calls[s.timer[r]] = None
    BY Zenon, <1>6
  <2> HIDE DEF b, f, h, q, c
  <2>3. /\ c \in MasterState
        /\ c.state = s.state /\ c.failcount = s.failcount /\ c.chan = s.chan
        /\ c.procs = s.procs /\ c.queued = s.queued /\ c.timer = s.timer
        /\ c.status = s.status /\ c.calls = s.calls /\ c.robbed = s.robbed
    <3>1. CASE e.hit = None
      BY Zenon, <2>1, <3>1
    <3>2. CASE e.hit # None
      BY Zenon, <1>4, <2>1, <3>2 DEF MasterState
    <3> QED  BY Zenon, <3>1, <3>2
  <2>4. ASSUME CallsOK(s)
        PROVE  CallsOK(c) /\ \A a \in Addr : c.calls[a] # r
    BY <2>2, <2>3, <2>4, MasterAssumption DEF CallsOK
  <2>5. \A x \in Remotes \ {r} : FailedOK(s, x) => FailedOK(c, x)
    BY Zenon, <2>3 DEF FailedOK
  <2> QED  BY Zenon, <2>3, <2>4, <2>5 DEF c
<1> QED  BY Zenon, <1>5, <1>6

\* The invariant for every remote but r, which has no call pending: what holds
\* while r is taken from one connection state to another.
Others(s, r) ==
  /\ s \in MasterState /\ s.status # "exited"
  /\ \A x \in Remotes \ {r} : /\ s.chan[x] <=> IsLive(s, x)
                              /\ s.procs[x] = IF IsLive(s, x) THEN 1 ELSE 0
  /\ s.status = "running" =>
       /\ CallsOK(s) /\ \A a \in Addr : s.calls[a] # r
       /\ \A x \in Remotes \ {r} : /\ FailedOK(s, x) /\ TriesOK(s, x)
                                   /\ s.queued[x] <= MaxBacklog

\* After cancel_call the invariant holds for all remotes but r.
LEMMA CancelOthers ==
  ASSUME NEW s, Inv(s), NEW e \in Env, NEW r \in Remotes
  PROVE  LET c == IF s.timer[r] # None THEN CancelCall(s, e, r) ELSE s
         IN /\ Others(c, r)
            /\ c.state = s.state /\ c.failcount = s.failcount /\ c.chan = s.chan
            /\ c.procs = s.procs /\ c.queued = s.queued /\ c.status = s.status
<1>1. s \in MasterState /\ s.status # "exited" /\ ConnOK(s)
  BY Zenon DEF Inv, Base
<1>2. s.status = "running" =>
         /\ CallsOK(s)
         /\ \A x \in Remotes : FailedOK(s, x) /\ TriesOK(s, x) /\ s.queued[x] <= MaxBacklog
  BY Zenon DEF Inv, Base
<1>3. CASE s.timer[r] # None
  <2> DEFINE c == CancelCall(s, e, r)
  <2>1. /\ c \in MasterState
        /\ c.state = s.state /\ c.failcount = s.failcount /\ c.chan = s.chan
        /\ c.procs = s.procs /\ c.queued = s.queued /\ c.timer = s.timer
        /\ c.status = s.status
        /\ CallsOK(s) => CallsOK(c) /\ \A a \in Addr : c.calls[a] # r
        /\ \A x \in Remotes \ {r} : FailedOK(s, x) => FailedOK(c, x)
    BY Zenon, <1>1, <1>3, CancelEffect
  <2> HIDE DEF c
  <2>2. Others(c, r)
    BY <1>1, <1>2, <2>1 DEF Others, ConnOK, IsLive, TriesOK
  <2> QED  BY Zenon, <1>3, <2>1, <2>2 DEF c
<1>4. CASE s.timer[r] = None
  <2>1. CallsOK(s) => \A a \in Addr : s.calls[a] # r
    BY <1>4, MasterAssumption DEF CallsOK
  <2>2. Others(s, r)
    BY Zenon, <1>1, <1>2, <2>1 DEF Others, ConnOK
  <2> QED  BY Zenon, <1>4, <2>2
<1> QED  BY Zenon, <1>3, <1>4

\* After disconnect_remote the invariant holds for all remotes but r.
LEMMA DisconnectOthers ==
  ASSUME NEW s, NEW r \in Remotes, Others(s, r), s.chan[r], s.procs[r] = 1
  PROVE  LET d == DisconnectRemote(s, r)
         IN /\ Others(d, r)
            /\ ~d.chan[r] /\ d.procs[r] = 0 /\ d.queued[r] = 0
            /\ d.failcount = s.failcount /\ d.status = s.status
<1> DEFINE d == DisconnectRemote(s, r)
<1>1. s \in MasterState
  BY Zenon DEF Others
<1>2. d \in MasterState /\ Closes(s, d, r)
  BY Zenon, <1>1, DisconnectEffect
<1> HIDE DEF d
<1>3. /\ s.chan \in [Remotes -> BOOLEAN] /\ s.procs \in [Remotes -> Int]
      /\ s.queued \in [Remotes -> Nat]
  BY Zenon, <1>1 DEF MasterState
<1>4. Others(d, r)
  BY SMTT(30), <1>2, <1>3 DEF Others, Closes, IsLive, CallsOK, FailedOK, TriesOK
<1> QED  BY <1>2, <1>3, <1>4 DEF d, Closes

\* setup_remote re-establishes the invariant for r.
LEMMA SetupInv ==
  ASSUME NEW s, NEW r \in Remotes, Others(s, r), s.procs[r] = 0,
         s.failcount[r] <= MaxTries
  PROVE  Inv(SetupRemote(s, r)) /\ SetupRemote(s, r).status = s.status
<1> DEFINE t == SetupRemote(s, r)
<1>1. s \in MasterState
  BY Zenon DEF Others
<1>2. t = [s EXCEPT !.state[r] = "SETTINGUP", !.chan[r] = TRUE, !.procs[r] = 1,
                    !.queued[r] = 1, !.robbed = s.robbed \ {r}]
  BY <1>1 DEF SetupRemote, MasterState
<1> HIDE DEF t
<1>3. s.robbed \ {r} \in SUBSET Remotes
  BY Zenon, <1>1 DEF MasterState
<1>4. t \in MasterState
  <2> DEFINE b == s.robbed \ {r}
             v == [s EXCEPT !.robbed = b]
             w == [v EXCEPT !.state[r] = "SETTINGUP", !.chan[r] = TRUE]
             y == [w EXCEPT !.procs[r] = 1]
             z == [y EXCEPT !.queued[r] = 1]
  <2>1. v \in MasterState
    BY Zenon, <1>1, <1>3 DEF MasterState
  <2>2. t = z
    BY ZenonT(30), <1>1, <1>2 DEF MasterState
  <2> HIDE DEF v
  <2>3. w \in MasterState
    BY Zenon, <2>1 DEF MasterState, ConnStates
  <2> HIDE DEF w
  <2>4. y \in MasterState
    <3>1. \A i \in Int : [w EXCEPT !.procs[r] = i] \in MasterState
      BY Zenon, <2>3 DEF MasterState
    <3> QED  BY <3>1
  <2> HIDE DEF y
  <2>5. z \in MasterState
    BY Zenon, <2>4 DEF MasterState
  <2> QED  BY Zenon, <2>2, <2>5
<1>5. /\ t.state = [s.state EXCEPT ![r] = "SETTINGUP"]
      /\ t.chan = [s.chan EXCEPT ![r] = TRUE] /\ t.procs = [s.procs EXCEPT ![r] = 1]
      /\ t.queued = [s.queued EXCEPT ![r] = 1] /\ t.robbed = s.robbed \ {r}
      /\ t.failcount = s.failcount /\ t.timer = s.timer /\ t.calls = s.calls
      /\ t.status = s.status
  BY Zenon, <1>1, <1>2 DEF MasterState
<1>6. /\ s.state \in [Remotes -> ConnStates] /\ s.chan \in [Remotes -> BOOLEAN]
      /\ s.procs \in [Remotes -> Int] /\ s.queued \in [Remotes -> Nat]
      /\ s.calls \in [Addr -> Remotes \cup {None}]
  BY Zenon, <1>1 DEF MasterState
<1>7. ConnOK(t)
  BY <1>5, <1>6 DEF Others, ConnOK, IsLive
<1>8. ASSUME t.status = "running"
      PROVE  /\ CallsOK(t) /\ \A x \in Remotes : FailedOK(t, x)
             /\ \A x \in Remotes : TriesOK(t, x) /\ t.queued[x] <= MaxBacklog
  <2>1. CallsOK(t)
    BY <1>5, <1>6, <1>8 DEF Others, CallsOK
  <2>2. \A x \in Remotes : FailedOK(t, x)
    BY <1>5, <1>6, <1>8 DEF Others, FailedOK
  <2>3. \A x \in Remotes : TriesOK(t, x) /\ t.queued[x] <= MaxBacklog
    BY <1>5, <1>6, <1>8, MasterAssumption DEF Others, TriesOK
  <2> QED  BY Zenon, <2>1, <2>2, <2>3
<1>9. t.status # "exited"
  BY Zenon, <1>5 DEF Others
<1> QED  BY Zenon, <1>4, <1>5, <1>7, <1>8, <1>9 DEF t, Inv, Base

\* reconnect_remote preserves the invariant from any connection state.
LEMMA ReconnectInv ==
  ASSUME NEW s, NEW e \in Env, NEW r \in Remotes, Inv(s)
  PROVE  Inv(ReconnectRemote(s, e, r))
<1> DEFINE c == IF s.timer[r] # None THEN CancelCall(s, e, r) ELSE s
           d == IF c.state[r] = "SETTINGUP" THEN DisconnectRemote(c, r) ELSE c
           z == [d EXCEPT !.failcount[r] = 0]
<1>1. /\ Others(c, r)
      /\ c.state = s.state /\ c.failcount = s.failcount /\ c.chan = s.chan
      /\ c.procs = s.procs /\ c.queued = s.queued /\ c.status = s.status
  BY Zenon, CancelOthers
<1>2. ReconnectRemote(s, e, r) = IF s.state[r] = "CONNECTED" THEN s ELSE SetupRemote(z, r)
  BY Zenon DEF ReconnectRemote
<1>3. CASE s.state[r] = "CONNECTED"
  BY Zenon, <1>2, <1>3
<1>4. CASE s.state[r] # "CONNECTED"
  <2> HIDE DEF c
  <2>1. ConnOK(s)
    BY Zenon DEF Inv, Base
  <2>2. Others(d, r) /\ d.procs[r] = 0 /\ d.status = s.status
    <3>1. CASE c.state[r] = "SETTINGUP"
      <4>1. c.chan[r] /\ c.procs[r] = 1
        BY Zenon, <1>1, <2>1, <3>1 DEF ConnOK, IsLive
      <4> QED  BY <1>1, <3>1, <4>1, DisconnectOthers
    <3>2. CASE c.state[r] # "SETTINGUP"
      BY Zenon, <1>1, <1>4, <2>1, <3>2 DEF ConnOK, IsLive
    <3> QED  BY Zenon, <3>1, <3>2
  <2> HIDE DEF d
  <2>3. d \in MasterState
    BY Zenon, <2>2 DEF Others
  <2>4. z \in MasterState
    BY Zenon, <2>3 DEF MasterState
  <2>5. /\ z.failcount = [d.failcount EXCEPT ![r] = 0]
        /\ d.failcount \in [Remotes -> Nat]
        /\ z.state = d.state /\ z.chan = d.chan /\ z.procs = d.procs
        /\ z.queued = d.queued /\ z.timer = d.timer /\ z.calls = d.calls
        /\ z.robbed = d.robbed /\ z.status = d.status
    BY Zenon, <2>3 DEF MasterState
  <2> HIDE DEF z
  <2>6. Others(z, r)
    BY <2>2, <2>4, <2>5 DEF Others, IsLive, CallsOK, FailedOK, TriesOK
  <2>7. z.procs[r] = 0 /\ z.failcount[r] <= MaxTries
    BY <2>2, <2>5, MasterAssumption
  <2>8. Inv(SetupRemote(z, r))
    BY Zenon, <2>6, <2>7, SetupInv
  <2> QED  BY Zenon, <1>2, <1>4, <2>8
<1> QED  BY Zenon, <1>3, <1>4

\* Counting a scheduled brightness change preserves the invariant.
LEMMA FadesInv ==
  ASSUME NEW s, Inv(s), NEW n \in Nodes, NEW i \in Nat
  PROVE  Inv([s EXCEPT !.fades[n] = i])
<1>1. s \in MasterState
  BY Zenon DEF Inv, Base
<1> DEFINE t == [s EXCEPT !.fades[n] = i]
<1>2. t \in MasterState
  BY Zenon, <1>1 DEF MasterState
<1>3. SameConn(s, t) /\ t.queued = s.queued
  BY Zenon, <1>1, <1>2 DEF SameConn, MasterState
<1> HIDE DEF t
<1> QED  BY Zenon, <1>3, SameInv DEF t

\* transition_brightness preserves the invariant.
LEMMA TransitionInv ==
  ASSUME NEW s, Inv(s), NEW e \in Env, NEW n \in Nodes
  PROVE  /\ Inv(SetBrightness(s, e, n))
         /\ Inv(TransitionBrightness(s, e, n))
<1> DEFINE b == SetBrightness(s, e, n)
           i == b.fades[n] + FadeSteps
<1>1. Inv(b)
  BY Zenon, EnqueueInv DEF SetBrightness
<1>2. TransitionBrightness(s, e, n) = [b EXCEPT !.fades[n] = i]
  BY Zenon, <1>1 DEF TransitionBrightness, MasterState, Inv, Base
<1> HIDE DEF b
<1>3. i \in Nat
  BY SMTT(30), <1>1, MasterAssumption DEF Inv, Base, MasterState
<1> HIDE DEF i
<1> QED  BY <1>1, <1>2, <1>3, FadesInv DEF b

\* indicate_switch preserves the invariant.
LEMMA IndicateInv ==
  ASSUME NEW s, Inv(s), NEW e \in Env, NEW from \in Nodes, NEW to \in Nodes
  PROVE  Inv(IndicateSwitch(s, e, from, to))
<1> DEFINE u == IF from # to THEN TransitionBrightness(s, e, from) ELSE s
<1>1. Inv(u)
  BY Zenon, TransitionInv
<1> HIDE DEF u
<1>2. FocusHint \in {"none", "dim_inactive", "flash_active"}
  BY Zenon, MasterAssumption
<1>3. Inv(TransitionBrightness(u, e, to)) /\ Inv(TransitionBrightness(s, e, to))
  BY Zenon, <1>1, TransitionInv
<1>4. \/ IndicateSwitch(s, e, from, to) = s
      \/ IndicateSwitch(s, e, from, to) = TransitionBrightness(s, e, to)
      \/ IndicateSwitch(s, e, from, to) = TransitionBrightness(u, e, to)
  BY Zenon, <1>2 DEF IndicateSwitch, u
<1> QED  BY Zenon, <1>3, <1>4

\* grab_inputs and ungrab_inputs preserve the invariant.
LEMMA RegrabInv ==
  ASSUME NEW s, Inv(s), NEW e \in Env, NEW from \in Nodes, NEW to \in Nodes
  PROVE  Inv(Regrab(s, e, from, to))
<1> DEFINE g == IF to = MasterNode THEN "none"
                ELSE IF from # MasterNode THEN s.grab
                ELSE IF e.grabok THEN "held" ELSE "refused"
           t == Regrab(s, e, from, to)
<1>1. s \in MasterState
  BY Zenon DEF Inv, Base
<1>2. g \in {"none", "held", "refused"}
  BY Zenon, <1>1 DEF MasterState
<1>3. t = [s EXCEPT !.grab = g]
  BY Zenon, <1>1 DEF Regrab, MasterState
<1> HIDE DEF g, t
<1>4. t \in MasterState
  BY Zenon, <1>1, <1>2, <1>3 DEF MasterState
<1>5. SameConn(s, t) /\ t.queued = s.queued
  BY ZenonT(30), <1>1, <1>3, <1>4 DEF SameConn, MasterState
<1> QED  BY Zenon, <1>5, SameInv DEF t

\* transfer_modifiers preserves the invariant.
LEMMA TransferInv ==
  ASSUME NEW s, Inv(s), NEW e \in Env, NEW from \in Nodes, NEW to \in Nodes,
         NEW k \in Nat
  PROVE  Inv(TransferModifiers(s, e, from, to, k))
<1> DEFINE t == IF from \in Remotes THEN Enqueue(s, e, from, k) ELSE s
<1>1. Inv(t)
  BY Zenon, EnqueueInv
<1>2. TransferModifiers(s, e, from, to, k)
        = IF to \in Remotes THEN Enqueue(t, e, to, k) ELSE t
  BY Zenon DEF TransferModifiers
<1> HIDE DEF t
<1> QED  BY Zenon, <1>1, <1>2, EnqueueInv

\* The end of a focus switch preserves the invariant.
LEMMA CompleteInv ==
  ASSUME NEW s, Inv(s), NEW e \in Env, NEW from \in Nodes, NEW to \in Nodes,
         NEW k \in Nat, NEW edge \in BOOLEAN, NEW stale \in BOOLEAN
  PROVE  Inv(CompleteSwitch(s, e, from, to, k, edge, stale))
<1> DEFINE t == TransferModifiers(s, e, from, to, k)
           b == /\ to \in Remotes
                /\ \/ stale
                   \/ from \in Remotes /\ t.torn
                   \/ t.focused # from
                   \/ t.state[to] # "CONNECTED"
           u == [t EXCEPT !.last = t.focused, !.focused = to, !.disturbed = TRUE,
                          !.torn = b]
<1>1. Inv(t)
  BY Zenon, TransferInv
<1>2. CompleteSwitch(s, e, from, to, k, edge, stale)
        = IF edge THEN Reposition(u, e) ELSE u
  BY Zenon, SMTT(30) DEF CompleteSwitch
<1> HIDE DEF t
<1>3. t \in MasterState /\ b \in BOOLEAN
  BY Zenon, <1>1 DEF Inv, Base, MasterState
<1> HIDE DEF b
<1>4. u \in MasterState
  BY Zenon, <1>3 DEF MasterState
<1>5. SameConn(t, u) /\ u.queued = t.queued
  BY Zenon, <1>3, <1>4 DEF SameConn, MasterState
<1> HIDE DEF u
<1>6. Inv(u)
  BY Zenon, <1>1, <1>5, SameInv
<1>7. Inv(Reposition(u, e))
  BY Zenon, <1>6, EnqueueInv DEF Reposition
<1> QED  BY Zenon, <1>2, <1>6, <1>7

\* Suspending a callback in a clipboard wait preserves the invariant.
LEMMA AwaitInv ==
  ASSUME NEW s, Inv(s), NEW kind \in {"focus", "forward"}, NEW to \in Remotes,
         NEW k \in 0..MaxMods, NEW edge \in BOOLEAN
  PROVE  Inv(AwaitSelection(s, kind, to, k, edge))
<1> DEFINE f == [kind |-> kind, to |-> to, mods |-> k, edge |-> edge, rest |-> s.edges]
           q == <<f>> \o s.frames
           b == s.disturbed /\ s.frames # <<>>
           t == AwaitSelection(s, kind, to, k, edge)
<1>1. s \in MasterState
  BY Zenon DEF Inv, Base
<1>2. f \in Frames
  BY Zenon, <1>1 DEF Frames, MasterState
<1>3. b \in BOOLEAN /\ s.frames \in Seq(Frames)
  BY Zenon, <1>1 DEF MasterState
<1>4. t = [s EXCEPT !.frames = q, !.edges = {}, !.disturbed = b]
  BY Zenon, <1>1 DEF AwaitSelection, MasterState
<1> HIDE DEF f
<1>5. q \in Seq(Frames)
  BY <1>2, <1>3
<1> HIDE DEF q, b, t
<1>6. t \in MasterState
  BY Zenon, <1>1, <1>3, <1>4, <1>5 DEF MasterState
<1>7. SameConn(s, t) /\ t.queued = s.queued
  BY ZenonT(30), <1>1, <1>4, <1>6 DEF SameConn, MasterState
<1> QED  BY Zenon, <1>7, SameInv DEF t

\* focus_node preserves the invariant.
LEMMA FocusNodeInv ==
  ASSUME NEW s, Inv(s), NEW e \in Env, NEW n \in Nodes \cup {None},
         NEW k \in 0..MaxMods, NEW edge \in BOOLEAN
  PROVE  Inv(FocusNode(s, e, n, k, edge))
<1> DEFINE absent == n \in Remotes /\ s.state[n] # "CONNECTED"
           p    == IF absent THEN ReconnectRemote(s, e, n) ELSE s
           from == p.focused
           to   == IF n = None \/ absent THEN from ELSE n
           show == \/ to # from
                   \/ ShowNullSwitch = "yes"
                   \/ ShowNullSwitch = "hotkeyonly" /\ ~edge
           i    == IF show THEN IndicateSwitch(p, e, from, to) ELSE p
           g    == Regrab(i, e, from, to)
           t    == FocusNode(s, e, n, k, edge)
<1>1. t = IF to = from THEN i
          ELSE IF from \in Remotes
          THEN CompleteSwitch(Enqueue(g, e, from, 1), e, from, to, k, edge, FALSE)
          ELSE IF g.ownsel
          THEN CompleteSwitch(Enqueue(g, e, to, 1), e, from, to, k, edge, FALSE)
          ELSE AwaitSelection(g, "focus", to, k, edge)
  BY Zenon DEF FocusNode
<1>2. Inv(p)
  BY Zenon, ReconnectInv
<1> HIDE DEF p
<1>3. from \in Nodes
  BY Zenon, <1>2 DEF Inv, Base, MasterState
<1>4. to \in Nodes
  BY Zenon, <1>3
<1> HIDE DEF from, to, show, t
<1>5. Inv(i)
  BY Zenon, <1>2, <1>3, <1>4, IndicateInv
<1> HIDE DEF i
<1>6. Inv(g)
  BY Zenon, <1>3, <1>4, <1>5, RegrabInv
<1> HIDE DEF g
<1>7. k \in Nat
  BY MasterAssumption
<1>8. CASE to = from
  BY Zenon, <1>1, <1>5, <1>8 DEF t
<1>9. CASE to # from /\ from \in Remotes
  <2>1. Inv(Enqueue(g, e, from, 1))
    BY Zenon, <1>6, <1>9, EnqueueInv
  <2>2. t = CompleteSwitch(Enqueue(g, e, from, 1), e, from, to, k, edge, FALSE)
    BY Zenon, <1>1, <1>9
  <2> QED  BY Zenon, <1>3, <1>4, <1>7, <2>1, <2>2, CompleteInv DEF t
<1>10. CASE to # from /\ from \notin Remotes
  <2>1. to \in Remotes
    BY Zenon, <1>3, <1>4, <1>10 DEF Nodes
  <2>2. Inv(Enqueue(g, e, to, 1))
    BY Zenon, <1>6, <2>1, EnqueueInv
  <2>3. Inv(CompleteSwitch(Enqueue(g, e, to, 1), e, from, to, k, edge, FALSE))
    BY Zenon, <1>3, <1>4, <1>7, <2>2, CompleteInv
  <2>4. Inv(AwaitSelection(g, "focus", to, k, edge))
    BY Zenon, <1>6, <2>1, AwaitInv
  <2> QED  BY Zenon, <1>1, <1>10, <2>3, <2>4 DEF t
<1> QED  BY Zenon, <1>8, <1>9, <1>10

\* A remote that has been set up reports READY.
LEMMA ReadyInv ==
  ASSUME NEW s, Inv(s), s.status = "running", NEW r \in Remotes, s.state[r] = "SETTINGUP"
  PROVE  Inv([s EXCEPT !.state[r] = "CONNECTED", !.failcount[r] = 0])
<1> DEFINE u == [s EXCEPT !.state[r] = "CONNECTED", !.failcount[r] = 0]
<1>0. s \in MasterState
  BY Zenon DEF Inv, Base
<1>1. u \in MasterState
  BY Zenon, <1>0 DEF MasterState, ConnStates
<1>2. /\ u.state = [s.state EXCEPT ![r] = "CONNECTED"]
      /\ u.failcount = [s.failcount EXCEPT ![r] = 0]
      /\ u.chan = s.chan /\ u.procs = s.procs /\ u.queued = s.queued
      /\ u.timer = s.timer /\ u.calls = s.calls /\ u.robbed = s.robbed
      /\ u.status = s.status
  BY Zenon, <1>0 DEF MasterState
<1>3. /\ s.state \in [Remotes -> ConnStates] /\ s.failcount \in [Remotes -> Nat]
      /\ s.calls \in [Addr -> Remotes \cup {None}]
  BY Zenon, <1>0 DEF MasterState
<1> HIDE DEF u
<1>4. ConnOK(u)
  <2>1. ConnOK(s)
    BY Zenon, SMTT(30) DEF Inv, Base
  <2>2. \A x \in Remotes : IsLive(u, x) <=> IsLive(s, x)
    BY Zenon, <1>2, <1>3 DEF IsLive
  <2> QED  BY Zenon, <1>2, <2>1, <2>2 DEF ConnOK
<1>5. CallsOK(u)
  BY SMTT(30), <1>2, <1>3 DEF Inv, Base, CallsOK
<1>6. \A x \in Remotes : FailedOK(u, x) /\ TriesOK(u, x) /\ u.queued[x] <= MaxBacklog
  BY SMTT(30), <1>2, <1>3 DEF Inv, Base, FailedOK, TriesOK
<1>7. Inv(u)
  BY Zenon, <1>1, <1>2, <1>4, <1>5, <1>6 DEF Inv, Base
<1> QED  BY Zenon, <1>7 DEF u

\* halt_reconnects' loop body.
LEMMA HaltInv ==
  ASSUME NEW s, Inv(s), s.status = "running", NEW e \in Env, NEW r \in Remotes,
         s.loop = "halt"
  PROVE  Inv(LoopBody(s, e, r))
<1> DEFINE d == IF s.state[r] = "SETTINGUP" THEN DisconnectRemote(s, r)
                ELSE IF s.state[r] = "FAILED" /\ s.timer[r] # None
                THEN CancelCall(s, e, r) ELSE s
           t == [d EXCEPT !.state[r] = "PERMFAILED"]
<1>1. /\ s \in MasterState /\ s.status # "exited" /\ ConnOK(s) /\ CallsOK(s)
      /\ \A x \in Remotes : FailedOK(s, x) /\ TriesOK(s, x) /\ s.queued[x] <= MaxBacklog
  BY Zenon DEF Inv, Base
<1>2. LoopBody(s, e, r) = IF s.state[r] \in {"SETTINGUP", "FAILED"} THEN t ELSE s
  BY Zenon DEF LoopBody
<1>3. CASE s.state[r] \notin {"SETTINGUP", "FAILED"}
  BY Zenon, <1>2, <1>3
<1>4. CASE s.state[r] \in {"SETTINGUP", "FAILED"}
  <2>1. /\ Others(d, r) /\ d.status = s.status
        /\ ~d.chan[r] /\ d.procs[r] = 0 /\ d.queued[r] <= MaxBacklog
    <3>1. CASE s.state[r] = "SETTINGUP"
      <4>1. \A a \in Addr : s.calls[a] # r
        BY SMTT(30), <1>1, <3>1, MasterAssumption DEF CallsOK
      <4>2. Others(s, r)
        BY Zenon, <1>1, <4>1 DEF Others, ConnOK
      <4>3. s.chan[r] /\ s.procs[r] = 1
        BY Zenon, <1>1, <3>1 DEF ConnOK, IsLive
      <4> QED  BY SMTT(30), <3>1, <4>2, <4>3, DisconnectOthers, MasterAssumption
    <3>2. CASE s.state[r] = "FAILED"
      <4>1. s.timer[r] # None
        BY Zenon, <1>1, <3>2 DEF FailedOK
      <4>2. ~s.chan[r] /\ s.procs[r] = 0
        BY Zenon, <1>1, <3>2 DEF ConnOK, IsLive
      <4> QED  BY Zenon, <1>1, <3>2, <4>1, <4>2, CancelOthers
    <3> QED  BY Zenon, <1>4, <3>1, <3>2
  <2> HIDE DEF d
  <2>2. d \in MasterState
    BY Zenon, <2>1 DEF Others
  <2>3. t \in MasterState
    BY Zenon, <2>2 DEF MasterState, ConnStates
  <2>4. /\ t.state = [d.state EXCEPT ![r] = "PERMFAILED"]
        /\ d.state \in [Remotes -> ConnStates]
        /\ d.calls \in [Addr -> Remotes \cup {None}]
        /\ t.chan = d.chan /\ t.procs = d.procs /\ t.failcount = d.failcount
        /\ t.queued = d.queued /\ t.timer = d.timer /\ t.calls = d.calls
        /\ t.robbed = d.robbed /\ t.status = d.status
    BY Zenon, <2>2 DEF MasterState
  <2> HIDE DEF t
  <2>5. ConnOK(t)
    BY SMTT(30), <2>1, <2>4 DEF Others, ConnOK, IsLive
  <2>6. CallsOK(t)
    BY SMTT(30), <2>1, <2>4 DEF Others, CallsOK
  <2>7. \A x \in Remotes : FailedOK(t, x) /\ TriesOK(t, x) /\ t.queued[x] <= MaxBacklog
    BY SMTT(30), <2>1, <2>4 DEF Others, FailedOK, TriesOK
  <2>8. Inv(t)
    BY Zenon, <2>1, <2>3, <2>4, <2>5, <2>6, <2>7 DEF Inv, Base, Others
  <2> QED  BY Zenon, <1>2, <1>4, <2>8
<1> QED  BY Zenon, <1>3, <1>4

\* The body of each loop over the remotes preserves the invariant.
LEMMA LoopBodyInv ==
  ASSUME NEW s, Inv(s), s.status = "running", NEW e \in Env, NEW r \in Remotes
  PROVE  Inv(LoopBody(s, e, r))
<1>1. CASE s.loop = "halt"
  BY Zenon, <1>1, HaltInv
<1>2. CASE s.loop # "halt"
  <2>1. \/ LoopBody(s, e, r) = s
        \/ LoopBody(s, e, r) = ReconnectRemote(s, e, r)
        \/ LoopBody(s, e, r) = Enqueue(s, e, r, 1)
    BY Zenon, <1>2 DEF LoopBody
  <2> QED  BY Zenon, <2>1, ReconnectInv, EnqueueInv
<1> QED  BY Zenon, <1>1, <1>2

\* s with other values in the fields that only the callbacks themselves change.
Control(s, lp, td, ed, ow, fr) ==
  [s EXCEPT !.loop = lp, !.todo = td, !.edges = ed, !.ownsel = ow, !.frames = fr]

\* Starting and ending loops and waits preserves the invariant.
LEMMA ControlInv ==
  ASSUME NEW s, Inv(s),
         NEW lp \in {"none", "reconnect", "halt", "clear", "loglevel"},
         NEW td \in SUBSET Remotes, NEW ed \in SUBSET Directions,
         NEW ow \in BOOLEAN, NEW fr \in Seq(Frames)
  PROVE  Inv(Control(s, lp, td, ed, ow, fr))
<1> DEFINE t == Control(s, lp, td, ed, ow, fr)
<1>1. s \in MasterState
  BY Zenon DEF Inv, Base
<1>2. t \in MasterState
  BY Zenon, <1>1 DEF Control, MasterState
<1>3. SameConn(s, t) /\ t.queued = s.queued
  BY SMTT(30), <1>1, <1>2 DEF SameConn, Control, MasterState
<1> HIDE DEF t
<1> QED  BY Zenon, <1>3, SameInv DEF t

-----------------------------------------------------------------------------
(***************************************************************************)
(* The invariant of the process.                                           *)
(***************************************************************************)
IInv == IF m.status = "exited" THEN m \in MasterState /\ \A r \in Remotes : m.procs[r] = 0
        ELSE Inv(m)

\* The invariant holds when main enters the event loop.
LEMMA InitInv == Init => IInv
<1> SUFFICES ASSUME Init PROVE IInv
  BY Zenon
<1>1. m \in MasterState
  BY SMTT(30), MasterAssumption DEF Init, MasterState, ConnStates, Nodes
<1>2. /\ m.status = "running"
      /\ m.state = [r \in Remotes |-> IF r \in Enabled THEN "SETTINGUP" ELSE "NEW"]
      /\ m.failcount = [r \in Remotes |-> 0]
      /\ m.chan = [r \in Remotes |-> r \in Enabled]
      /\ m.procs = [r \in Remotes |-> IF r \in Enabled THEN 1 ELSE 0]
      /\ m.queued = [r \in Remotes |-> IF r \in Enabled THEN 1 ELSE 0]
      /\ m.calls = [a \in Addr |-> None]
  BY Zenon DEF Init
<1>3. ConnOK(m)
  BY ZenonT(30), <1>2 DEF ConnOK, IsLive
<1>4. CallsOK(m)
  BY Zenon, <1>2 DEF CallsOK
<1>5. \A r \in Remotes : FailedOK(m, r) /\ TriesOK(m, r) /\ m.queued[r] <= MaxBacklog
  BY <1>2, MasterAssumption DEF FailedOK, TriesOK
<1>6. Inv(m)
  BY Zenon, <1>1, <1>2, <1>3, <1>4, <1>5 DEF Inv, Base
<1> QED  BY Zenon, <1>2, <1>6 DEF IInv

\* Every callback preserves the invariant.
LEMMA NextInv == IInv /\ [Next]_m => IInv'
<1> SUFFICES ASSUME IInv, Next PROVE IInv'
  <2>1. ASSUME IInv, m' = m PROVE IInv'
    BY Zenon, <2>1 DEF IInv
  <2> QED  BY Zenon, <2>1
<1> USE DEF XIdle, LoopIdle, Step
<1>1. ASSUME m.status = "running" PROVE Inv(m) /\ m \in MasterState
  BY Zenon, <1>1 DEF IInv, Inv, Base
<1>types. m \in MasterState =>
        /\ m.loop \in {"none", "reconnect", "halt", "clear", "loglevel"}
        /\ m.todo \in SUBSET Remotes /\ m.edges \in SUBSET Directions
        /\ m.ownsel \in BOOLEAN /\ m.frames \in Seq(Frames)
  BY Zenon, SMTT(30) DEF MasterState
<1>2. Inv(m)' => IInv'
  BY Zenon, SMTT(30) DEF IInv, Inv, Base
<1>3. ASSUME NEW e \in Env, NEW k \in 0..MaxMods, NEW d \in Directions,
             FocusDirection(d, k, e)
      PROVE  IInv'
  <2>1. Inv(m) /\ Neighbors[<<m.focused, d>>] \in Nodes \cup {None}
    BY Zenon, <1>1, <1>3, MasterAssumption DEF FocusDirection, MasterState
  <2> QED  BY Zenon, <1>2, <1>3, <2>1, FocusNodeInv DEF FocusDirection
<1>4. ASSUME NEW e \in Env, NEW k \in 0..MaxMods, NEW d \in Directions,
             EdgeStep(d, k, e)
      PROVE  IInv'
  <2> DEFINE u == [m EXCEPT !.edges = @ \ {d}]
  <2>1. Inv(m) /\ m \in MasterState /\ Neighbors[<<m.focused, d>>] \in Nodes \cup {None}
    BY Zenon, <1>1, <1>4, MasterAssumption DEF EdgeStep, MasterState
  <2>2. u = Control(m, m.loop, m.todo, m.edges \ {d}, m.ownsel, m.frames)
    BY Zenon, <2>1 DEF Control, MasterState
  <2>3. m.edges \ {d} \in SUBSET Directions
    BY Zenon, <2>1 DEF MasterState
  <2>4. Inv(u)
    BY <1>types, <2>1, <2>2, <2>3, ControlInv
  <2>5. m' = FocusNode(u, e, Neighbors[<<m.focused, d>>], k, TRUE)
    BY Zenon, <1>4 DEF EdgeStep
  <2> HIDE DEF u
  <2> QED  BY Zenon, <1>2, <2>1, <2>4, <2>5, FocusNodeInv
<1>5. ASSUME NEW e \in Env, NEW k \in 0..MaxMods, NEW n \in Nodes, FocusTo(n, k, e)
      PROVE  IInv'
  BY Zenon, <1>1, <1>2, <1>5, FocusNodeInv DEF FocusTo
<1>6. ASSUME NEW e \in Env, NEW k \in 0..MaxMods, FocusPrevious(k, e)
      PROVE  IInv'
  <2>1. Inv(m) /\ m.last \in Nodes
    BY Zenon, <1>1, <1>6 DEF FocusPrevious, MasterState
  <2> QED  BY Zenon, <1>2, <1>6, <2>1, FocusNodeInv DEF FocusPrevious
<1>7. ASSUME NEW e \in Env, NEW k \in {1, ScrollMult}, UserInput(k, e)
      PROVE  IInv'
  <2>1. k \in Nat
    BY MasterAssumption
  <2> QED  BY Zenon, <1>1, <1>2, <1>7, <2>1, EnqueueInv DEF UserInput
<1>8. ASSUME NEW e \in Env, SelectionArrives(e)
      PROVE  IInv'
  <2> DEFINE f == Head(m.frames)
             u == [m EXCEPT !.frames = Tail(@)]
             c == CompleteSwitch(Enqueue(u, e, f.to, 1), e, MasterNode, f.to,
                                 f.mods, f.edge, m.disturbed)
  <2>1. Inv(m) /\ m \in MasterState /\ m.frames # <<>> /\ m.disturbed \in BOOLEAN
    BY Zenon, <1>1, <1>8 DEF SelectionArrives, MasterState
  <2>2. f \in Frames /\ Tail(m.frames) \in Seq(Frames)
    BY <1>types, <2>1
  <2>3. u = Control(m, m.loop, m.todo, m.edges, m.ownsel, Tail(m.frames))
    BY Zenon, <2>1 DEF Control, MasterState
  <2>4. Inv(u)
    <3>1. Inv(Control(m, m.loop, m.todo, m.edges, m.ownsel, Tail(m.frames)))
      BY Zenon, <1>types, <2>1, <2>2, ControlInv
    <3> QED  BY Zenon, <2>3, <3>1
  <2>5. \/ m' = [c EXCEPT !.edges = f.rest]
        \/ \E n \in Remotes : m' = Enqueue(u, e, n, 1)
        \/ m' = u
    BY Zenon, <1>8 DEF SelectionArrives
  <2>6. /\ f.to \in Remotes /\ f.to \in Nodes /\ f.mods \in Nat /\ f.edge \in BOOLEAN
        /\ f.rest \in SUBSET Directions /\ MasterNode \in Nodes
    BY <2>2, MasterAssumption DEF Frames, Nodes
  <2> HIDE DEF f, u
  <2>7. Inv(Enqueue(u, e, f.to, 1))
    BY Zenon, <2>4, <2>6, EnqueueInv
  <2>8. Inv(c)
    BY Zenon, <2>1, <2>6, <2>7, CompleteInv
  <2> HIDE DEF c
  <2>9. CASE m' = [c EXCEPT !.edges = f.rest]
    <3>1. /\ c \in MasterState /\ c.todo \in SUBSET Remotes
          /\ c.loop \in {"none", "reconnect", "halt", "clear", "loglevel"}
          /\ c.ownsel \in BOOLEAN /\ c.frames \in Seq(Frames)
      BY Zenon, <2>8 DEF Inv, Base, MasterState
    <3>2. m' = Control(c, c.loop, c.todo, f.rest, c.ownsel, c.frames)
      BY Zenon, <2>9, <3>1 DEF Control, MasterState
    <3> QED  BY SMTT(30), <1>2, <2>6, <2>8, <3>1, <3>2, ControlInv
  <2> QED  BY Zenon, <1>2, <2>4, <2>5, <2>9, EnqueueInv
<1>9. CASE SelectionCleared
  <2>1. Inv(m) /\ m \in MasterState
    BY Zenon, <1>1, <1>9 DEF SelectionCleared
  <2>2. m' = Control(m, m.loop, m.todo, m.edges, FALSE, m.frames)
    BY Zenon, <1>9, <2>1 DEF SelectionCleared, Control, MasterState
  <2> QED  BY Zenon, <1>types, <1>2, <2>1, <2>2, ControlInv
<1>10. ASSUME NEW e \in Env, NEW n \in Nodes, BrightnessTimer(n, e)
       PROVE  IInv'
  <2> DEFINE i == m.fades[n] - 1
             u == [m EXCEPT !.fades[n] = i]
  <2>1. Inv(m) /\ i \in Nat
    BY <1>1, <1>10 DEF BrightnessTimer, MasterState
  <2>2. m' = u \/ m' = SetBrightness(u, e, n)
    BY Zenon, <1>1, <1>10 DEF BrightnessTimer, MasterState
  <2> HIDE DEF i
  <2>3. Inv(u)
    BY Zenon, <2>1, FadesInv
  <2> HIDE DEF u
  <2> QED  BY Zenon, <1>2, <2>2, <2>3, TransitionInv
<1>11. ASSUME NEW e \in Env, NEW r \in Remotes, LoopStep(r, e)
       PROVE  IInv'
  <2> DEFINE b == LoopBody(m, e, r)
             lp == IF m.todo = {r} THEN "none" ELSE b.loop
             td == b.todo \ {r}
  <2>1. Inv(m) /\ m.status = "running"
    BY Zenon, <1>1, <1>11 DEF LoopStep
  <2>2. Inv(b)
    BY Zenon, <2>1, LoopBodyInv
  <2>3. m' = [b EXCEPT !.todo = td, !.loop = lp]
    BY Zenon, <1>11 DEF LoopStep
  <2> HIDE DEF b
  <2>4. /\ b \in MasterState /\ td \in SUBSET Remotes
        /\ lp \in {"none", "reconnect", "halt", "clear", "loglevel"}
        /\ b.edges \in SUBSET Directions /\ b.ownsel \in BOOLEAN /\ b.frames \in Seq(Frames)
    BY Zenon, <2>2 DEF Inv, Base, MasterState
  <2> HIDE DEF lp, td
  <2>5. m' = Control(b, lp, td, b.edges, b.ownsel, b.frames)
    BY Zenon, <2>3, <2>4 DEF Control, MasterState
  <2> QED  BY Zenon, <1>2, <2>2, <2>4, <2>5, ControlInv
<1>12. ASSUME NEW e \in Env, NEW r \in Remotes, ChannelFails(r, e)
       PROVE  IInv'
  <2>1. Inv(m)
    BY Zenon, <1>1, <1>12 DEF ChannelFails
  <2>2. Inv(FailRemote(m, e, r))
    BY Zenon, <2>1, FailInv
  <2> QED  BY Zenon, <1>2, <1>12, <2>2 DEF ChannelFails
<1>13. ASSUME NEW e \in Env, NEW r \in Remotes, ReceiveReady(r, e)
       PROVE  IInv'
  <2> DEFINE u == [m EXCEPT !.state[r] = "CONNECTED", !.failcount[r] = 0]
  <2>1. Inv(m) /\ m \in MasterState /\ m.status = "running"
    BY Zenon, <1>1, <1>13 DEF ReceiveReady
  <2>2. \/ m' = FailRemote(m, e, r)
        \/ m.state[r] = "SETTINGUP" /\ (m' = u \/ m' = TransitionBrightness(u, e, r))
    BY Zenon, <1>13 DEF ReceiveReady
  <2>3. m.state[r] = "SETTINGUP" => Inv(u)
    BY Zenon, <2>1, ReadyInv
  <2> HIDE DEF u
  <2>4. r \in Nodes
    BY Zenon DEF Nodes
  <2> QED  BY Zenon, <1>2, <2>1, <2>2, <2>3, <2>4, FailInv, TransitionInv
<1>14. ASSUME NEW e \in Env, NEW r \in Remotes, NEW own \in BOOLEAN,
              ReceiveClipboard(r, own, e)
       PROVE  IInv'
  <2> DEFINE u == [m EXCEPT !.ownsel = own]
  <2>1. Inv(m) /\ m \in MasterState
    BY Zenon, <1>1, <1>14 DEF ReceiveClipboard
  <2>2. u = Control(m, m.loop, m.todo, m.edges, own, m.frames)
    BY Zenon, <2>1 DEF Control, MasterState
  <2>3. Inv(u)
    BY <1>types, <2>1, <2>2, ControlInv
  <2>4. \/ m' = u
        \/ m.focused \in Remotes /\ m' = Enqueue(u, e, m.focused, 1)
        \/ m.focused \in Remotes /\ m' = AwaitSelection(u, "forward", m.focused, 0, FALSE)
    BY Zenon, <1>14 DEF ReceiveClipboard
  <2> HIDE DEF u
  <2>5. 0 \in 0..MaxMods
    BY MasterAssumption
  <2> QED  BY Zenon, <1>2, <2>3, <2>4, <2>5, EnqueueInv, AwaitInv
<1>15. ASSUME NEW kind \in {"reconnect", "halt", "clear", "loglevel"},
              NEW own \in BOOLEAN, StartLoop(kind, own)
       PROVE  IInv'
  <2> DEFINE lp == IF Enabled = {} THEN "none" ELSE kind
             ow == IF kind = "clear" THEN own ELSE m.ownsel
  <2>1. Inv(m) /\ m \in MasterState /\ Enabled \in SUBSET Remotes
    BY Zenon, <1>1, <1>15, MasterAssumption DEF StartLoop
  <2>2. lp \in {"none", "reconnect", "halt", "clear", "loglevel"} /\ ow \in BOOLEAN
    BY Zenon, <1>types, <2>1
  <2>3. m' = [m EXCEPT !.loop = lp, !.todo = Enabled, !.ownsel = ow]
    BY Zenon, <1>15, <2>1 DEF StartLoop, MasterState
  <2> HIDE DEF lp, ow
  <2>4. m' = Control(m, lp, Enabled, m.edges, ow, m.frames)
    BY Zenon, <2>1, <2>3 DEF Control, MasterState
  <2> QED  BY Zenon, <1>types, <1>2, <2>1, <2>2, <2>4, ControlInv
<1>16. ASSUME NEW D \in EdgeSets, MousePos(D) \/ \E r \in Remotes : ReceiveMousePos(r, D)
       PROVE  IInv'
  <2>1. Inv(m) /\ m \in MasterState /\ m' = [m EXCEPT !.edges = D]
    BY Zenon, <1>1, <1>16 DEF MousePos, ReceiveMousePos
  <2>2. D \in SUBSET Directions
    BY Zenon DEF EdgeSets
  <2>3. m' = Control(m, m.loop, m.todo, D, m.ownsel, m.frames)
    BY Zenon, <2>1 DEF Control, MasterState
  <2> QED  BY <1>types, <1>2, <2>1, <2>2, <2>3, ControlInv
<1>17. ASSUME NEW r \in Remotes, Writable(r)
       PROVE  IInv'
  <2> DEFINE i == m.queued[r] - 1
             u == [m EXCEPT !.queued[r] = i]
  <2>1. Inv(m) /\ m \in MasterState /\ i \in Nat /\ i <= m.queued[r]
    BY <1>1, <1>17 DEF Writable, MasterState
  <2>2. m' = u
    BY Zenon, <1>17, <2>1 DEF Writable, MasterState
  <2> HIDE DEF i
  <2>3. u \in MasterState
    BY Zenon, <2>1 DEF MasterState
  <2>4. SameConn(m, u) /\ u.queued = [m.queued EXCEPT ![r] = i] /\ u.status = m.status
    BY Zenon, <2>1, <2>3 DEF SameConn, MasterState
  <2>5. m.queued \in [Remotes -> Nat] /\ MaxBacklog \in Nat
    BY Zenon, <2>1, MasterAssumption DEF MasterState
  <2> HIDE DEF u
  <2>6. Base(u)
    BY Zenon, <2>1, <2>4, SameConnBase DEF Inv
  <2>7. Inv(u)
    BY <2>1, <2>4, <2>5, <2>6 DEF Inv
  <2> QED  BY Zenon, <1>2, <2>2, <2>7
<1>18. ASSUME NEW a \in Addr, ReconnectTimer(a)
       PROVE  IInv'
  <2> DEFINE r == m.calls[a]
             u == [m EXCEPT !.calls[a] = None, !.timer[r] = None]
  <2>1. Inv(m) /\ m \in MasterState /\ m.status = "running"
    BY Zenon, <1>1, <1>18 DEF ReconnectTimer
  <2>2. r \in Remotes
    BY Zenon, <1>18, <2>1 DEF ReconnectTimer, MasterState
  <2>3. m' = SetupRemote(u, r) /\ m.calls[a] = r
    BY Zenon, <1>18 DEF ReconnectTimer
  <2>4. m.state[r] = "FAILED" /\ m.timer[r] = a
    BY Zenon, <1>18, <2>1 DEF ReconnectTimer, Inv, Base, CallsOK
  <2> HIDE DEF r
  <2>5. u \in MasterState
    BY Zenon, <2>1, <2>2 DEF MasterState
  <2>6. /\ u.calls = [m.calls EXCEPT ![a] = None] /\ u.timer = [m.timer EXCEPT ![r] = None]
        /\ u.state = m.state /\ u.failcount = m.failcount /\ u.chan = m.chan
        /\ u.procs = m.procs /\ u.queued = m.queued /\ u.robbed = m.robbed
        /\ u.status = m.status
    BY Zenon, <2>1 DEF MasterState
  <2>7. m.calls \in [Addr -> Remotes \cup {None}] /\ m.timer \in [Remotes -> Addr \cup {None}]
    BY Zenon, <2>1 DEF MasterState
  <2> HIDE DEF u
  <2>8. CallsOK(m) /\ \A x \in Remotes : FailedOK(m, x) /\ TriesOK(m, x) /\ m.queued[x] <= MaxBacklog
    BY Zenon, <2>1 DEF Inv, Base
  <2>9. CallsOK(u) /\ \A b \in Addr : u.calls[b] # r
    <3>1. ASSUME NEW b \in Addr, u.calls[b] # None
          PROVE  b # a /\ u.calls[b] = m.calls[b]
      BY Zenon, <2>6, <2>7, <3>1
    <3>2. ASSUME NEW b \in Addr, u.calls[b] # None
          PROVE  m.state[m.calls[b]] = "FAILED" /\ m.timer[m.calls[b]] = b
      BY Zenon, <2>8, <3>1, <3>2 DEF CallsOK
    <3>3. ASSUME NEW b \in Addr, u.calls[b] # None
          PROVE  m.calls[b] \in Remotes /\ m.calls[b] # r
      BY SMTT(30), <2>4, <2>7, <3>1, <3>2, <3>3
    <3>4. ASSUME NEW b \in Addr, u.calls[b] # None
          PROVE  u.state[u.calls[b]] = "FAILED" /\ u.timer[u.calls[b]] = b
      BY SMTT(30), <2>6, <2>7, <3>1, <3>2, <3>3, <3>4
    <3>5. ASSUME NEW b \in Addr PROVE u.calls[b] # r
      BY SMTT(30), <2>2, <3>1, <3>3, MasterAssumption
    <3> QED  BY Zenon, <3>4, <3>5 DEF CallsOK
  <2>10. \A x \in Remotes \ {r} : FailedOK(u, x) /\ TriesOK(u, x)
    BY SMTT(30), <2>3, <2>6, <2>7, <2>8 DEF FailedOK, TriesOK
  <2>11. Others(u, r)
    BY ZenonT(30), <2>1, <2>5, <2>6, <2>8, <2>9, <2>10 DEF Others, Inv, Base, ConnOK, IsLive
  <2>12. u.procs[r] = 0 /\ u.failcount[r] <= MaxTries
    BY Zenon, <2>1, <2>2, <2>4, <2>6, <2>8 DEF Inv, Base, ConnOK, IsLive, TriesOK
  <2> QED  BY Zenon, <1>2, <2>2, <2>3, <2>11, <2>12, SetupInv
<1>19. CASE Quit
  <2> DEFINE pr == [r \in Remotes |->
                      IF m.state[r] \in {"SETTINGUP", "CONNECTED"} /\ m.chan[r]
                      THEN m.procs[r] - 1 ELSE m.procs[r]]
  <2>1. Inv(m) /\ m \in MasterState
    BY Zenon, <1>1, <1>19 DEF Quit
  <2>2. \A r \in Remotes : pr[r] = 0
    BY <2>1 DEF Inv, Base, ConnOK, IsLive
  <2>3. pr \in [Remotes -> Int]
    BY <2>2
  <2>4. m' = [m EXCEPT !.procs = pr, !.grab = "none", !.status = "exited"]
    BY Zenon, <1>19 DEF Quit
  <2> HIDE DEF pr
  <2>5. m' \in MasterState
    BY Zenon, <2>1, <2>3, <2>4 DEF MasterState
  <2>6. m'.procs = pr /\ m'.status = "exited"
    BY Zenon, <2>1, <2>4 DEF MasterState
  <2>7. MasterState' = MasterState
    BY Zenon DEF MasterState
  <2> QED  BY Zenon, <2>2, <2>5, <2>6 DEF IInv
<1>20. CASE Crash
  <2>1. Inv(m) /\ m \in MasterState /\ m' = Abort(m)
    BY Zenon, <1>1, <1>20 DEF Crash
  <2>2. SameConn(m, m') /\ m'.queued = m.queued
    BY Zenon, <2>1 DEF SameConn, Abort, MasterState
  <2> QED  BY Zenon, <1>2, <2>1, <2>2, SameInv
<1> QED
  BY Zenon, <1>3, <1>4, <1>5, <1>6, <1>7, <1>8, <1>9, <1>10, <1>11, <1>12, <1>13, <1>14,
     <1>15, <1>16, <1>17, <1>18, <1>19, <1>20 DEF Next

\* The inductive invariant holds throughout.
LEMMA Invariance == Spec => []IInv
  BY InitInv, NextInv, PTL DEF Spec

\* For every set of remotes, topology, backlog and retry limit, the state of
\* the master keeps its type and no send queue exceeds MAX_SEND_BACKLOG.
THEOREM TypeCorrect == Spec => []TypeOK
<1>1. IInv => TypeOK
  BY Zenon, SMTT(30) DEF IInv, Inv, Base, TypeOK, Running
<1> QED  BY <1>1, Invariance, PTL

\* A remote has an open channel and exactly one ssh child when it is being set
\* up or connected, and neither otherwise; an exiting master leaves no child.
THEOREM OneChild == Spec => []OneChildPerConnection
<1>1. IInv => OneChildPerConnection
  BY Zenon DEF IInv, Inv, Base, ConnOK, IsLive, OneChildPerConnection, Running, Live
<1> QED  BY <1>1, Invariance, PTL

\* A pending reconnect call belongs to a failed remote, whose handle names it.
THEOREM CallOwned == Spec => []ReconnectCallOwned
<1>1. IInv => ReconnectCallOwned
  BY Zenon, SMTT(30) DEF IInv, Inv, Base, CallsOK, ReconnectCallOwned, Running
<1> QED  BY <1>1, Invariance, PTL

\* A failed remote has a handle, and a pending call unless it was robbed of it.
THEOREM FailedScheduled == Spec => []FailedIsScheduled
<1>1. IInv => FailedIsScheduled
  BY Zenon, SMTT(30) DEF IInv, Inv, Base, FailedOK, FailedIsScheduled, Running
<1> QED  BY <1>1, Invariance, PTL

\* A remote that is being retried has not failed more than max_tries times in
\* a row.
THEOREM RetriesAreBounded == Spec => []RetriesBounded
<1>1. IInv => RetriesBounded
  BY Zenon DEF IInv, Inv, Base, TriesOK, RetriesBounded, Running
<1> QED  BY <1>1, Invariance, PTL

-----------------------------------------------------------------------------
(***************************************************************************)
(* The focus.  Every C function below focus_node either leaves the focus   *)
(* where it is or reverts it to the master through focus_master; that      *)
(* relation, Shift, is transitive, so a function inherits it from the      *)
(* functions it calls, and it preserves what has to be known of the focus. *)
(***************************************************************************)

\* A switch to a remote waits for the clipboard.
FocusFrame(s) == \E i \in DOMAIN s.frames : s.frames[i].kind = "focus"

(***************************************************************************)
(* The invariant of the focus.  The last conjunct is about a switch whose  *)
(* wait no other switch and no failure has disturbed.                      *)
(***************************************************************************)
Focus(s) ==
  /\ s.focused \in Remotes /\ ~s.torn =>
       s.state[s.focused] = "CONNECTED" /\ s.grab # "none"
  /\ s.grab = "held" /\ s.focused = MasterNode => FocusFrame(s)
  /\ FocusFrame(s) /\ ~s.disturbed => s.focused = MasterNode /\ s.grab # "none"

\* The loop of halt_reconnects: no other callback runs, and the remotes it has
\* visited are neither being set up nor scheduled.
Halting(s) ==
  s.loop = "halt" =>
    /\ s.todo # {} /\ s.edges = {}
    /\ \A r \in Enabled \ s.todo : s.state[r] \notin {"SETTINGUP", "FAILED"}

-----------------------------------------------------------------------------
(***************************************************************************)
(* The focus stays, or reverts.                                            *)
(***************************************************************************)
Keeps(s, t) ==
  /\ t.focused = s.focused /\ t.grab = s.grab
  /\ t.torn <=> s.torn
  /\ t.disturbed <=> s.disturbed
  /\ s.focused \in Remotes /\ s.state[s.focused] = "CONNECTED" =>
       t.state[s.focused] = "CONNECTED"

Reverts(s, t) ==
  /\ s.focused \in Remotes /\ t.focused = MasterNode /\ t.grab = "none"
  /\ ~t.torn /\ t.disturbed

SameLoop(s, t) ==
  t.frames = s.frames /\ t.loop = s.loop /\ t.todo = s.todo /\ t.edges = s.edges

Shift(s, t) ==
  t.status = "running" =>
    s.status = "running" /\ SameLoop(s, t) /\ (Keeps(s, t) \/ Reverts(s, t))

LEMMA ShiftTransitive ==
  ASSUME NEW s, NEW t, NEW u, Shift(s, t), Shift(t, u)
  PROVE  Shift(s, u)
  BY MasterAssumption DEF Shift, SameLoop, Keeps, Reverts

LEMMA ShiftFocus ==
  ASSUME NEW s, NEW t, Focus(s), Shift(s, t), t.status = "running"
  PROVE  Focus(t)
<1>1. SameLoop(s, t) /\ (FocusFrame(t) <=> FocusFrame(s))
  BY Zenon DEF Shift, SameLoop, FocusFrame
<1>2. CASE Keeps(s, t)
  BY Zenon, <1>1, <1>2 DEF Keeps, Focus
<1>3. CASE Reverts(s, t)
  BY Zenon, <1>1, <1>3, MasterAssumption DEF Reverts, Focus
<1> QED  BY Zenon, <1>2, <1>3 DEF Shift

\* t differs from s at most in fields that the focus does not depend on.
SameFocus(s, t) ==
  /\ SameLoop(s, t)
  /\ t.focused = s.focused /\ t.grab = s.grab /\ t.torn = s.torn
  /\ t.disturbed = s.disturbed /\ t.status \in {s.status, "aborted"}

LEMMA SameShift ==
  ASSUME NEW s, NEW t, SameFocus(s, t),
         s.focused \in Remotes /\ s.state[s.focused] = "CONNECTED" =>
           t.state[s.focused] = "CONNECTED"
  PROVE  Shift(s, t)
  BY Zenon DEF SameFocus, Shift, Keeps

-----------------------------------------------------------------------------
(***************************************************************************)
(* The functions below focus_node.                                         *)
(***************************************************************************)
\* disconnect_remote takes the focus from r, or aborts.
LEMMA DisconnectShift ==
  ASSUME NEW s \in MasterState, NEW r \in Remotes
  PROVE  LET d == DisconnectRemote(s, r)
         IN Shift(s, d) /\ (d.status = "running" => d.focused # r /\ d.state = s.state)
<1> DEFINE u == [s EXCEPT !.chan[r] = FALSE, !.queued[r] = 0, !.procs[r] = @ - 1]
           d == DisconnectRemote(s, r)
<1>1. d = IF ~s.chan[r] THEN Abort(s) ELSE IF s.focused = r THEN FocusMaster(u) ELSE u
  BY DEF DisconnectRemote
<1>2. SameFocus(s, u) /\ u.state = s.state /\ u.status = s.status
  BY Zenon DEF SameFocus, SameLoop, MasterState
<1>3. u \in MasterState
  <2>1. s.procs[r] - 1 \in Int
    BY DEF MasterState
  <2>2. u = [s EXCEPT !.chan[r] = FALSE, !.queued[r] = 0, !.procs[r] = s.procs[r] - 1]
    BY DEF MasterState
  <2> HIDE DEF u
  <2> QED  BY Zenon, <2>1, <2>2 DEF MasterState
<1> HIDE DEF u
<1>4. CASE ~s.chan[r]
  <2>1. d.status = "aborted"
    BY Zenon, <1>1, <1>4 DEF Abort, MasterState
  <2> QED  BY Zenon, <2>1 DEF Shift
<1>5. CASE s.chan[r] /\ s.focused # r
  <2>1. d = u
    BY Zenon, <1>1, <1>5
  <2>2. Shift(s, u) /\ u.focused # r
    BY Zenon, <1>2, <1>5, SameShift DEF SameFocus
  <2> QED  BY Zenon, <1>2, <2>1, <2>2
<1>6. CASE s.chan[r] /\ s.focused = r
  <2>1. d = FocusMaster(u)
    BY Zenon, <1>1, <1>6
  <2>2. /\ d.focused = MasterNode /\ d.grab = "none" /\ d.torn = FALSE /\ d.disturbed = TRUE
        /\ d.state = u.state /\ d.status = u.status /\ SameLoop(u, d)
    BY <1>3, <2>1 DEF FocusMaster, SameLoop, MasterState
  <2>3. SameLoop(s, d) /\ Reverts(s, d)
    BY Zenon, <1>2, <1>6, <2>2 DEF SameFocus, SameLoop, Reverts
  <2> QED  BY Zenon, <1>2, <2>2, <2>3, MasterAssumption DEF Shift
<1> QED  BY Zenon, <1>4, <1>5, <1>6

\* A change of the state of r alone, when r does not have the focus.
LEMMA StateShift ==
  ASSUME NEW s, NEW d \in MasterState, NEW r \in Remotes, NEW t, Shift(s, d),
         d.status = "running" => d.focused # r,
         SameFocus(d, t), \A x \in Remotes \ {r} : t.state[x] = d.state[x]
  PROVE  Shift(s, t)
<1>1. CASE d.status = "running"
  <2>1. Shift(d, t)
    BY Zenon, <1>1, SameShift
  <2> QED  BY Zenon, <2>1, ShiftTransitive
<1>2. CASE d.status # "running"
  BY Zenon, <1>2 DEF SameFocus, Shift
<1> QED  BY Zenon, <1>1, <1>2

\* fail_remote.
LEMMA FailShift ==
  ASSUME NEW s \in MasterState, NEW e \in Env, NEW r \in Remotes
  PROVE  Shift(s, FailRemote(s, e, r))
<1> DEFINE d == DisconnectRemote(s, r)
           n == d.failcount[r] + 1
           p == [d EXCEPT !.failcount[r] = n, !.state[r] = "PERMFAILED"]
           q == [d EXCEPT !.failcount[r] = n, !.state[r] = "FAILED"]
           t == FailRemote(s, e, r)
<1>1. /\ d \in MasterState /\ Shift(s, d)
      /\ d.status = "running" => d.focused # r
  BY Zenon, DisconnectEffect, DisconnectShift
<1>2. t = IF n > MaxTries THEN p ELSE ScheduleReconnect(q, e, r)
  BY Zenon DEF FailRemote
<1> HIDE DEF d
<1>3. n \in Nat
  BY SMTT(30), <1>1 DEF MasterState
<1> HIDE DEF n
<1>4. p \in MasterState /\ q \in MasterState
  BY Zenon, <1>1, <1>3 DEF MasterState, ConnStates
<1>5. /\ SameFocus(d, p) /\ SameFocus(d, q)
      /\ \A x \in Remotes \ {r} : p.state[x] = d.state[x] /\ q.state[x] = d.state[x]
  BY Zenon, <1>1 DEF SameFocus, SameLoop, MasterState
<1>6. Shift(s, p) /\ Shift(s, q)
  BY Zenon, <1>1, <1>5, StateShift
<1> HIDE DEF p, q
<1>7. CASE t = Abort(q)
  <2>1. t.status = "aborted"
    BY Zenon, <1>4, <1>7 DEF Abort, MasterState
  <2> QED  BY Zenon, <2>1 DEF Shift
<1>8. ASSUME NEW a \in Addr, t = WithCall(q, a, r)
      PROVE  Shift(s, t)
  <2>1. SameFocus(q, t) /\ t.state = q.state
    BY <1>4, <1>8 DEF WithCall, SameFocus, SameLoop, MasterState
  <2>2. Shift(q, t)
    BY Zenon, <2>1, SameShift
  <2> QED  BY Zenon, <1>6, <2>2, ShiftTransitive
<1>9. CASE ~(n > MaxTries)
  BY <1>2, <1>4, <1>7, <1>8, <1>9, ScheduleCases
<1> QED  BY Zenon, <1>2, <1>6, <1>9

\* mc_enqueue_message and enqueue_message.
LEMMA EnqueueShift ==
  ASSUME NEW s, Inv(s), NEW e \in Env, NEW r \in Remotes, NEW k \in Nat
  PROVE  Shift(s, Enqueue(s, e, r, k))
<1> DEFINE room == MaxBacklog - s.queued[r]
           u == Queue(s, r, room + 1)
           f == FailRemote(u, e, r)
           rest == k - (room + 1)
           t == Enqueue(s, e, r, k)
<1>1. s \in MasterState /\ s.queued \in [Remotes -> Nat] /\ Base(s)
  BY Zenon DEF Inv, Base, MasterState
<1>2. MaxBacklog \in Nat
  BY Zenon, MasterAssumption
<1>3. room + 1 \in Int /\ s.queued[r] + (room + 1) \in Nat
  BY <1>1, <1>2
<1>4. t = IF k <= room THEN Queue(s, r, k)
          ELSE IF rest <= MaxBacklog THEN Queue(f, r, rest)
          ELSE Abort(Queue(f, r, rest))
  BY Zenon DEF Enqueue
<1> HIDE DEF room
<1>5. ASSUME NEW v \in MasterState, NEW i
      PROVE  Shift(v, Queue(v, r, i))
  <2>1. SameFocus(v, Queue(v, r, i)) /\ Queue(v, r, i).state = v.state
    BY Zenon DEF Queue, SameFocus, SameLoop, MasterState
  <2> QED  BY Zenon, <2>1, SameShift
<1>6. CASE k <= room
  BY Zenon, <1>1, <1>4, <1>5, <1>6
<1>7. CASE ~(k <= room)
  <2>1. SameConn(s, u)
    BY Zenon, <1>1, <1>3, QueueEffect
  <2>2. Base(u) /\ Shift(s, u)
    BY Zenon, <1>1, <1>5, <2>1, SameConnBase
  <2> HIDE DEF u
  <2>3. Base(f)
    BY Zenon, <2>2, FailBase
  <2>4. f \in MasterState /\ u \in MasterState
    BY Zenon, <2>2, <2>3 DEF Base
  <2> HIDE DEF f, rest
  <2> DEFINE g == Queue(f, r, rest)
  <2>5. Shift(s, f)
    BY Zenon, <2>2, <2>4, FailShift, ShiftTransitive DEF f
  <2>6. Shift(f, g)
    BY Zenon, <1>5, <2>4
  <2>7. Shift(s, g)
    BY Zenon, <2>5, <2>6, ShiftTransitive
  <2>8. CASE t = Abort(g)
    <3>1. DOMAIN g = DOMAIN f /\ "status" \in DOMAIN f
      BY Zenon, <2>4 DEF Queue, MasterState
    <3> HIDE DEF g
    <3>2. t.status = "aborted"
      BY Zenon, <2>8, <3>1 DEF Abort
    <3> QED  BY Zenon, <3>2 DEF Shift
  <2> QED  BY Zenon, <1>4, <1>7, <2>7, <2>8
<1> QED  BY Zenon, <1>6, <1>7

\* cancel_call.
LEMMA CancelFocus ==
  ASSUME NEW s \in MasterState, NEW e \in Env, NEW r \in Remotes
  PROVE  SameFocus(s, CancelCall(s, e, r)) /\ SameFocus(s, s)
<1> DEFINE h == s.timer[r]
           b == IF s.calls[h] = r THEN s.robbed ELSE s.robbed \cup {s.calls[h]}
           f == IF s.fades[e.hit] = 0 THEN 0 ELSE s.fades[e.hit] - 1
           c == CancelCall(s, e, r)
<1>1. \/ c = [s EXCEPT !.calls[h] = None, !.robbed = b]
      \/ c = [s EXCEPT !.fades[e.hit] = f]
      \/ c = s
  BY Zenon DEF CancelCall, MasterState
<1> HIDE DEF b, f, c, h
<1>2. SameFocus(s, c)
  BY Zenon, <1>1 DEF SameFocus, SameLoop, MasterState
<1> QED  BY Zenon, <1>2 DEF SameFocus, SameLoop, c

\* setup_remote.
LEMMA SetupFocus ==
  ASSUME NEW s \in MasterState, NEW r \in Remotes
  PROVE  /\ SameFocus(s, SetupRemote(s, r))
         /\ \A x \in Remotes \ {r} : SetupRemote(s, r).state[x] = s.state[x]
<1> DEFINE i == s.procs[r] + 1
           b == s.robbed \ {r}
           t == SetupRemote(s, r)
<1>1. t = [s EXCEPT !.state[r] = "SETTINGUP", !.chan[r] = TRUE, !.procs[r] = i,
                    !.queued[r] = 1, !.robbed = b]
  BY Zenon DEF SetupRemote, MasterState
<1> HIDE DEF i, b, t
<1>2. SameFocus(s, t) /\ t.state = [s.state EXCEPT ![r] = "SETTINGUP"]
  BY Zenon, <1>1 DEF SameFocus, SameLoop, MasterState
<1> QED  BY Zenon, <1>2 DEF t, MasterState

\* reconnect_remote.
LEMMA ReconnectShift ==
  ASSUME NEW s, Inv(s), NEW e \in Env, NEW r \in Remotes
  PROVE  Shift(s, ReconnectRemote(s, e, r))
<1> DEFINE c == IF s.timer[r] # None THEN CancelCall(s, e, r) ELSE s
           d == IF c.state[r] = "SETTINGUP" THEN DisconnectRemote(c, r) ELSE c
           z == [d EXCEPT !.failcount[r] = 0]
           t == ReconnectRemote(s, e, r)
<1>1. s \in MasterState /\ c \in MasterState /\ c.state = s.state
  BY CancelOthers DEF Others, Inv, Base
<1>2. t = IF s.state[r] = "CONNECTED" THEN s ELSE SetupRemote(z, r)
  BY Zenon DEF ReconnectRemote
<1>3. SameFocus(s, c)
  BY Zenon, <1>1, CancelFocus
<1>4. Shift(s, c)
  BY Zenon, <1>1, <1>3, SameShift
<1> HIDE DEF c
<1>5. CASE s.state[r] = "CONNECTED"
  BY Zenon, <1>2, <1>5, SameShift DEF SameFocus, SameLoop
<1>6. CASE s.state[r] # "CONNECTED"
  <2>1. /\ d \in MasterState /\ Shift(s, d)
        /\ d.status = "running" => d.state[r] # "CONNECTED" \/ d.focused # r
    <3>1. CASE c.state[r] = "SETTINGUP"
      BY Zenon, <1>1, <1>4, <3>1, DisconnectEffect, DisconnectShift, ShiftTransitive
    <3>2. CASE c.state[r] # "SETTINGUP"
      BY Zenon, <1>1, <1>4, <1>6, <3>2
    <3> QED  BY Zenon, <3>1, <3>2
  <2> HIDE DEF d
  <2>2. z \in MasterState /\ SameFocus(d, z) /\ z.state = d.state
    BY Zenon, <2>1 DEF SameFocus, SameLoop, MasterState
  <2>t. t = SetupRemote(z, r)
    BY Zenon, <1>2, <1>6
  <2> HIDE DEF z, t
  <2>3. SameFocus(d, t) /\ \A x \in Remotes \ {r} : t.state[x] = d.state[x]
    BY <2>2, <2>t, SetupFocus DEF SameFocus, SameLoop
  <2>4. CASE d.status = "running"
    <3>1. Shift(d, t)
      BY Zenon, <2>1, <2>3, <2>4, SameShift
    <3> QED  BY Zenon, <2>1, <3>1, ShiftTransitive DEF t
  <2>5. CASE d.status # "running"
    BY Zenon, <2>3, <2>5 DEF SameFocus, Shift, t
  <2> QED  BY Zenon, <2>4, <2>5
<1> QED  BY Zenon, <1>5, <1>6

\* set_node_display_brightness and transition_brightness.
LEMMA TransitionShift ==
  ASSUME NEW s, Inv(s), NEW e \in Env, NEW n \in Nodes
  PROVE  /\ Shift(s, SetBrightness(s, e, n))
         /\ Shift(s, TransitionBrightness(s, e, n))
<1> DEFINE b == SetBrightness(s, e, n)
           i == b.fades[n] + FadeSteps
           t == [b EXCEPT !.fades[n] = i]
<1>1. Shift(s, s)
  BY Zenon DEF Shift, SameLoop, Keeps
<1>2. Shift(s, b)
  BY Zenon, <1>1, EnqueueShift DEF SetBrightness
<1>3. b \in MasterState
  BY Zenon, TransitionInv DEF Inv, Base
<1>4. TransitionBrightness(s, e, n) = t
  BY Zenon, <1>3 DEF TransitionBrightness, MasterState
<1> HIDE DEF b, i
<1>5. SameFocus(b, t) /\ t.state = b.state
  BY Zenon, <1>3 DEF SameFocus, SameLoop, MasterState
<1>6. Shift(b, t)
  BY Zenon, <1>5, SameShift
<1> QED  BY Zenon, <1>2, <1>4, <1>6, ShiftTransitive DEF b

\* indicate_switch.
LEMMA IndicateShift ==
  ASSUME NEW s, Inv(s), NEW e \in Env, NEW from \in Nodes, NEW to \in Nodes
  PROVE  Shift(s, IndicateSwitch(s, e, from, to))
<1> DEFINE u == IF from # to THEN TransitionBrightness(s, e, from) ELSE s
<1>1. Shift(s, s)
  BY Zenon DEF Shift, SameLoop, Keeps
<1>2. Inv(u) /\ Shift(s, u)
  BY Zenon, <1>1, TransitionInv, TransitionShift
<1> HIDE DEF u
<1>3. Shift(s, TransitionBrightness(u, e, to))
  BY Zenon, <1>2, TransitionShift, ShiftTransitive
<1>4. \/ IndicateSwitch(s, e, from, to) = s
      \/ IndicateSwitch(s, e, from, to) = TransitionBrightness(s, e, to)
      \/ IndicateSwitch(s, e, from, to) = TransitionBrightness(u, e, to)
  BY Zenon, MasterAssumption DEF IndicateSwitch, u
<1> QED  BY Zenon, <1>1, <1>3, <1>4, TransitionShift

\* transfer_modifiers.
LEMMA TransferShift ==
  ASSUME NEW s, Inv(s), NEW e \in Env, NEW from \in Nodes, NEW to \in Nodes,
         NEW k \in Nat
  PROVE  Shift(s, TransferModifiers(s, e, from, to, k))
<1> DEFINE t == IF from \in Remotes THEN Enqueue(s, e, from, k) ELSE s
<1>1. Shift(s, s)
  BY Zenon DEF Shift, SameLoop, Keeps
<1>2. Inv(t) /\ Shift(s, t)
  BY Zenon, <1>1, EnqueueInv, EnqueueShift
<1>3. TransferModifiers(s, e, from, to, k)
        = IF to \in Remotes THEN Enqueue(t, e, to, k) ELSE t
  BY DEF TransferModifiers
<1> HIDE DEF t
<1>4. to \in Remotes => Shift(t, Enqueue(t, e, to, k))
  BY Zenon, <1>2, EnqueueShift
<1> QED  BY Zenon, <1>2, <1>3, <1>4, ShiftTransitive

-----------------------------------------------------------------------------
(***************************************************************************)
(* focus_node.                                                             *)
(***************************************************************************)
\* Before the end of focus_node: the inputs are grabbed as they will have to
\* be, unless the switch has been disturbed.
Ready(s, from, to, stale) ==
  IF to = MasterNode THEN s.grab # "held"
  ELSE IF from \in Remotes THEN s.focused \in Remotes /\ ~s.torn => s.grab # "none"
  ELSE s.focused = MasterNode /\ ~stale => s.grab # "none"

Prepared(s, from, to, stale) ==
  s.status = "running" =>
    /\ Ready(s, from, to, stale)
    /\ from = MasterNode => s.focused = MasterNode \/ stale

LEMMA ShiftReady ==
  ASSUME NEW s \in MasterState, NEW t, NEW from \in Nodes, NEW to \in Nodes, NEW stale,
         Ready(s, from, to, stale), Shift(s, t), t.status = "running",
         from = MasterNode => s.focused = MasterNode \/ stale
  PROVE  Ready(t, from, to, stale)
<1>1. s.focused \in Nodes
  BY Zenon DEF MasterState
<1>2. CASE Keeps(s, t)
  BY Zenon, <1>2 DEF Keeps, Ready
<1>3. CASE Reverts(s, t)
  BY Zenon, <1>1, <1>3, MasterAssumption DEF Reverts, Ready, Nodes
<1> QED  BY Zenon, <1>2, <1>3 DEF Shift

\* The end of focus_node leaves the focus on a node that is ready for it.
LEMMA CompleteFocus ==
  ASSUME NEW s, Inv(s), NEW e \in Env, NEW from \in Nodes, NEW to \in Nodes,
         NEW k \in Nat, NEW edge \in BOOLEAN, NEW stale \in BOOLEAN, from # to,
         Prepared(s, from, to, stale),
         CompleteSwitch(s, e, from, to, k, edge, stale).status = "running"
  PROVE  /\ Focus(CompleteSwitch(s, e, from, to, k, edge, stale))
         /\ CompleteSwitch(s, e, from, to, k, edge, stale).loop = s.loop
         /\ s.status = "running"
<1> DEFINE t == TransferModifiers(s, e, from, to, k)
           b == /\ to \in Remotes
                /\ \/ stale
                   \/ from \in Remotes /\ t.torn
                   \/ t.focused # from
                   \/ t.state[to] # "CONNECTED"
           u == [t EXCEPT !.last = t.focused, !.focused = to, !.disturbed = TRUE,
                          !.torn = b]
           c == CompleteSwitch(s, e, from, to, k, edge, stale)
<1>1. Inv(t) /\ Shift(s, t)
  BY Zenon, TransferInv, TransferShift
<1>2. c = IF edge THEN Reposition(u, e) ELSE u
  BY Zenon DEF CompleteSwitch
<1>3. s \in MasterState
  BY Zenon DEF Inv, Base
<1> HIDE DEF t
<1>4. t \in MasterState /\ b \in BOOLEAN
  BY Zenon, <1>1 DEF Inv, Base, MasterState
<1>b. b <=> /\ to \in Remotes
            /\ \/ stale
               \/ from \in Remotes /\ t.torn
               \/ t.focused # from
               \/ t.state[to] # "CONNECTED"
  BY Zenon
<1> HIDE DEF b
<1>5. u \in MasterState
  BY Zenon, <1>4 DEF MasterState
<1>6. /\ SameConn(t, u) /\ u.queued = t.queued /\ u.focused = to /\ u.grab = t.grab
      /\ u.disturbed = TRUE /\ u.torn = b /\ u.status = t.status /\ u.loop = t.loop
  BY Zenon, <1>4, <1>5 DEF SameConn, MasterState
<1> HIDE DEF u, c
<1>7. Inv(u)
  BY Zenon, <1>1, <1>6, SameInv
<1>8. Shift(u, c)
  <2>1. Shift(u, u)
    BY Zenon DEF Shift, SameLoop, Keeps
  <2> QED  BY Zenon, <1>2, <1>7, <2>1, EnqueueShift DEF Reposition
<1>9. u.status = "running" /\ t.status = "running" /\ s.status = "running"
  BY Zenon, <1>1, <1>6, <1>8 DEF Shift, c
<1>10. Ready(t, from, to, stale)
  BY Zenon, <1>1, <1>3, <1>9, ShiftReady DEF Prepared
<1>11. Focus(u)
  <2>1. CASE to = MasterNode
    BY <1>6, <1>10, <2>1, MasterAssumption DEF Ready, Focus
  <2>2. CASE to \in Remotes
    <3>1. ASSUME ~u.torn PROVE t.state[to] = "CONNECTED" /\ t.grab # "none"
      BY <1>b, <1>6, <1>10, <2>2, <3>1, MasterAssumption DEF Ready, Nodes
    <3> QED  BY Zenon, <1>6, <2>2, <3>1, MasterAssumption DEF Focus, SameConn
  <2> QED  BY Zenon, <2>1, <2>2 DEF Nodes
<1>12. Focus(c)
  BY Zenon, <1>8, <1>11, ShiftFocus DEF c
<1>13. c.loop = s.loop
  BY Zenon, <1>1, <1>6, <1>8, <1>9 DEF Shift, SameLoop, c
<1> QED  BY Zenon, <1>9, <1>12, <1>13 DEF c

\* A wait for the clipboard begins.
LEMMA AwaitEffect ==
  ASSUME NEW s \in MasterState, NEW kind \in {"focus", "forward"}, NEW to \in Remotes,
         NEW k \in 0..MaxMods, NEW edge \in BOOLEAN
  PROVE  LET t == AwaitSelection(s, kind, to, k, edge)
         IN /\ t.focused = s.focused /\ t.grab = s.grab /\ t.torn = s.torn
            /\ t.state = s.state /\ t.status = s.status /\ t.loop = s.loop
            /\ kind = "focus" => FocusFrame(t)
            /\ kind = "forward" /\ s.frames = <<>> => ~FocusFrame(t)
<1> DEFINE f == [kind |-> kind, to |-> to, mods |-> k, edge |-> edge, rest |-> s.edges]
           q == <<f>> \o s.frames
           b == s.disturbed /\ s.frames # <<>>
           t == AwaitSelection(s, kind, to, k, edge)
<1>1. f \in Frames /\ s.frames \in Seq(Frames) /\ f.kind = kind
  BY Zenon DEF Frames, MasterState
<1>2. t = [s EXCEPT !.frames = q, !.edges = {}, !.disturbed = b]
  BY Zenon DEF AwaitSelection, MasterState
<1> HIDE DEF f
<1>3. /\ 1 \in DOMAIN q /\ q[1] = f
      /\ s.frames = <<>> => \A i \in DOMAIN q : i = 1
  BY <1>1
<1> HIDE DEF q, b, t
<1>4. /\ t.focused = s.focused /\ t.grab = s.grab /\ t.torn = s.torn
      /\ t.state = s.state /\ t.status = s.status /\ t.loop = s.loop /\ t.frames = q
  BY Zenon, <1>2 DEF MasterState
<1>5. /\ kind = "focus" => FocusFrame(t)
      /\ kind = "forward" /\ s.frames = <<>> => ~FocusFrame(t)
  BY Zenon, <1>1, <1>3, <1>4 DEF FocusFrame
<1> QED  BY Zenon, <1>4, <1>5 DEF t

\* focus_node preserves the invariant of the focus, wherever a connection
\* fails on the way.
LEMMA FocusNodeFocus ==
  ASSUME NEW s, Inv(s), Focus(s), NEW e \in Env, NEW n \in Nodes \cup {None},
         NEW k \in 0..MaxMods, NEW edge \in BOOLEAN,
         FocusNode(s, e, n, k, edge).status = "running"
  PROVE  Focus(FocusNode(s, e, n, k, edge)) /\ FocusNode(s, e, n, k, edge).loop = s.loop
<1> DEFINE absent == n \in Remotes /\ s.state[n] # "CONNECTED"
           p    == IF absent THEN ReconnectRemote(s, e, n) ELSE s
           from == p.focused
           to   == IF n = None \/ absent THEN from ELSE n
           show == \/ to # from
                   \/ ShowNullSwitch = "yes"
                   \/ ShowNullSwitch = "hotkeyonly" /\ ~edge
           i    == IF show THEN IndicateSwitch(p, e, from, to) ELSE p
           g    == Regrab(i, e, from, to)
           t    == FocusNode(s, e, n, k, edge)
<1>1. t = IF to = from THEN i
          ELSE IF from \in Remotes
          THEN CompleteSwitch(Enqueue(g, e, from, 1), e, from, to, k, edge, FALSE)
          ELSE IF g.ownsel
          THEN CompleteSwitch(Enqueue(g, e, to, 1), e, from, to, k, edge, FALSE)
          ELSE AwaitSelection(g, "focus", to, k, edge)
  BY Zenon DEF FocusNode
<1>2. \A v : Shift(v, v)
  BY Zenon, SMTT(30) DEF Shift, SameLoop, Keeps
<1>3. Inv(p) /\ Shift(s, p)
  BY Zenon, <1>2, ReconnectInv, ReconnectShift
<1> HIDE DEF p
<1>4. from \in Nodes /\ from = p.focused
  BY Zenon, <1>3 DEF Inv, Base, MasterState
<1>5. to \in Nodes
  BY Zenon, <1>4
<1> HIDE DEF from, to, show, t
<1>6. Inv(i) /\ Shift(p, i)
  BY Zenon, <1>2, <1>3, <1>4, <1>5, IndicateInv, IndicateShift
<1> HIDE DEF i
<1>7. Inv(g)
  BY Zenon, <1>4, <1>5, <1>6, RegrabInv
<1>8. i \in MasterState /\ g \in MasterState
  BY Zenon, <1>6, <1>7 DEF Inv, Base
<1>9. /\ g.grab = IF to = MasterNode THEN "none"
                  ELSE IF from # MasterNode THEN i.grab
                  ELSE IF e.grabok THEN "held" ELSE "refused"
      /\ g.focused = i.focused /\ g.torn = i.torn /\ g.disturbed = i.disturbed
      /\ g.loop = i.loop /\ g.status = i.status
  BY <1>8 DEF Regrab, MasterState
<1> HIDE DEF g
<1>10. k \in Nat
  BY MasterAssumption
<1>11. Shift(s, i)
  BY Zenon, <1>3, <1>6, ShiftTransitive
<1>12. i.status = "running" => Focus(i) /\ i.loop = s.loop
  BY Zenon, <1>11, ShiftFocus DEF Shift, SameLoop
<1>13. i.status = "running" /\ from = MasterNode => i.focused = MasterNode
  BY Zenon, <1>4, <1>6, MasterAssumption DEF Shift, Keeps, Reverts
<1>14. CASE to = from
  BY Zenon, <1>1, <1>12, <1>14 DEF t
<1>15. ASSUME to # from, NEW x \in Remotes,
              t = CompleteSwitch(Enqueue(g, e, x, 1), e, from, to, k, edge, FALSE)
       PROVE  Focus(t) /\ t.loop = s.loop
  <2> DEFINE q == Enqueue(g, e, x, 1)
  <2>1. Inv(q) /\ Shift(g, q)
    BY Zenon, <1>7, EnqueueInv, EnqueueShift
  <2> HIDE DEF q
  <2>2. ASSUME q.status = "running"
        PROVE  /\ Ready(q, from, to, FALSE) /\ q.loop = s.loop
               /\ from = MasterNode => q.focused = MasterNode
    <3>1. g.status = "running" /\ i.status = "running"
      BY Zenon, <1>9, <2>1, <2>2 DEF Shift
    <3>2. Focus(i)
      BY Zenon, <1>12, <3>1
    <3>3. Ready(g, from, to, FALSE)
      BY <1>4, <1>5, <1>9, <3>2, MasterAssumption DEF Ready, Focus, Nodes
    <3>4. from = MasterNode => g.focused = MasterNode
      BY Zenon, <1>9, <1>13, <3>1
    <3>5. Ready(q, from, to, FALSE)
      BY Zenon, <1>4, <1>5, <1>8, <2>1, <2>2, <3>3, <3>4, ShiftReady
    <3>6. from = MasterNode => q.focused = MasterNode
      BY <2>1, <2>2, <3>4, MasterAssumption DEF Shift, Keeps, Reverts
    <3>7. q.loop = s.loop
      BY Zenon, <1>9, <1>12, <2>1, <2>2, <3>1 DEF Shift, SameLoop
    <3> QED  BY Zenon, <3>5, <3>6, <3>7
  <2>3. t = CompleteSwitch(q, e, from, to, k, edge, FALSE) /\ t.status = "running"
    BY Zenon, <1>15 DEF q, t
  <2>h. PICK st \in BOOLEAN : st = FALSE
    BY Zenon
  <2>c. t = CompleteSwitch(q, e, from, to, k, edge, st)
    BY Zenon, <2>3, <2>h
  <2>p. Prepared(q, from, to, st)
    BY Zenon, <2>2, <2>h DEF Prepared, Ready
  <2>4. Focus(t) /\ t.loop = q.loop /\ q.status = "running"
    <3>1. from # to /\ CompleteSwitch(q, e, from, to, k, edge, st).status = "running"
      BY Zenon, <1>15, <2>3, <2>c
    <3>2. Inv(q) /\ from \in Nodes /\ to \in Nodes
      BY Zenon, <1>4, <1>5, <2>1
    <3>3. /\ Focus(CompleteSwitch(q, e, from, to, k, edge, st))
          /\ CompleteSwitch(q, e, from, to, k, edge, st).loop = q.loop
          /\ q.status = "running"
      BY SMTT(30), <1>10, <2>p, <3>1, <3>2, CompleteFocus
    <3> QED  BY Zenon, <2>c, <3>3
  <2> QED  BY Zenon, <2>2, <2>4
<1>16. ASSUME to # from, from \notin Remotes, t = AwaitSelection(g, "focus", to, k, edge)
       PROVE  Focus(t) /\ t.loop = s.loop
  <2>1. to \in Remotes /\ from = MasterNode
    BY Zenon, <1>4, <1>5, <1>16 DEF Nodes
  <2>2. /\ t.focused = g.focused /\ t.grab = g.grab /\ t.status = g.status
        /\ t.loop = g.loop /\ FocusFrame(t)
    BY SMTT(30), <1>8, <1>16, <2>1, AwaitEffect
  <2>3. i.status = "running"
    BY Zenon, <1>9, <2>2 DEF t
  <2>4. t.focused = MasterNode /\ t.grab # "none"
    BY Zenon, <1>9, <1>13, <2>1, <2>2, <2>3, MasterAssumption
  <2> QED  BY Zenon, <1>9, <1>12, <2>2, <2>3, <2>4, MasterAssumption DEF Focus
<1> QED
  <2>1. from \notin Remotes /\ to # from => to \in Remotes
    BY Zenon, <1>4, <1>5 DEF Nodes
  <2> QED  BY Zenon, <1>1, <1>14, <1>15, <1>16, <2>1 DEF t

\* The loops' bodies; halt_reconnects stops the attempts of the remote it visits
\* and leaves the others alone.
LEMMA LoopShift ==
  ASSUME NEW s, Inv(s), s.status = "running", NEW e \in Env, NEW r \in Remotes
  PROVE  LET b == LoopBody(s, e, r)
         IN /\ Shift(s, b)
            /\ s.loop = "halt" /\ b.status = "running" =>
                 /\ b.state[r] \notin {"SETTINGUP", "FAILED"}
                 /\ \A x \in Remotes \ {r} : b.state[x] = s.state[x]
<1> DEFINE b == LoopBody(s, e, r)
<1>1. Shift(s, s) /\ s \in MasterState
  BY Zenon, SMTT(30) DEF Shift, SameLoop, Keeps, Inv, Base
<1>2. CASE s.loop # "halt"
  <2>1. b = s \/ b = ReconnectRemote(s, e, r) \/ b = Enqueue(s, e, r, 1)
    BY Zenon, <1>2 DEF LoopBody
  <2> QED  BY Zenon, <1>1, <1>2, <2>1, ReconnectShift, EnqueueShift
<1>3. CASE s.loop = "halt"
  <2> DEFINE d == IF s.state[r] = "SETTINGUP" THEN DisconnectRemote(s, r)
                  ELSE IF s.state[r] = "FAILED" /\ s.timer[r] # None
                  THEN CancelCall(s, e, r) ELSE s
             t == [d EXCEPT !.state[r] = "PERMFAILED"]
  <2>1. b = IF s.state[r] \in {"SETTINGUP", "FAILED"} THEN t ELSE s
    BY Zenon, <1>3 DEF LoopBody
  <2>2. CASE s.state[r] \notin {"SETTINGUP", "FAILED"}
    BY Zenon, <1>1, <2>1, <2>2
  <2>3. CASE s.state[r] \in {"SETTINGUP", "FAILED"}
    <3>1. /\ d \in MasterState /\ Shift(s, d)
          /\ d.status = "running" => /\ d.state = s.state
                                     /\ d.focused # r \/ d.state[r] # "CONNECTED"
      <4>1. CASE s.state[r] = "SETTINGUP"
        BY ZenonT(30), <1>1, <4>1, DisconnectEffect, DisconnectShift
      <4>2. CASE s.state[r] = "FAILED"
        <5>1. s.timer[r] # None
          BY Zenon, <4>2 DEF Inv, Base, FailedOK
        <5>2. d = CancelCall(s, e, r)
          BY Zenon, <4>2, <5>1
        <5>3. d \in MasterState /\ d.state = s.state /\ SameFocus(s, d)
          BY SMTT(30), <1>1, <5>1, <5>2, CancelEffect, CancelFocus
        <5> QED  BY ZenonT(30), <4>2, <5>3, SameShift
      <4> QED  BY ZenonT(30), <2>3, <4>1, <4>2
    <3> HIDE DEF d
    <3>2. SameFocus(d, t) /\ t.state = [d.state EXCEPT ![r] = "PERMFAILED"]
      BY Zenon, <3>1 DEF SameFocus, SameLoop, MasterState
    <3>3. d.state \in [Remotes -> ConnStates]
      BY Zenon, <3>1 DEF MasterState
    <3> HIDE DEF t
    <3>4. b = t
      BY Zenon, <2>1, <2>3
    <3>5. CASE d.status = "running"
      <4>1. Shift(d, t)
        BY Zenon, <3>1, <3>2, <3>3, <3>5, SameShift
      <4>2. Shift(s, t)
        BY Zenon, <3>1, <4>1, ShiftTransitive
      <4>3. t.state[r] = "PERMFAILED" /\ \A x \in Remotes \ {r} : t.state[x] = s.state[x]
        BY Zenon, <3>1, <3>2, <3>3, <3>5
      <4> QED  BY Zenon, <3>4, <4>2, <4>3
    <3>6. CASE d.status # "running"
      <4>1. t.status # "running"
        BY Zenon, <3>2, <3>6 DEF SameFocus
      <4> QED  BY Zenon, <3>4, <4>1 DEF Shift
    <3> QED  BY Zenon, <3>5, <3>6
  <2> QED  BY Zenon, <2>2, <2>3
<1> QED  BY Zenon, <1>2, <1>3

-----------------------------------------------------------------------------
(***************************************************************************)
(* The invariant of the process.                                           *)
(***************************************************************************)
FInv == IInv /\ (Running => Focus(m) /\ Halting(m))

\* The invariant holds when main enters the event loop.
LEMMA InitFocus == Init => FInv
<1> SUFFICES ASSUME Init PROVE FInv
  BY SMTT(30)
<1>1. m.focused = MasterNode /\ m.grab = "none" /\ m.frames = <<>> /\ m.loop = "none"
  BY Zenon DEF Init
<1>2. ~FocusFrame(m)
  BY <1>1 DEF FocusFrame
<1>3. Focus(m) /\ Halting(m)
  BY Zenon, <1>1, <1>2, MasterAssumption DEF Focus, Halting
<1> QED  BY Zenon, <1>3, InitInv DEF FInv

\* A callback of the idle event loop that shifts the focus at most.
LEMMA IdleShift ==
  ASSUME Focus(m), Halting(m), m.todo = {}, Shift(m, m')
  PROVE  m'.status = "running" => Focus(m') /\ Halting(m')
<1>1. m.loop # "halt"
  BY Zenon, SMTT(30) DEF Halting
<1> QED  BY Zenon, <1>1, ShiftFocus DEF Shift, SameLoop, Halting

\* A change of the fields that the callbacks themselves change.
LEMMA ControlFocus ==
  ASSUME NEW s \in MasterState, Focus(s), NEW t, NEW lp, NEW td, NEW ed, NEW ow,
         t = Control(s, lp, td, ed, ow, s.frames)
  PROVE  Focus(t) /\ t.state = s.state /\ t.loop = lp /\ t.todo = td /\ t.edges = ed
<1>1. /\ t.focused = s.focused /\ t.grab = s.grab /\ t.torn = s.torn
      /\ t.disturbed = s.disturbed /\ t.frames = s.frames /\ t.state = s.state
      /\ t.loop = lp /\ t.todo = td /\ t.edges = ed
  BY Zenon, SMTT(30) DEF Control, MasterState
<1>2. FocusFrame(t) <=> FocusFrame(s)
  BY Zenon, <1>1 DEF FocusFrame
<1> QED  BY Zenon, <1>1, <1>2 DEF Focus

\* The end of a clipboard wait.
LEMMA ArrivesFocus ==
  ASSUME Inv(m), Focus(m), Halting(m), NEW e \in Env, SelectionArrives(e),
         m'.status = "running"
  PROVE  Focus(m') /\ Halting(m')
<1> DEFINE f == Head(m.frames)
           u == [m EXCEPT !.frames = Tail(@)]
           q == Enqueue(u, e, f.to, 1)
           c == CompleteSwitch(q, e, MasterNode, f.to, f.mods, f.edge, m.disturbed)
<1>1. /\ m \in MasterState /\ m.frames # <<>> /\ m.disturbed \in BOOLEAN /\ m.todo = {}
      /\ m.frames \in Seq(Frames)
  BY Zenon DEF SelectionArrives, XIdle, Inv, Base, MasterState
<1>2. f \in Frames /\ Tail(m.frames) \in Seq(Frames)
  BY <1>1
<1>3. m.loop # "halt"
  BY Zenon, <1>1 DEF Halting
<1>4. \/ f.kind = "focus" /\ m' = [c EXCEPT !.edges = f.rest]
      \/ /\ f.kind = "forward"
         /\ m' = u \/ \E n \in Remotes : m' = Enqueue(u, e, n, 1)
  BY Zenon DEF SelectionArrives, Step
<1>5. /\ f.to \in Remotes /\ f.to \in Nodes /\ f.mods \in Nat /\ f.edge \in BOOLEAN
      /\ f.rest \in SUBSET Directions /\ MasterNode \in Nodes
  BY SMTT(30), <1>2, MasterAssumption DEF Frames, Nodes
<1>6. /\ m.loop \in {"none", "reconnect", "halt", "clear", "loglevel"}
      /\ m.todo \in SUBSET Remotes /\ m.edges \in SUBSET Directions /\ m.ownsel \in BOOLEAN
  BY Zenon, <1>1 DEF MasterState
<1>7. Inv(u)
  <2>1. u = Control(m, m.loop, m.todo, m.edges, m.ownsel, Tail(m.frames))
    BY Zenon, <1>1 DEF Control, MasterState
  <2>2. Inv(Control(m, m.loop, m.todo, m.edges, m.ownsel, Tail(m.frames)))
    BY Zenon, <1>2, <1>6, ControlInv
  <2> QED  BY Zenon, <2>1, <2>2
<1>8. /\ u.focused = m.focused /\ u.grab = m.grab /\ u.torn = m.torn
      /\ u.disturbed = m.disturbed /\ u.state = m.state /\ u.status = m.status
      /\ u.loop = m.loop /\ u.frames = Tail(m.frames)
  BY Zenon, <1>1 DEF MasterState
<1>9. /\ f.kind = "focus" => FocusFrame(m)
      /\ f.kind = "forward" => (FocusFrame(m) <=> FocusFrame(u))
  <2>1. /\ Len(m.frames) \in Nat \ {0} /\ DOMAIN m.frames = 1..Len(m.frames)
        /\ f = m.frames[1] /\ DOMAIN u.frames = 1..Len(m.frames) - 1
        /\ \A i \in 1..Len(m.frames) - 1 : u.frames[i] = m.frames[i + 1]
    BY <1>1, <1>8
  <2> HIDE DEF f, u
  <2>2. f.kind = "focus" => FocusFrame(m)
    BY <2>1 DEF FocusFrame
  <2>3. FocusFrame(u) => FocusFrame(m)
    <3>1. \A i \in 1..Len(m.frames) - 1 : i + 1 \in 1..Len(m.frames)
      BY <2>1
    <3> QED  BY Zenon, <2>1, <3>1 DEF FocusFrame
  <2>4. ASSUME f.kind = "forward", FocusFrame(m) PROVE FocusFrame(u)
    <3>1. PICK i \in 1..Len(m.frames) : m.frames[i].kind = "focus"
      BY Zenon, <2>1, <2>4 DEF FocusFrame
    <3>2. i # 1
      BY Zenon, <2>1, <2>4, <3>1
    <3>3. i - 1 \in 1..Len(m.frames) - 1 /\ (i - 1) + 1 = i
      BY <2>1, <3>2
    <3> QED  BY Zenon, <2>1, <3>1, <3>3 DEF FocusFrame
  <2> QED  BY Zenon, <2>2, <2>3, <2>4
<1> HIDE DEF f, u
<1>10. CASE f.kind = "focus" /\ m' = [c EXCEPT !.edges = f.rest]
  <2>1. Inv(q) /\ Shift(u, q)
    BY SMTT(30), <1>5, <1>7, EnqueueInv, EnqueueShift
  <2> HIDE DEF q
  <2>2. Inv(c)
    BY Zenon, <1>1, <1>5, <2>1, CompleteInv
  <2>3. Prepared(q, MasterNode, f.to, m.disturbed)
    <3>1. m.disturbed \/ (m.focused = MasterNode /\ m.grab # "none")
      BY SMTT(30), <1>9, <1>10 DEF Focus
    <3>2. f.to # MasterNode /\ MasterNode \notin Remotes
      BY Zenon, <1>5, MasterAssumption
    <3>3. ASSUME q.status = "running", ~m.disturbed
          PROVE  q.focused = MasterNode /\ q.grab # "none"
      BY Zenon, <1>8, <2>1, <3>1, <3>2, <3>3 DEF Shift, Keeps, Reverts
    <3> QED  BY Zenon, <3>2, <3>3 DEF Prepared, Ready
  <2>4. c \in MasterState
    BY Zenon, <2>2 DEF Inv, Base
  <2>5. /\ m'.status = c.status /\ m'.loop = c.loop /\ m'.focused = c.focused
        /\ m'.grab = c.grab /\ m'.torn = c.torn /\ m'.disturbed = c.disturbed
        /\ m'.frames = c.frames /\ m'.state = c.state
    <3> HIDE DEF c
    <3> QED  BY Zenon, <1>10, <2>4 DEF MasterState
  <2>6. c.status = "running" /\ MasterNode # f.to
    BY ZenonT(30), <1>5, <2>5, MasterAssumption
  <2>7. Focus(c) /\ c.loop = q.loop /\ q.status = "running"
    BY SMTT(30), <1>1, <1>5, <2>1, <2>3, <2>6, CompleteFocus
  <2> HIDE DEF c
  <2>8. m'.loop # "halt"
    BY Zenon, <1>3, <1>8, <2>1, <2>5, <2>7 DEF Shift, SameLoop
  <2>9. Focus(m')
    <3>1. FocusFrame(m') <=> FocusFrame(c)
      BY Zenon, <2>5 DEF FocusFrame
    <3> QED  BY Zenon, <2>5, <2>7, <3>1 DEF Focus
  <2> QED  BY Zenon, <2>8, <2>9 DEF Halting
<1>11. CASE f.kind = "forward" /\ (m' = u \/ \E n \in Remotes : m' = Enqueue(u, e, n, 1))
  <2>1. Focus(u)
    BY Zenon, <1>8, <1>9, <1>11 DEF Focus
  <2>2. Shift(u, m')
    <3>1. Shift(u, u)
      BY Zenon DEF Shift, SameLoop, Keeps
    <3> QED  BY Zenon, <1>7, <1>11, <3>1, EnqueueShift
  <2>3. Focus(m')
    BY Zenon, <2>1, <2>2, ShiftFocus
  <2>4. m'.loop # "halt"
    BY Zenon, <1>3, <1>8, <2>2 DEF Shift, SameLoop
  <2> QED  BY Zenon, <2>3, <2>4 DEF Halting
<1> QED  BY Zenon, <1>4, <1>10, <1>11

\* Every callback preserves the invariant of the focus.
LEMMA NextFocus == FInv /\ [Next]_m => FInv'
<1> SUFFICES ASSUME FInv, Next, m.status = "running", m'.status = "running"
             PROVE  Focus(m') /\ Halting(m')
  <2>1. ASSUME FInv, m' = m PROVE FInv'
    BY Zenon, <2>1 DEF FInv, IInv, Running
  <2>2. Next => m.status = "running"
    BY ZenonT(30) DEF Next, FocusDirection, EdgeStep, FocusTo, FocusPrevious, UserInput,
           SelectionArrives, BrightnessTimer, LoopStep, ChannelFails, ReceiveReady,
           ReceiveClipboard, StartLoop, MousePos, ReceiveMousePos, SelectionCleared,
           Writable, ReconnectTimer, Quit, Crash, XIdle, LoopIdle
  <2>3. FInv /\ Next => IInv'
    BY Zenon, NextInv DEF FInv
  <2> QED  BY Zenon, <2>1, <2>2, <2>3 DEF FInv, Running
<1> USE DEF XIdle, LoopIdle, Step
<1>1. Inv(m) /\ m \in MasterState /\ Focus(m) /\ Halting(m)
  BY Zenon DEF FInv, IInv, Inv, Base, Running
<1>types. /\ m.loop \in {"none", "reconnect", "halt", "clear", "loglevel"}
          /\ m.todo \in SUBSET Remotes /\ m.edges \in SUBSET Directions
          /\ m.ownsel \in BOOLEAN /\ m.frames \in Seq(Frames)
          /\ m.focused \in Nodes /\ m.last \in Nodes
  BY Zenon, <1>1 DEF MasterState
<1>idle. /\ m.todo = {} => m.loop # "halt"
         /\ m.edges # {} => m.loop # "halt"
  BY Zenon, <1>1 DEF Halting
<1>calm. m'.loop # "halt" => Halting(m')
  BY Zenon, SMTT(30) DEF Halting
<1>2. ASSUME NEW e \in Env, NEW k \in 0..MaxMods, NEW n \in Nodes \cup {None},
             m.todo = {}, m' = FocusNode(m, e, n, k, FALSE)
      PROVE  Focus(m') /\ Halting(m')
  <2>1. FocusNode(m, e, n, k, FALSE).status = "running" /\ FALSE \in BOOLEAN
    BY Zenon, <1>2
  <2>2. Focus(FocusNode(m, e, n, k, FALSE)) /\ FocusNode(m, e, n, k, FALSE).loop = m.loop
    BY Zenon, <1>1, <2>1, FocusNodeFocus
  <2> QED  BY Zenon, <1>2, <1>idle, <1>calm, <2>2
<1>3. ASSUME NEW e \in Env, NEW k \in 0..MaxMods, NEW d \in Directions,
             FocusDirection(d, k, e)
      PROVE  Focus(m') /\ Halting(m')
  <2>1. Neighbors[<<m.focused, d>>] \in Nodes \cup {None}
    BY SMTT(30), <1>types, MasterAssumption
  <2> QED  BY Zenon, <1>2, <1>3, <2>1 DEF FocusDirection
<1>4. ASSUME NEW e \in Env, NEW k \in 0..MaxMods, NEW d \in Directions,
             EdgeStep(d, k, e)
      PROVE  Focus(m') /\ Halting(m')
  <2> DEFINE u == [m EXCEPT !.edges = @ \ {d}]
             n == Neighbors[<<m.focused, d>>]
  <2>1. n \in Nodes \cup {None} /\ m.loop # "halt" /\ m.edges \ {d} \in SUBSET Directions
    BY Zenon, <1>types, <1>idle, <1>4, MasterAssumption DEF EdgeStep
  <2>2. u = Control(m, m.loop, m.todo, m.edges \ {d}, m.ownsel, m.frames)
    BY Zenon, <1>1 DEF Control, MasterState
  <2>3. m' = FocusNode(u, e, n, k, TRUE)
    BY Zenon, <1>4 DEF EdgeStep
  <2> HIDE DEF u, n
  <2>4. Inv(u)
    BY SMTT(30), <1>1, <1>types, <2>1, <2>2, ControlInv
  <2>5. Focus(u) /\ u.loop = m.loop
    BY <1>1, <2>2, ControlFocus
  <2>6. FocusNode(u, e, n, k, TRUE).status = "running" /\ TRUE \in BOOLEAN
    BY Zenon, <2>3
  <2>7. Focus(FocusNode(u, e, n, k, TRUE)) /\ FocusNode(u, e, n, k, TRUE).loop = u.loop
    BY Zenon, <2>1, <2>4, <2>5, <2>6, FocusNodeFocus
  <2> QED  BY Zenon, <1>calm, <2>1, <2>3, <2>5, <2>7
<1>5. ASSUME NEW e \in Env, NEW k \in 0..MaxMods, NEW n \in Nodes, FocusTo(n, k, e)
      PROVE  Focus(m') /\ Halting(m')
  BY Zenon, <1>2, <1>5 DEF FocusTo
<1>6. ASSUME NEW e \in Env, NEW k \in 0..MaxMods, FocusPrevious(k, e)
      PROVE  Focus(m') /\ Halting(m')
  BY Zenon, <1>types, <1>2, <1>6 DEF FocusPrevious
<1>7. ASSUME NEW e \in Env, NEW k \in {1, ScrollMult}, UserInput(k, e)
      PROVE  Focus(m') /\ Halting(m')
  <2>1. k \in Nat
    BY MasterAssumption
  <2>2. Shift(m, m') /\ m.todo = {}
    BY Zenon, <1>1, <1>7, <2>1, EnqueueShift DEF UserInput
  <2> QED  BY Zenon, <1>1, <2>2, IdleShift
<1>8. ASSUME NEW e \in Env, SelectionArrives(e)
      PROVE  Focus(m') /\ Halting(m')
  BY Zenon, <1>1, <1>8, ArrivesFocus
<1>9. CASE SelectionCleared
  <2>1. SameFocus(m, m') /\ m'.state = m.state /\ m.todo = {}
    BY Zenon, <1>1, <1>9 DEF SelectionCleared, SameFocus, SameLoop, MasterState
  <2>2. Shift(m, m')
    BY Zenon, <2>1, SameShift
  <2> QED  BY Zenon, <1>1, <2>1, <2>2, IdleShift
<1>10. ASSUME NEW e \in Env, NEW n \in Nodes, BrightnessTimer(n, e)
       PROVE  Focus(m') /\ Halting(m')
  <2> DEFINE i == m.fades[n] - 1
             u == [m EXCEPT !.fades[n] = i]
  <2>1. i \in Nat /\ m.todo = {} /\ (m' = u \/ m' = SetBrightness(u, e, n))
    BY <1>1, <1>10 DEF BrightnessTimer, MasterState
  <2> HIDE DEF i
  <2>2. Inv(u)
    BY Zenon, <1>1, <2>1, FadesInv
  <2>3. SameFocus(m, u) /\ u.state = m.state
    BY Zenon, <1>1 DEF SameFocus, SameLoop, MasterState
  <2>4. Shift(m, u)
    BY ZenonT(30), <2>3, SameShift
  <2> HIDE DEF u
  <2>5. Shift(u, SetBrightness(u, e, n))
    BY Zenon, <2>2, TransitionShift
  <2>6. Shift(m, m')
    BY <2>1, <2>4, <2>5, ShiftTransitive
  <2> QED  BY Zenon, <1>1, <2>1, <2>6, IdleShift
<1>11. ASSUME NEW e \in Env, NEW r \in Remotes, LoopStep(r, e)
       PROVE  Focus(m') /\ Halting(m')
  <2> DEFINE b == LoopBody(m, e, r)
             lp == IF m.todo = {r} THEN "none" ELSE b.loop
             td == b.todo \ {r}
  <2>1. /\ Inv(b) /\ Shift(m, b)
        /\ m.loop = "halt" /\ b.status = "running" =>
             /\ b.state[r] \notin {"SETTINGUP", "FAILED"}
             /\ \A x \in Remotes \ {r} : b.state[x] = m.state[x]
    BY ZenonT(30), <1>1, LoopShift, LoopBodyInv
  <2>2. m' = [b EXCEPT !.todo = td, !.loop = lp] /\ r \in m.todo
    BY Zenon, <1>11 DEF LoopStep
  <2> HIDE DEF b
  <2>3. b \in MasterState
    BY Zenon, <2>1 DEF Inv, Base
  <2>4. m' = Control(b, lp, td, b.edges, b.ownsel, b.frames) /\ m'.status = b.status
    BY Zenon, <2>2, <2>3 DEF Control, MasterState
  <2>5. b.status = "running" /\ SameLoop(m, b)
    BY Zenon, <2>1, <2>4 DEF Shift
  <2>6. Focus(b)
    BY Zenon, <1>1, <2>1, <2>5, ShiftFocus
  <2>7. Focus(m') /\ m'.state = b.state /\ m'.loop = lp /\ m'.todo = td /\ m'.edges = b.edges
    BY SMTT(30), <2>3, <2>4, <2>6, ControlFocus
  <2>8. ASSUME lp = "halt"
        PROVE  /\ td # {} /\ b.edges = {}
               /\ \A x \in Enabled \ td : b.state[x] \notin {"SETTINGUP", "FAILED"}
    <3>1. m.loop = "halt" /\ m.todo # {r} /\ b.todo = m.todo /\ b.edges = m.edges
      BY Zenon, <2>5, <2>8 DEF SameLoop
    <3>2. /\ m.edges = {}
          /\ \A x \in Enabled \ m.todo : m.state[x] \notin {"SETTINGUP", "FAILED"}
      BY Zenon, <1>1, <3>1 DEF Halting
    <3>3. td # {} /\ \A x \in Enabled \ td : x = r \/ x \in Enabled \ m.todo
      BY Zenon, <2>2, <3>1
    <3>4. Enabled \subseteq Remotes
      BY Zenon, MasterAssumption
    <3> QED  BY Zenon, <2>1, <2>5, <3>1, <3>2, <3>3, <3>4
  <2> HIDE DEF lp, td
  <2> QED  BY Zenon, <2>7, <2>8 DEF Halting
<1>12. ASSUME NEW e \in Env, NEW r \in Remotes, ChannelFails(r, e)
       PROVE  Focus(m') /\ Halting(m')
  <2>1. Shift(m, m') /\ m.todo = {}
    BY Zenon, <1>1, <1>12, FailShift DEF ChannelFails
  <2> QED  BY Zenon, <1>1, <2>1, IdleShift
<1>13. ASSUME NEW e \in Env, NEW r \in Remotes, ReceiveReady(r, e)
       PROVE  Focus(m') /\ Halting(m')
  <2> DEFINE u == [m EXCEPT !.state[r] = "CONNECTED", !.failcount[r] = 0]
  <2>1. /\ m.todo = {}
        /\ \/ m' = FailRemote(m, e, r)
           \/ m.state[r] = "SETTINGUP" /\ (m' = u \/ m' = TransitionBrightness(u, e, r))
    BY Zenon, <1>13 DEF ReceiveReady
  <2>2. SameFocus(m, u) /\ u.state = [m.state EXCEPT ![r] = "CONNECTED"]
    BY Zenon, <1>1 DEF SameFocus, SameLoop, MasterState
  <2>3. m.state \in [Remotes -> ConnStates]
    BY Zenon, <1>1 DEF MasterState
  <2>4. m.state[r] = "SETTINGUP" => Inv(u)
    BY Zenon, <1>1, ReadyInv
  <2> HIDE DEF u
  <2>5. Shift(m, u)
    BY Zenon, <2>2, <2>3, SameShift
  <2>6. r \in Nodes
    BY Zenon, SMTT(30) DEF Nodes
  <2>7. m.state[r] = "SETTINGUP" => Shift(u, TransitionBrightness(u, e, r))
    BY ZenonT(30), <2>4, <2>6, TransitionShift
  <2>8. Shift(m, m')
    BY SMTT(30), <1>1, <2>1, <2>5, <2>7, ShiftTransitive, FailShift
  <2> QED  BY Zenon, <1>1, <2>1, <2>8, IdleShift
<1>14. ASSUME NEW e \in Env, NEW r \in Remotes, NEW own \in BOOLEAN,
              ReceiveClipboard(r, own, e)
       PROVE  Focus(m') /\ Halting(m')
  <2> DEFINE u == [m EXCEPT !.ownsel = own]
  <2>1. u = Control(m, m.loop, m.todo, m.edges, own, m.frames)
    BY Zenon, <1>1 DEF Control, MasterState
  <2>2. Inv(u)
    BY <1>1, <1>types, <2>1, ControlInv
  <2>3. SameFocus(m, u) /\ u.state = m.state /\ u \in MasterState
    BY Zenon, <1>1, <2>2 DEF SameFocus, SameLoop, MasterState, Inv, Base
  <2>4. /\ m.todo = {} /\ m.frames = <<>>
        /\ \/ m' = u
           \/ m.focused \in Remotes /\ m' = Enqueue(u, e, m.focused, 1)
           \/ m.focused \in Remotes /\ m' = AwaitSelection(u, "forward", m.focused, 0, FALSE)
    BY Zenon, <1>14 DEF ReceiveClipboard
  <2> HIDE DEF u
  <2>5. Shift(m, u)
    BY Zenon, <2>3, SameShift
  <2>6. CASE m' = u \/ (m.focused \in Remotes /\ m' = Enqueue(u, e, m.focused, 1))
    <3>1. Shift(m, m')
      BY <2>2, <2>5, <2>6, EnqueueShift, ShiftTransitive
    <3> QED  BY Zenon, <1>1, <2>4, <3>1, IdleShift
  <2>7. CASE m.focused \in Remotes /\ m' = AwaitSelection(u, "forward", m.focused, 0, FALSE)
    <3>1. u.frames = <<>> /\ 0 \in 0..MaxMods /\ FALSE \in BOOLEAN
      BY SMTT(30), <2>3, <2>4, MasterAssumption DEF SameFocus, SameLoop
    <3>2. /\ m'.focused = u.focused /\ m'.grab = u.grab /\ m'.torn = u.torn
          /\ m'.state = u.state /\ m'.loop = u.loop /\ ~FocusFrame(m')
      BY ZenonT(30), <2>3, <2>7, <3>1, AwaitEffect
    <3>r. m.focused \in Remotes /\ m.loop # "halt" /\ MasterNode \notin Remotes
      BY Zenon, <1>idle, <2>4, <2>7, MasterAssumption
    <3>3. m'.focused \in Remotes /\ m'.focused # MasterNode /\ m'.loop # "halt"
      BY Zenon, <2>3, <3>2, <3>r DEF SameFocus, SameLoop
    <3>4. Focus(m')
      BY Zenon, <1>1, <2>3, <3>2, <3>3 DEF Focus, SameFocus
    <3> QED  BY Zenon, <1>calm, <3>3, <3>4
  <2> QED  BY Zenon, <2>4, <2>6, <2>7
<1>15. ASSUME NEW kind \in {"reconnect", "halt", "clear", "loglevel"},
              NEW own \in BOOLEAN, StartLoop(kind, own)
       PROVE  Focus(m') /\ Halting(m')
  <2> DEFINE lp == IF Enabled = {} THEN "none" ELSE kind
             ow == IF kind = "clear" THEN own ELSE m.ownsel
  <2>1. m' = [m EXCEPT !.loop = lp, !.todo = Enabled, !.ownsel = ow] /\ m.edges = {}
    BY Zenon, <1>1, <1>15 DEF StartLoop, MasterState
  <2>2. lp = "halt" => Enabled # {}
    BY Zenon
  <2> HIDE DEF lp, ow
  <2>3. m' = Control(m, lp, Enabled, m.edges, ow, m.frames)
    BY Zenon, <1>1, <2>1 DEF Control, MasterState
  <2>4. Focus(m') /\ m'.loop = lp /\ m'.todo = Enabled /\ m'.edges = m.edges
    BY <1>1, <2>3, ControlFocus
  <2> QED  BY Zenon, <2>1, <2>2, <2>4 DEF Halting
<1>16. ASSUME NEW D \in EdgeSets, MousePos(D) \/ \E r \in Remotes : ReceiveMousePos(r, D)
       PROVE  Focus(m') /\ Halting(m')
  <2>1. m' = [m EXCEPT !.edges = D] /\ m.todo = {}
    BY Zenon, <1>16 DEF MousePos, ReceiveMousePos
  <2>2. m' = Control(m, m.loop, m.todo, D, m.ownsel, m.frames)
    BY Zenon, <1>1, <2>1 DEF Control, MasterState
  <2>3. Focus(m') /\ m'.loop = m.loop
    BY <1>1, <2>2, ControlFocus
  <2> QED  BY Zenon, <1>idle, <1>calm, <2>1, <2>3
<1>17. ASSUME NEW r \in Remotes, Writable(r)
       PROVE  Focus(m') /\ Halting(m')
  <2> DEFINE i == m.queued[r] - 1
             u == [m EXCEPT !.queued[r] = i]
  <2>1. m' = u /\ m.todo = {}
    BY Zenon, <1>1, <1>17 DEF Writable, MasterState
  <2> HIDE DEF i
  <2>2. SameFocus(m, u) /\ u.state = m.state
    BY Zenon, <1>1 DEF SameFocus, SameLoop, MasterState
  <2>3. Shift(m, m')
    BY Zenon, <2>1, <2>2, SameShift
  <2> QED  BY Zenon, <1>1, <2>1, <2>3, IdleShift
<1>18. ASSUME NEW a \in Addr, ReconnectTimer(a)
       PROVE  Focus(m') /\ Halting(m')
  <2> DEFINE r == m.calls[a]
             u == [m EXCEPT !.calls[a] = None, !.timer[r] = None]
  <2>1. r \in Remotes /\ m.state[r] = "FAILED" /\ m.todo = {} /\ m' = SetupRemote(u, r)
    BY <1>1, <1>18 DEF ReconnectTimer, MasterState, Inv, Base, CallsOK
  <2> HIDE DEF r
  <2>2. u \in MasterState /\ SameFocus(m, u) /\ u.state = m.state
    BY Zenon, <1>1, <2>1 DEF SameFocus, SameLoop, MasterState
  <2> HIDE DEF u
  <2>3. SameFocus(u, m') /\ \A x \in Remotes \ {r} : m'.state[x] = u.state[x]
    BY Zenon, <2>1, <2>2, SetupFocus
  <2>4. Shift(m, u)
    BY Zenon, <2>2, SameShift
  <2>5. Shift(u, m')
    BY Zenon, <2>1, <2>2, <2>3, SameShift
  <2>6. Shift(m, m')
    BY Zenon, <2>4, <2>5, ShiftTransitive
  <2> QED  BY Zenon, <1>1, <2>1, <2>6, IdleShift
<1>19. ~Quit /\ ~Crash
  <2>1. Quit => m'.status = "exited"
    BY <1>1 DEF Quit, MasterState
  <2>2. Crash => m'.status = "aborted"
    BY Zenon, <1>1 DEF Crash, Abort, MasterState
  <2> QED  BY <2>1, <2>2
<1> QED
  BY SMTT(30), <1>3, <1>4, <1>5, <1>6, <1>7, <1>8, <1>9, <1>10, <1>11, <1>12, <1>13, <1>14,
     <1>15, <1>16, <1>17, <1>18, <1>19 DEF Next

\* The invariant of the focus holds throughout.
LEMMA FocusInvariance == Spec => []FInv
  BY InitFocus, NextFocus, PTL DEF Spec

\* For every set of remotes and every topology, and wherever a connection fails
\* in the middle of focus_node, a switch that was not disturbed leaves the focus
\* on the master or on a connected remote.
THEOREM FocusConnected == Spec => []FocusedConnected
<1>1. FInv => FocusedConnected
  BY Zenon DEF FInv, Focus, FocusedConnected
<1> QED  BY <1>1, FocusInvariance, PTL

\* While a remote has the focus after such a switch, the inputs were grabbed, or
\* the X server refused.
THEOREM FocusGrabbed == Spec => []FocusedGrabbed
<1>1. FInv => FocusedGrabbed
  BY Zenon DEF FInv, Focus, FocusedGrabbed
<1> QED  BY <1>1, FocusInvariance, PTL

\* With the focus on the master the inputs are grabbed only while a switch to a
\* remote waits for the clipboard.
THEOREM GrabReleased == Spec => []GrabNotStuck
<1>1. FInv => GrabNotStuck
  BY Zenon DEF FInv, Focus, FocusFrame, GrabNotStuck
<1> QED  BY <1>1, FocusInvariance, PTL

\* When the loop of halt_reconnects ends, no enabled remote is being set up or
\* has a reconnection scheduled.
THEOREM HaltStops == Spec => HaltStopsAttempts
<1> DEFINE Stopped == \A r \in Enabled : /\ m'.state[r] \notin {"SETTINGUP", "FAILED"}
                                         /\ \A a \in Addr : m'.calls[a] # r
<1>1. ASSUME FInv, FInv', Next, Running, m.loop = "halt", m'.loop = "none",
             m'.status = "running"
      PROVE  Stopped
  <2>1. Inv(m) /\ m.status = "running" /\ Halting(m)
    BY Zenon, <1>1 DEF FInv, IInv, Running
  <2>2. /\ m.todo # {} /\ m.edges = {} /\ Enabled \subseteq Remotes
        /\ \A x \in Enabled \ m.todo : m.state[x] \notin {"SETTINGUP", "FAILED"}
    BY Zenon, <1>1, <2>1, MasterAssumption DEF Halting
  <2>3. ~Quit /\ ~Crash
    BY Zenon, <1>1, <2>1 DEF Quit, Crash, Abort, Inv, Base, MasterState
  <2>4. PICK e \in Env, r \in Remotes : LoopStep(r, e)
    BY ZenonT(30), <1>1, <2>2, <2>3
       DEF Next, FocusDirection, EdgeStep, FocusTo, FocusPrevious, UserInput,
           SelectionArrives, BrightnessTimer, ChannelFails, ReceiveReady,
           ReceiveClipboard, StartLoop, MousePos, ReceiveMousePos, SelectionCleared,
           Writable, ReconnectTimer, XIdle, LoopIdle
  <2> DEFINE b == LoopBody(m, e, r)
             lp == IF m.todo = {r} THEN "none" ELSE b.loop
             td == b.todo \ {r}
  <2>5. /\ Inv(b) /\ Shift(m, b)
        /\ b.status = "running" =>
             /\ b.state[r] \notin {"SETTINGUP", "FAILED"}
             /\ \A x \in Remotes \ {r} : b.state[x] = m.state[x]
    BY <1>1, <2>1, LoopShift, LoopBodyInv
  <2>6. m' = [b EXCEPT !.todo = td, !.loop = lp] /\ b \in MasterState
    BY Zenon, <2>4, <2>5 DEF LoopStep, Step, Inv, Base
  <2> HIDE DEF b
  <2>7. m'.state = b.state /\ m'.status = b.status /\ m'.loop = lp
    BY Zenon, <2>6 DEF MasterState
  <2>8. m.todo = {r} /\ b.status = "running"
    BY Zenon, <1>1, <2>5, <2>7 DEF Shift, SameLoop
  <2>9. ASSUME NEW x \in Enabled
        PROVE  m'.state[x] \notin {"SETTINGUP", "FAILED"}
    BY Zenon, <2>2, <2>5, <2>7, <2>8
  <2>10. CallsOK(m')
    BY Zenon, <1>1 DEF FInv, IInv, Inv, Base
  <2>11. None \notin Enabled
    BY Zenon, MasterAssumption
  <2> QED  BY SMTT(30), <2>9, <2>10, <2>11 DEF CallsOK
<1>2. FInv /\ FInv' /\ [Next]_m =>
        [Running /\ m.loop = "halt" /\ m'.loop = "none" /\ m'.status = "running" =>
           Stopped]_m
  BY Zenon, <1>1
<1> QED  BY <1>2, FocusInvariance, PTL DEF Spec, HaltStopsAttempts
=============================================================================
