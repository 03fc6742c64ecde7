------------------------------- MODULE Timers -------------------------------
(***************************************************************************)
(* The scheduled calls of the X11 event loop (x11.c): the list ordered by  *)
(* calltime, the calls that a pass of handle_fds runs, and the time-out it *)
(* gives to select().  Called functions schedule and cancel calls          *)
(* themselves, and time passes while they run.  TimedCalls adds what is    *)
(* called.                                                                 *)
(***************************************************************************)
EXTENDS Integers, Sequences, FiniteSetsExt

CONSTANTS
  MaxClock,    \* bound: the time at which the clock stops
  NULL

ASSUME TimersAssumption ==
  /\ MaxClock \in Nat
  /\ NULL \notin Int

VARIABLES
  clock,      \* get_microtime
  calls,      \* scheduled_calls: what is called, its calltime, a serial number
  pc,         \* where handle_fds is: "idle", "run", "call" or "select"
  now,        \* now_us
  running,    \* the call that run_scheduled_calls is in
  timeout,    \* what get_select_timeout returned, NULL for none
  since       \* the time at which select() began to wait

timers == <<clock, calls, pc, now, running, timeout, since>>

TimersInit ==
  /\ clock = 0 /\ calls = <<>> /\ pc = "idle" /\ now = 0
  /\ running = NULL /\ timeout = NULL /\ since = 0

\* A call linked in before the i-th one of the list, and the i-th one unlinked.
LinkAt(list, i, call) == SubSeq(list, 1, i - 1) \o <<call>> \o SubSeq(list, i, Len(list))
UnlinkAt(list, i) == SubSeq(list, 1, i - 1) \o SubSeq(list, i + 1, Len(list))

\* Mutant: a call goes before the ones with the same calltime.
InsertBeforeEqual(list, call) ==
  LET later == {i \in DOMAIN list : call.time <= list[i].time}
  IN IF later = {} THEN Append(list, call)
     ELSE LinkAt(list, Min(later), call)

\* The loop of schedule_call: before the first call that is later.
Insert(list, call) ==
  LET later == {i \in DOMAIN list : call.time < list[i].time}
  IN IF later = {} THEN Append(list, call)
     ELSE LinkAt(list, Min(later), call)

\* schedule_call; id is a serial number.
ScheduleCall(list, fn, arg, id, delay) ==
  Insert(list, [fn |-> fn, arg |-> arg, id |-> id, time |-> clock + delay])

\* cancel_call; on a call that has begun, or has run, it does nothing.
CancelCall(list, id) ==
  LET found == {i \in DOMAIN list : list[i].id = id}
  IN IF found = {} THEN list ELSE UnlinkAt(list, Min(found))

-----------------------------------------------------------------------------
\* handle_fds up to run_scheduled_calls.
Begin ==
  /\ pc = "idle"
  /\ now' = clock
  /\ pc' = "run"
  /\ UNCHANGED <<clock, calls, running, timeout, since>>

\* Mutant: all calls are run.
DueAtOnce(list, when) == list # <<>>

\* The condition of run_scheduled_calls.
Due(list, when) == list # <<>> /\ list[1].time <= when

\* run_scheduled_calls takes the call off the list before it runs it.
RunCall ==
  /\ pc = "run" /\ Due(calls, now)
  /\ running' = Head(calls)
  /\ calls' = Tail(calls)
  /\ pc' = "call"
  /\ UNCHANGED <<clock, now, timeout, since>>

\* The called function returns with the list, and the call is freed.
Return(list) ==
  /\ running' = NULL
  /\ calls' = list
  /\ pc' = "run"
  /\ UNCHANGED <<clock, now, timeout, since>>

\* Mutants: no time-out; the time-out counts from the present time, which may
\* have passed calltime since the pass began.
SelectTimeoutNever(list) == NULL
SelectTimeoutFromClock(list) == IF list = <<>> THEN NULL ELSE list[1].time - clock

\* get_select_timeout.
SelectTimeout(list) == IF list = <<>> THEN NULL ELSE list[1].time - now

Select ==
  /\ pc = "run" /\ ~Due(calls, now)
  /\ timeout' = SelectTimeout(calls)
  /\ since' = clock
  /\ pc' = "select"
  /\ UNCHANGED <<clock, calls, now, running>>

\* select() returns at the time-out, for a descriptor or for a signal; the
\* descriptors' callbacks then run in "idle".
Wake ==
  /\ pc = "select"
  /\ pc' = "idle" /\ timeout' = NULL /\ since' = 0
  /\ UNCHANGED <<clock, calls, now, running>>

\* The time-out has elapsed, or would have if the clock did not stop.
TimedOut == timeout # NULL /\ (clock >= since + timeout \/ clock = MaxClock)

Tick ==
  /\ clock < MaxClock
  /\ clock' = clock + 1
  /\ UNCHANGED <<calls, pc, now, running, timeout, since>>

-----------------------------------------------------------------------------
Before(a, b) == a.time < b.time \/ (a.time = b.time /\ a.id < b.id)

\* No call runs before its time, or before a call that should precede it,
\* although called functions insert new calls while the pass is under way.
RunsInOrder ==
  running # NULL =>
    /\ running.time <= clock
    /\ \A i \in DOMAIN calls : Before(running, calls[i])

\* scheduled_calls->calltime - now_us, which is unsigned, never wraps, nor is
\* it 0: when select() is called, no call is due.
NoUnderflow == pc = "select" /\ timeout # NULL => timeout > 0
=============================================================================
