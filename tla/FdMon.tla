------------------------------- MODULE FdMon -------------------------------
(***************************************************************************)
(* The file-descriptor monitors of the X11 event loop (x11.c): a doubly    *)
(* linked list of reference-counted contexts, and the walk over it that    *)
(* handle_fds makes after select(), during which the callbacks register    *)
(* and unregister contexts, the current one and its neighbours included.   *)
(* Pointers are addresses of contexts; a freed address can be reused.      *)
(***************************************************************************)
EXTENDS Integers, FiniteSets

CONSTANTS
  Ctx,        \* addresses of struct fdmon_ctx
  Fds,        \* file descriptor numbers
  NULL

ASSUME FdMonAssumption == NULL \notin Ctx \cup Fds /\ IsFiniteSet(Ctx)

Flags == {"READ", "WRITE"}

VARIABLES
  head, tail,   \* monitored_fds
  next, prev,   \* the links of each context
  fd, flags,    \* its descriptor and FM_ flags
  refcount,     \* 0 when the memory is free
  pc,           \* where handle_fds is
  mfd,          \* the context that the walk is at
  fdset,        \* rfds and wfds, as select() left them
  held,         \* the contexts that were registered and not unregistered
  due,          \* history: what this walk still has to call
  fresh         \* history: the contexts registered since select()

list == <<head, tail, next, prev, refcount>>
walk == <<pc, mfd, fdset>>
vars == <<head, tail, next, prev, fd, flags, refcount, pc, mfd, fdset, held, due,
          fresh>>
history == <<held, due, fresh>>

Init ==
  /\ head = NULL /\ tail = NULL
  /\ next = [c \in Ctx |-> NULL] /\ prev = [c \in Ctx |-> NULL]
  /\ fd = [c \in Ctx |-> NULL]
  /\ flags = [c \in Ctx |-> {}]
  /\ refcount = [c \in Ctx |-> 0]
  /\ pc = "idle" /\ mfd = NULL /\ fdset = [f \in Flags |-> {}]
  /\ held = {} /\ due = {} /\ fresh = {}

(***************************************************************************)
(* What the rest of the program does in a timer, in an X event, or in one  *)
(* of the callbacks of the walk.                                           *)
(***************************************************************************)
InCallback == pc \in {"idle", "readcb", "writecb"}

\* Mutant: to the end of the list.
RegisterAtTail(c, f) ==
  /\ InCallback /\ refcount[c] = 0
  /\ fd' = [fd EXCEPT ![c] = f]
  /\ flags' = [flags EXCEPT ![c] = {}]
  /\ refcount' = [refcount EXCEPT ![c] = 1]
  /\ prev' = [prev EXCEPT ![c] = tail]
  /\ next' = [x \in Ctx |-> IF x = tail THEN c ELSE next[x]]
  /\ tail' = c
  /\ head' = IF head = NULL THEN c ELSE head
  /\ held' = held \cup {c}
  /\ fresh' = IF pc = "idle" THEN {} ELSE fresh \cup {c}
  /\ UNCHANGED <<walk, due>>

\* fdmon_register_fd: to the front of the list.
Register(c, f) ==
  /\ InCallback /\ refcount[c] = 0
  /\ fd' = [fd EXCEPT ![c] = f]
  /\ flags' = [flags EXCEPT ![c] = {}]
  /\ refcount' = [refcount EXCEPT ![c] = 1]
  /\ next' = [next EXCEPT ![c] = head]
  /\ prev' = [x \in Ctx |-> IF x = head THEN c ELSE IF x = c THEN NULL ELSE prev[x]]
  /\ head' = c
  /\ tail' = IF tail = NULL THEN c ELSE tail
  /\ held' = held \cup {c}
  /\ fresh' = IF pc = "idle" THEN {} ELSE fresh \cup {c}
  /\ UNCHANGED <<walk, due>>

\* Mutant: the predecessor keeps its link to the freed context.
UnrefHalf(c) ==
  /\ refcount' = [refcount EXCEPT ![c] = @ - 1]
  /\ IF refcount[c] > 1 THEN UNCHANGED <<head, tail, next, prev, fd>>
     ELSE /\ head' = IF prev[c] = NULL THEN next[c] ELSE head
          /\ tail' = IF next[c] = NULL THEN prev[c] ELSE tail
          /\ prev' = [x \in Ctx |-> IF x = next[c] THEN prev[c] ELSE prev[x]]
          /\ UNCHANGED next
          /\ fd' = [fd EXCEPT ![c] = NULL]

\* fdmon_unref: the last reference takes it off the list.  What freed memory
\* holds is fixed here to NULL.
Unref(c) ==
  /\ refcount' = [refcount EXCEPT ![c] = @ - 1]
  /\ IF refcount[c] > 1 THEN UNCHANGED <<head, tail, next, prev, fd>>
     ELSE /\ head' = IF prev[c] = NULL THEN next[c] ELSE head
          /\ tail' = IF next[c] = NULL THEN prev[c] ELSE tail
          /\ prev' = [x \in Ctx |-> IF x = c THEN NULL
                                     ELSE IF x = next[c] THEN prev[c] ELSE prev[x]]
          /\ next' = [x \in Ctx |-> IF x = c THEN NULL
                                     ELSE IF x = prev[c] THEN next[c] ELSE next[x]]
          /\ fd' = [fd EXCEPT ![c] = NULL]

\* fdmon_unregister.
Unregister(c) ==
  /\ InCallback /\ c \in held
  /\ flags' = [flags EXCEPT ![c] = {}]
  /\ Unref(c)
  /\ held' = held \ {c}
  /\ due' = due \ ({c} \X Flags)
  /\ UNCHANGED <<walk, fresh>>

\* fdmon_monitor.
Monitor(c, f) ==
  /\ InCallback /\ c \in held /\ f \notin flags[c]
  /\ flags' = [flags EXCEPT ![c] = @ \cup {f}]
  /\ UNCHANGED <<list, fd, walk, history>>

\* fdmon_unmonitor; mc_write_cb also calls it for its own context after the
\* error callback has unregistered that.
Unmonitor(c, f) ==
  /\ InCallback /\ c \in held \cup ({mfd} \ {NULL})
  /\ flags' = [flags EXCEPT ![c] = @ \ {f}]
  /\ due' = due \ {<<c, f>>}
  /\ UNCHANGED <<list, fd, walk, held, fresh>>

-----------------------------------------------------------------------------
\* handle_fds: select() over the monitored descriptors.  It leaves those that
\* are ready in the sets, or all of them when a signal interrupts it.
Select(ready) ==
  /\ pc = "idle"
  /\ \A f \in Flags : ready[f] \subseteq {fd[c] : c \in {x \in held : f \in flags[x]}}
  /\ fdset' = ready
  /\ due' = {p \in held \X Flags : p[2] \in flags[p[1]] /\ fd[p[1]] \in ready[p[2]]}
  /\ mfd' = head /\ pc' = "enter"
  /\ fresh' = {}
  /\ UNCHANGED <<list, fd, flags, held>>

\* Mutant: the walk takes no reference.
EnterUnreferenced ==
  /\ pc = "enter" /\ mfd # NULL
  /\ pc' = "read"
  /\ UNCHANGED <<list, fd, flags, mfd, fdset, history>>

\* fdmon_ref around the body of the loop.
Enter ==
  /\ pc = "enter" /\ mfd # NULL
  /\ refcount' = [refcount EXCEPT ![mfd] = @ + 1]
  /\ pc' = "read"
  /\ UNCHANGED <<head, tail, next, prev, fd, flags, mfd, fdset, history>>

\* The read, then the write callback, for a context that still asks for it.
Call(f, at, cb, after) ==
  LET called == f \in flags[mfd] /\ fd[mfd] \in fdset[f]
  IN /\ pc = at
     /\ pc' = IF called THEN cb ELSE after
     /\ due' = IF called THEN due \ {<<mfd, f>>} ELSE due
     /\ UNCHANGED <<list, fd, flags, mfd, fdset, held, fresh>>

CallRead == Call("READ", "read", "readcb", "write")
CallWrite == Call("WRITE", "write", "writecb", "step")

\* Mutant: "else if" between the two callbacks.
ReturnToStep ==
  /\ pc \in {"readcb", "writecb"}
  /\ pc' = "step"
  /\ UNCHANGED <<list, fd, flags, mfd, fdset, history>>

Return ==
  /\ pc \in {"readcb", "writecb"}
  /\ pc' = IF pc = "readcb" THEN "write" ELSE "step"
  /\ UNCHANGED <<list, fd, flags, mfd, fdset, history>>

\* Mutant: a context that is still ready is served again.
StepAgain ==
  /\ pc = "step"
  /\ mfd' = IF refcount[mfd] > 1 /\ \E f \in flags[mfd] : fd[mfd] \in fdset[f]
            THEN mfd ELSE next[mfd]
  /\ Unref(mfd)
  /\ pc' = "enter"
  /\ UNCHANGED <<flags, fdset, history>>

\* next_mfd is read after the callbacks, before the reference is dropped.
Step ==
  /\ pc = "step"
  /\ mfd' = next[mfd]
  /\ Unref(mfd)
  /\ pc' = "enter"
  /\ UNCHANGED <<flags, fdset, history>>

Done ==
  /\ pc = "enter" /\ mfd = NULL
  /\ pc' = "idle"
  /\ fdset' = [f \in Flags |-> {}]
  /\ UNCHANGED <<list, fd, flags, mfd, held, due>>
  /\ fresh' = {}

Walk == Enter \/ CallRead \/ CallWrite \/ Return \/ Step \/ Done

Next ==
  \/ \E c \in Ctx :
       \/ \E f \in Fds : Register(c, f)
       \/ Unregister(c)
       \/ \E f \in Flags : Monitor(c, f) \/ Unmonitor(c, f)
  \/ \E ready \in [Flags -> SUBSET Fds] : Select(ready)
  \/ Walk

-----------------------------------------------------------------------------
Live == {c \in Ctx : refcount[c] > 0}

\* The contexts in the order of the list.
Reached[i \in 0..Cardinality(Ctx)] ==
  IF i = 0 THEN head
  ELSE IF Reached[i - 1] = NULL THEN NULL ELSE next[Reached[i - 1]]

\* The list holds exactly the contexts whose memory is in use, linked both
\* ways and without a cycle, whatever fdmon_register_fd and fdmon_unref did
\* in the middle of a walk.
ListIntact ==
  LET n == Cardinality(Live)
  IN /\ {Reached[i] : i \in 0..n - 1} = Live
     /\ Reached[n] = NULL
     /\ \A i \in 1..n - 1 : prev[Reached[i]] = Reached[i - 1]
     /\ head # NULL => prev[head] = NULL
     /\ tail = (IF n = 0 THEN NULL ELSE Reached[n - 1])

\* The walk of handle_fds never stands on freed memory, although callbacks
\* unregister the context it is at, the one it came from and the next one.
WalkOnLive == pc # "idle" /\ mfd # NULL => mfd \in Live

\* Every context that was ready at select(), and still wants the event when
\* its turn comes, has been called by the end of the walk: unregistering a
\* neighbour never makes the walk skip one.
AllReadyCalled == pc = "idle" => due = {}

\* No callback runs on the strength of a select() that did not include its
\* context, even when a new context reuses the address or the descriptor
\* number of one that was closed during the walk.
OnlySelected ==
  [][pc' # pc /\ pc' \in {"readcb", "writecb"} => mfd \notin fresh]_vars

\* Every walk ends, also when callbacks keep registering contexts.
WalkEnds == pc # "idle" ~> pc = "idle"
=============================================================================
