------------------------------ MODULE OsxLoop ------------------------------
(***************************************************************************)
(* The file-descriptor monitors of the OS X event loop (osx.c): reference- *)
(* counted contexts, each with a CFFileDescriptor whose callbacks are      *)
(* enabled for one call at a time.  Callbacks of the program register and  *)
(* unregister contexts, the one they are called for included.              *)
(***************************************************************************)
EXTENDS Integers, FiniteSets

CONSTANTS
  Contexts,   \* addresses of struct fdmon_ctx
  NoCtx

ASSUME OsxLoopAssumption == NoCtx \notin Contexts

AllFlags == {"READ", "WRITE"}

VARIABLES
  cflags,     \* FM_ flags of each context
  crefs,      \* its reference count, 0 when the memory is free
  enabled,    \* the callbacks enabled in its CFFileDescriptor
  cheld,      \* the contexts that were registered and not unregistered
  cpc,        \* where fdmon_callback is
  ctx, types  \* its arguments

call == <<cpc, ctx, types>>
osxvars == <<cflags, crefs, enabled, cheld, call>>

OsxInit ==
  /\ cflags = [c \in Contexts |-> {}] /\ crefs = [c \in Contexts |-> 0]
  /\ enabled = [c \in Contexts |-> {}] /\ cheld = {}
  /\ cpc = "idle" /\ ctx = NoCtx /\ types = {}

InProgram == cpc \in {"idle", "readcb", "writecb"}

\* fdmon_register_fd.
OsxRegister(c) ==
  /\ InProgram /\ crefs[c] = 0
  /\ crefs' = [crefs EXCEPT ![c] = 1]
  /\ cflags' = [cflags EXCEPT ![c] = {}]
  /\ enabled' = [enabled EXCEPT ![c] = {}]
  /\ cheld' = cheld \cup {c}
  /\ UNCHANGED call

\* fdmon_set_enabled_callbacks, then fdmon_unref if drop: the last reference
\* disables the callbacks and frees the context.
SetEnabledCallbacks(c, drop) ==
  /\ crefs' = [crefs EXCEPT ![c] = IF drop THEN @ - 1 ELSE @]
  /\ enabled' = [enabled EXCEPT ![c] = IF crefs'[c] = 0 THEN {} ELSE cflags'[c]]

\* fdmon_unregister.
OsxUnregister(c) ==
  /\ InProgram /\ c \in cheld
  /\ cflags' = [cflags EXCEPT ![c] = {}]
  /\ SetEnabledCallbacks(c, TRUE)
  /\ cheld' = cheld \ {c}
  /\ UNCHANGED call

\* fdmon_monitor and fdmon_unmonitor; mc_write_cb also calls the latter for
\* its own context after the error callback has unregistered that.
OsxMonitor(c, flags) ==
  /\ InProgram
  /\ c \in cheld \/ (c = ctx /\ flags \subseteq cflags[c])
  /\ cflags' = [cflags EXCEPT ![c] = flags]
  /\ SetEnabledCallbacks(c, FALSE)
  /\ UNCHANGED <<cheld, call>>

\* A descriptor is ready: its callbacks are disabled and fdmon_callback, which
\* takes a reference, is called.
OsxFire(c, ready) ==
  /\ cpc = "idle" /\ ready # {} /\ ready \subseteq enabled[c]
  /\ enabled' = [enabled EXCEPT ![c] = @ \ ready]
  /\ crefs' = [crefs EXCEPT ![c] = @ + 1]
  /\ cpc' = "read" /\ ctx' = c /\ types' = ready
  /\ UNCHANGED <<cflags, cheld>>

\* The callbacks named by types, also if the first one unregistered ctx.
OsxCall ==
  /\ cpc \in {"read", "write"}
  /\ cpc' = IF cpc = "read" THEN IF "READ" \in types THEN "readcb" ELSE "write"
            ELSE IF "WRITE" \in types THEN "writecb" ELSE "finish"
  /\ UNCHANGED <<cflags, crefs, enabled, cheld, ctx, types>>

OsxReturn ==
  /\ cpc \in {"readcb", "writecb"}
  /\ cpc' = IF cpc = "readcb" THEN "write" ELSE "finish"
  /\ UNCHANGED <<cflags, crefs, enabled, cheld, ctx, types>>

\* Mutant: the callbacks are not enabled again.
OsxFinishDisabled ==
  /\ cpc = "finish"
  /\ crefs' = [crefs EXCEPT ![ctx] = @ - 1]
  /\ cpc' = "idle" /\ ctx' = NoCtx /\ types' = {}
  /\ UNCHANGED <<cflags, cheld, enabled>>

\* The end of fdmon_callback.
OsxFinish ==
  /\ cpc = "finish"
  /\ UNCHANGED <<cflags, cheld>>
  /\ SetEnabledCallbacks(ctx, TRUE)
  /\ cpc' = "idle" /\ ctx' = NoCtx /\ types' = {}

OsxNext ==
  \/ \E c \in Contexts :
       \/ OsxRegister(c) \/ OsxUnregister(c)
       \/ \E flags \in SUBSET AllFlags : OsxMonitor(c, flags) \/ OsxFire(c, flags)
  \/ OsxCall \/ OsxReturn \/ OsxFinish

-----------------------------------------------------------------------------
\* No wake-up is lost to the one-shot callbacks: outside its own callback, a
\* context in use has exactly its monitored events enabled, whatever nested
\* registrations and changes of the flags a callback makes; and the context
\* that fdmon_callback works on is in use until it is done.
CallbacksArmed ==
  /\ \A c \in Contexts : crefs[c] > 0 /\ c # ctx => enabled[c] = cflags[c]
  /\ \A c \in Contexts : crefs[c] = 0 => enabled[c] = {}
  /\ cpc # "idle" => crefs[ctx] > 0
=============================================================================
