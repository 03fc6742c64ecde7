----------------------------- MODULE EventLoops -----------------------------
(***************************************************************************)
(* The monitors of a program built for X11, or for OS X.                   *)
(***************************************************************************)
EXTENDS FdMon, OsxLoop

VARIABLE platform

loopvars == <<vars, osxvars, platform>>

LoopInit == platform \in {"x11", "osx"} /\ Init /\ OsxInit

LoopNext ==
  /\ UNCHANGED platform
  /\ \/ platform = "x11" /\ Next /\ UNCHANGED osxvars
     \/ platform = "osx" /\ OsxNext /\ UNCHANGED vars

\* The walk is sequential code, and every callback returns.
LoopSpec ==
  /\ LoopInit /\ [][LoopNext]_loopvars
  /\ WF_vars(platform = "x11" /\ UNCHANGED <<osxvars, platform>> /\ Walk)
=============================================================================
