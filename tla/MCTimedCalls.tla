---------------------------- MODULE MCTimedCalls ----------------------------
(***************************************************************************)
(* TimedCalls for TLC: transitions that end at once, so that all of their  *)
(* steps have the same time, and ones that take time.                      *)
(***************************************************************************)
EXTENDS TimedCalls

CONSTANT r1

MCHints ==
  [type : {"dim_inactive"}, duration : {0, 2}] \cup [type : {"flash_active"}, duration : {2}]
=============================================================================
