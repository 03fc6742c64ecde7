----------------------------- MODULE MouseInput -----------------------------
(***************************************************************************)
(* The mouse of the master: the switches that its pointer makes at screen  *)
(* edges while the master has the focus, or the motion that is sent to the *)
(* remote that has it.  A behaviour is about one of the two.               *)
(***************************************************************************)
EXTENDS EdgeSwitch, Pointer

VARIABLE subject

mousevars == <<vars, pointervars, subject>>

MouseInit ==
  /\ Init /\ PointerInit
  /\ subject \in {"edges", "motion"} /\ (subject = "edges" => pos = 0)

MouseNext ==
  /\ UNCHANGED subject
  /\ \/ subject = "edges" /\ Next /\ UNCHANGED pointervars
     \/ subject = "motion" /\ PointerNext /\ UNCHANGED vars

MouseSpec == MouseInit /\ [][MouseNext]_mousevars
=============================================================================
