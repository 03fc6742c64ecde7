----------------------------- MODULE MCMsgChan -----------------------------
(***************************************************************************)
(* MsgChan for TLC: a message with a body of one byte and one with two.    *)
(***************************************************************************)
EXTENDS MsgChan

CONSTANTS short, long

MCBodyLen == [msg \in {short, long} |-> IF msg = short THEN 1 ELSE 2]
=============================================================================
