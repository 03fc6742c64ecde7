---------------------------- MODULE FifoChannel ----------------------------
(***************************************************************************)
(* What a msgchan promises to its two users: messages arrive in the order  *)
(* in which they were queued, none twice, none invented, and none missing  *)
(* between two that arrive; a failing connection loses only the newest.    *)
(***************************************************************************)
EXTENDS Naturals, Sequences

CONSTANT Messages

VARIABLES
  transit,   \* messages queued and not yet handed to the receiver
  last       \* what the receiver was handed last, << >> before the first

vars == <<transit, last>>

Init == transit = <<>> /\ last = <<>>

Send(msg) ==
  /\ transit' = Append(transit, msg)
  /\ UNCHANGED last

Deliver ==
  /\ transit # <<>>
  /\ last' = <<Head(transit)>>
  /\ transit' = Tail(transit)

\* The connection fails: the newest messages under way are lost.
Lose ==
  /\ \E n \in 0..Len(transit) : transit' = SubSeq(transit, 1, n)
  /\ UNCHANGED last

\* A new connection takes its place.
Renew ==
  /\ transit' = <<>>
  /\ last' = <<>>

Next == Deliver \/ Lose \/ Renew \/ \E msg \in Messages : Send(msg)

Spec == Init /\ [][Next]_vars
=============================================================================
