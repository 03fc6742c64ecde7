----------------------------- MODULE MCTopology -----------------------------
(***************************************************************************)
(* Topology for TLC: the alias of one remote is the hostname of another.   *)
(***************************************************************************)
EXTENDS Topology

CONSTANTS r1, r2

MCRemotes == <<r1, r2>>
MCAlias == [r \in {r1, r2} |-> IF r = r1 THEN "desk" ELSE "den"]
MCHost == [r \in {r1, r2} |-> IF r = r1 THEN "den" ELSE "laptop"]
=============================================================================
