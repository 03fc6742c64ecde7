----------------------------- MODULE MCMaster -----------------------------
(***************************************************************************)
(* Master for TLC: r1 lies to the left of the master and r2 to the left of *)
(* r1, r2 lies above the master and the master above r2.  The allocator    *)
(* returns either the lowest or the highest free address.                  *)
(***************************************************************************)
EXTENDS Master, FiniteSetsExt

CONSTANTS r1, r2

MCNeighbors ==
  [p \in Nodes \X Directions |->
     CASE p = <<MasterNode, "LEFT">> -> r1
       [] p = <<r1, "LEFT">> -> r2
       [] p = <<MasterNode, "UP">> -> r2
       [] p = <<r2, "UP">> -> MasterNode
       [] OTHER -> None]

MCAllocators ==
  {[used \in SUBSET Addr |-> IF used = Addr THEN Min(Addr) ELSE Min(Addr \ used)],
   [used \in SUBSET Addr |-> IF used = Addr THEN Max(Addr) ELSE Max(Addr \ used)]}
=============================================================================
