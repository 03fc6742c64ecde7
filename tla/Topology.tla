------------------------------ MODULE Topology ------------------------------
(***************************************************************************)
(* What main() makes of the configuration before the first connection      *)
(* (main.c): which remotes the -e and -d flags leave enabled, the node     *)
(* that lies in each direction of each other one, and which remotes a      *)
(* chain of links reaches from the master.                                 *)
(***************************************************************************)
EXTENDS Integers, Sequences, SequencesExt

CONSTANTS
  Remotes,       \* the list config->remotes
  Alias, Host,   \* the name and the hostname of each
  MasterNode, NULL,
  Names,         \* names that flags and links may use; NULL is the master
  Directions,
  MaxSettings,   \* bound: -e and -d flags
  MaxLinks       \* bound: lines of the topology block

ASSUME TopologyAssumption ==
  /\ Remotes \in Seq(Range(Remotes)) /\ IsInjective(Remotes)
  /\ MasterNode \notin Range(Remotes)
  /\ NULL \notin Range(Remotes) \cup {MasterNode} \cup Names \cup Directions
  /\ DOMAIN Alias = Range(Remotes) /\ DOMAIN Host = Range(Remotes)

Rmt == Range(Remotes)
Nodes == Rmt \cup {MasterNode}

VARIABLES
  settings,    \* the flags, in order
  links,       \* the topology block, in order; b.dir may be NO_DIR, here NULL
  enabled, neighbors, reachable,
  todo,        \* arguments of the calls of mark_reachable still to be made
  pc           \* the next step of main, "died" after initdie

vars == <<settings, links, enabled, neighbors, reachable, todo, pc>>

SeqUpTo(S, n) == UNION {[1..k -> S] : k \in 0..n}

Init ==
  /\ settings \in SeqUpTo([name : Names, enable : BOOLEAN], MaxSettings)
  /\ links \in SeqUpTo([a : Names \cup {NULL}, adir : Directions,
                        b : Names \cup {NULL}, bdir : Directions \cup {NULL}], MaxLinks)
  /\ enabled = {}
  /\ neighbors = [p \in Nodes \X Directions |-> NULL]
  /\ reachable = {} /\ todo = {} /\ pc = "enable"

\* find_remote: by alias, and only then by hostname.
FindRemote(name) ==
  LET named  == SelectSeq(Remotes, LAMBDA r : Alias[r] = name)
      hosted == SelectSeq(Remotes, LAMBDA r : Host[r] = name)
  IN IF named # <<>> THEN named[1] ELSE IF hosted # <<>> THEN hosted[1] ELSE NULL

\* find_node, for resolve_noderef.
FindNode(name) == IF name = NULL THEN MasterNode ELSE FindRemote(name)

\* dflt in set_enabled_remotes.
Default(flags) == IF flags = <<>> THEN TRUE ELSE ~Last(flags).enable

\* set_enabled_remotes.
SetEnabled ==
  /\ pc = "enable"
  /\ IF \E i \in DOMAIN settings : FindRemote(settings[i].name) = NULL
     THEN pc' = "died" /\ UNCHANGED enabled
     ELSE /\ enabled' = FoldLeft(LAMBDA acc, s : IF s.enable
                                    THEN acc \cup {FindRemote(s.name)}
                                    ELSE acc \ {FindRemote(s.name)},
                                 IF Default(settings) THEN Rmt ELSE {}, settings)
          /\ pc' = "topology"
  /\ UNCHANGED <<settings, links, neighbors, reachable, todo>>

\* node_enabled.
NodeEnabled(n) == n \in enabled \cup {MasterNode}

\* apply_link: a's neighbour, and b's when b has a direction.
ApplyLink(nbrs, ln) ==
  LET a == FindNode(ln.a)
      b == FindNode(ln.b)
      t == [nbrs EXCEPT ![<<a, ln.adir>>] = b]
  IN IF ~NodeEnabled(a) \/ ~NodeEnabled(b) THEN nbrs
     ELSE IF ln.bdir = NULL THEN t ELSE [t EXCEPT ![<<b, ln.bdir>>] = a]

\* Mutant: in the order of the file.
TopologyOrderFile(lns) == lns

\* The parser prepends each link to config->topology.
TopologyOrder(lns) == Reverse(lns)

\* apply_topology, then check_remotes calls mark_reachable on the master's
\* neighbours.
ApplyTopology ==
  /\ pc = "topology"
  /\ IF \E i \in DOMAIN links : NULL \in {FindNode(links[i].a), FindNode(links[i].b)}
     THEN pc' = "died" /\ UNCHANGED <<neighbors, todo>>
     ELSE /\ neighbors' = FoldLeft(ApplyLink, neighbors, TopologyOrder(links))
          /\ todo' = {neighbors'[<<MasterNode, d>>] : d \in Directions}
          /\ pc' = "mark"
  /\ UNCHANGED <<settings, links, enabled, reachable>>

\* Mutant: the neighbours of a neighbour are not visited.
MarkReachableFlat(n) ==
  /\ pc = "mark" /\ n \in todo
  /\ todo' = todo \ {n}
  /\ reachable' = (reachable \cup {n}) \ {NULL, MasterNode}
  /\ UNCHANGED <<settings, links, enabled, neighbors, pc>>

\* mark_reachable; its recursive calls may be made in any order.
MarkReachable(n) ==
  /\ pc = "mark" /\ n \in todo
  /\ IF n \in reachable \cup {NULL, MasterNode}
     THEN todo' = todo \ {n} /\ UNCHANGED reachable
     ELSE /\ reachable' = reachable \cup {n}
          /\ todo' = (todo \ {n}) \cup {neighbors[<<n, d>>] : d \in Directions}
  /\ UNCHANGED <<settings, links, enabled, neighbors, pc>>

\* The warnings of check_remotes follow, and the connections.
CheckRemotes ==
  /\ pc = "mark" /\ todo = {}
  /\ pc' = "ready"
  /\ UNCHANGED <<settings, links, enabled, neighbors, reachable, todo>>

Next ==
  \/ SetEnabled \/ ApplyTopology \/ CheckRemotes
  \/ \E n \in Nodes \cup {NULL} : MarkReachable(n)

Spec == Init /\ [][Next]_vars

-----------------------------------------------------------------------------
\* The comment in main: the last -e or -d that names a remote decides on it,
\* and the last flag of all decides on the remotes that none names.
LastFlagWins ==
  pc \in {"topology", "mark", "ready"} =>
    \A r \in Rmt :
      LET mine == {i \in DOMAIN settings :
                     \/ settings[i].name = Alias[r]
                     \/ /\ settings[i].name = Host[r]
                        /\ \A x \in Rmt : Alias[x] # settings[i].name}
      IN r \in enabled <=>
           IF mine # {} THEN \E i \in mine : settings[i].enable /\ \A j \in mine : j <= i
           ELSE settings = <<>> \/ ~settings[Len(settings)].enable

\* Of several lines for the same direction of the same node, the first one in
\* the file between enabled nodes counts; in particular no disabled remote is
\* anyone's neighbour or has one.
FirstLinkWins ==
  pc \in {"mark", "ready"} =>
    \A p \in Nodes \X Directions :
      LET Ends(i) == {[from |-> <<FindNode(links[i].a), links[i].adir>>,
                       to |-> FindNode(links[i].b)],
                      [from |-> <<FindNode(links[i].b), links[i].bdir>>,
                       to |-> FindNode(links[i].a)]}
          mine == {i \in DOMAIN links :
                     /\ {FindNode(links[i].a), FindNode(links[i].b)}
                          \subseteq enabled \cup {MasterNode}
                     /\ \E e \in Ends(i) : e.from = p}
      IN IF mine = {} THEN neighbors[p] = NULL
         ELSE \E i \in mine : /\ \A j \in mine : i <= j
                              /\ [from |-> p, to |-> neighbors[p]] \in Ends(i)

\* main applies the flags and the topology block as the comments and the sample
\* configuration say: see LastFlagWins and FirstLinkWins (set_enabled_remotes,
\* apply_topology, and the parser that stores the links in reverse).
AppliedAsWritten == LastFlagWins /\ FirstLinkWins

\* The remotes that check_remotes does not warn about are those to which some
\* sequence of direction hotkeys leads from the master.
ReachableExact ==
  pc = "ready" =>
    LET step(S) == S \cup {neighbors[p] : p \in S \X Directions}
        near[k \in 0..Len(Remotes)] == IF k = 0 THEN {MasterNode}
                                       ELSE step(near[k - 1] \ {NULL})
    IN reachable = near[Len(Remotes)] \cap Rmt

=============================================================================
