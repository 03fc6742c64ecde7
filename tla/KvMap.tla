-------------------------------- MODULE KvMap --------------------------------
(***************************************************************************)
(* The key-value map of kvmap.c, a list of entries with the newest first,  *)
(* and its passage through a SETUP message (misc.c).                       *)
(***************************************************************************)
EXTENDS Integers, Sequences, SequencesExt

Entries(kvm, key) == {i \in DOMAIN kvm : kvm[i].key = key}

\* kvmap_get.
KvmapGet(kvm, key, NULL) ==
  LET hits == Entries(kvm, key)
  IN IF hits = {} THEN NULL ELSE kvm[Min(hits)].value

\* Mutant: an existing entry is not replaced.
KvmapPutAgain(kvm, key, value) == <<[key |-> key, value |-> value]>> \o kvm

\* kvmap_put: replace the value of an entry, or a new entry in front.
KvmapPut(kvm, key, value) ==
  LET hits == Entries(kvm, key)
  IN IF hits = {} THEN <<[key |-> key, value |-> value]>> \o kvm
     ELSE [kvm EXCEPT ![Min(hits)].value = value]

\* flatten_kvmap: kvmap_foreach visits from the head, flattencb appends.
FlattenKvmap(kvm) == FoldLeft(Append, <<>>, kvm)

\* unflatten_kvmap: the order of the entries is reversed.
UnflattenKvmap(pairs) ==
  FoldLeft(LAMBDA kvm, p : KvmapPut(kvm, p.key, p.value), <<>>, pairs)
=============================================================================
