------------------------------- MODULE Hotkeys -------------------------------
(***************************************************************************)
(* Hotkey bindings of the X11 layer (x11.c).  A modifier mask is the set   *)
(* of its modifiers.  A key string is the sequence of names between its    *)
(* `+' signs.                                                              *)
(***************************************************************************)
EXTENDS Integers, Sequences, SequencesExt

CONSTANTS
  Modifiers,      \* names in xmodifiers
  NumLock,        \* get_mod_mask(XK_Num_Lock), empty if no key is mapped
  ScrollLock,     \* get_mod_mask(XK_Scroll_Lock)
  PlainKeys,      \* keys whose keysym is not a modifier
  ModKeys,        \* keys whose keysym is one
  ModMask,        \* get_mod_mask of the latter
  NoKey           \* keycode 0, which XGrabKey takes as AnyKey

ASSUME HotkeysAssumption ==
  /\ "lock" \in Modifiers
  /\ NumLock \cup ScrollLock \subseteq Modifiers
  /\ ModMask \in [ModKeys -> SUBSET Modifiers]
  /\ NoKey \notin PlainKeys \cup ModKeys
  /\ PlainKeys \cap ModKeys = {}

Keys == PlainKeys \cup ModKeys
LockMods == {"lock"} \cup NumLock \cup ScrollLock

\* relevant_modmask, as platform_init leaves it.
relevant_modmask == (Modifiers \ {"lock"}) \ (NumLock \cup ScrollLock)

\* parse_keystring: one non-modifier key and any number of modifier names.
\* A string of modifier names alone is accepted, with keycode 0.
ParseKeystring(ks) ==
  FoldLeft(LAMBDA r, name :
             IF name \in Modifiers THEN [r EXCEPT !.mask = @ \cup {name}]
             ELSE IF name \in PlainKeys /\ r.key = NoKey THEN [r EXCEPT !.key = name]
             ELSE [r EXCEPT !.ok = FALSE],
           [key |-> NoKey, mask |-> {}, ok |-> TRUE], ks)

\* match_hotkey.
MatchHotkey(hk, key, state) ==
  /\ key = hk.key
  /\ state \cap relevant_modmask = hk.mask \cap relevant_modmask

\* find_hotkey: the first match, as a sequence of at most one element.
FindHotkey(hks, key, state) ==
  LET found == SelectSeq(hks, LAMBDA hk : MatchHotkey(hk, key, state))
  IN IF found = <<>> THEN <<>> ELSE <<found[1]>>

\* Mutant: only the mask of the key string is grabbed.
GrabMasksBare(hk) == {hk.mask}

\* set_keygrab: the mask with every combination of the three locks.
GrabMasks(hk) == {hk.mask \cup locks : locks \in SUBSET LockMods}

\* The X server's passive grabs: does a press of key activate one?
Grabbed(hks, key, state) ==
  \E i \in DOMAIN hks : hks[i].key \in {key, NoKey} /\ state \in GrabMasks(hks[i])

\* bind_hotkey fails: a bad key string, or an earlier binding that matches.
CannotBind(hks, ks) ==
  LET r == ParseKeystring(ks)
  IN ~r.ok \/ FindHotkey(hks, r.key, r.mask) # <<>>

\* bind_hotkey: the new binding at the head of xhotkeys.
BindHotkey(hks, ks, action) ==
  LET r == ParseKeystring(ks)
  IN <<[key |-> r.key, mask |-> r.mask, action |-> action]>> \o hks
=============================================================================
