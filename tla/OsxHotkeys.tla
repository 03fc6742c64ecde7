----------------------------- MODULE OsxHotkeys -----------------------------
(***************************************************************************)
(* Hotkey bindings and modifier flags of the OS X layer (osx.c and         *)
(* osx-keycodes.c), where an event tap sees every key event and flags are  *)
(* matched exactly.  Flags are the set of their names.                     *)
(***************************************************************************)
EXTENDS Hotkeys

CONSTANT KeyZero   \* the key whose CGKeyCode is 0: kVK_ANSI_A

ASSUME OsxHotkeysAssumption == KeyZero \in PlainKeys

\* osx_modifiers; etkey names the key as an X11 remote knows it.
osx_modifiers ==
  <<[mask |-> "command", etkey |-> "Alt_L"], [mask |-> "shift", etkey |-> "Shift_L"],
    [mask |-> "option", etkey |-> "Super_L"], [mask |-> "control", etkey |-> "Control_L"]>>

MODFLAG_MASK == {osx_modifiers[i].mask : i \in DOMAIN osx_modifiers}

\* key_eventflag.
KeyEventflag(key) ==
  CASE key \in {"Control_L", "Control_R"} -> {"control"}
    [] key \in {"Shift_L", "Shift_R"} -> {"shift"}
    [] key \in {"Super_L", "Super_R"} -> {"option"}
    [] key = "Alt_L" -> {"command"}
    [] OTHER -> {}

\* modmask_to_etkeycodes: one key for each modifier, whichever of its keys is
\* held.
ModmaskToEtkeycodes(modmask) ==
  {osx_modifiers[i].etkey : i \in {j \in DOMAIN osx_modifiers :
                                     osx_modifiers[j].mask \in modmask}}

\* parse_keystring.  The key code is shifted by one while it is zero for
\* "none", and unshifted at the end only if it is not: a string of modifier
\* names alone has the code of KeyZero.
OsxParseKeystring(ks) ==
  LET r == FoldLeft(LAMBDA a, name :
                      IF name \in MODFLAG_MASK THEN [a EXCEPT !.mask = @ \cup {name}]
                      ELSE IF name \in PlainKeys /\ a.key = NoKey
                      THEN [a EXCEPT !.key = name]
                      ELSE [a EXCEPT !.ok = FALSE],
                    [key |-> NoKey, mask |-> {}, ok |-> TRUE], ks)
  IN [r EXCEPT !.key = IF @ = NoKey THEN KeyZero ELSE @]

\* find_hotkey: the first match, as a sequence of at most one element.
OsxFindHotkey(hks, key, modmask) ==
  LET found == SelectSeq(hks, LAMBDA hk : hk.key = key /\ hk.mask = modmask)
  IN IF found = <<>> THEN <<>> ELSE <<found[1]>>

\* bind_hotkey fails: a bad key string, or an equal binding.
OsxCannotBind(hks, ks) ==
  LET r == OsxParseKeystring(ks)
  IN ~r.ok \/ OsxFindHotkey(hks, r.key, r.mask) # <<>>

\* bind_hotkey: the new binding at the end of hotkeys.
OsxBindHotkey(hks, ks, action) ==
  LET r == OsxParseKeystring(ks)
  IN Append(hks, [key |-> r.key, mask |-> r.mask, action |-> action])
=============================================================================
