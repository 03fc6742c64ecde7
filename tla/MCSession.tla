------------------------------ MODULE MCSession ------------------------------
(***************************************************************************)
(* Session for TLC.  The first two configurations bind one key with and    *)
(* without a modifier, for the switch in one and in the other direction.   *)
(* The third exercises reconnection and the log level, and has a key       *)
(* string that names no key.  The next two are refused: a collision up to  *)
(* a lock, and two keys in one string.  The sixth has two keys of one      *)
(* modifier and a remote on OS X.  Then come masters on OS X: a string     *)
(* without a key, and the two keys of a modifier; both directions; and a   *)
(* collision of `control' with `control+a'.  In the third and the sixth    *)
(* one event waits at most, in the others two.                             *)
(***************************************************************************)
EXTENDS Session

MCModMask == [k \in ModKeys |-> {"control"}]

Hotkey(ks, action) == [ks |-> ks, action |-> action]
Param(key, value) == [key |-> key, value |-> value]

MCConfigs ==
  {[params |-> <<Param("DISPLAY", ":0"), Param("TERM", ":0"), Param("DISPLAY", ":1")>>,
    hotkeys |-> <<Hotkey(<<"control", "F1">>, "remote"), Hotkey(<<"F1">>, "master")>>,
    master |-> "x11", remote |-> "x11", keys |-> {"F1", "Control_L"},
    conns |-> 1, events |-> 2],
   [params |-> <<>>,
    hotkeys |-> <<Hotkey(<<"F1">>, "remote"), Hotkey(<<"control", "F1">>, "master")>>,
    master |-> "x11", remote |-> "osx", keys |-> {"F1", "Control_L"},
    conns |-> 1, events |-> 2],
   [params |-> <<Param("DISPLAY", ":0"), Param("DISPLAY", ":1"), Param("TERM", ":1")>>,
    hotkeys |-> <<Hotkey(<<"F1">>, "loglevel"), Hotkey(<<"F2">>, "remote"),
                  Hotkey(<<"control">>, "master")>>,
    master |-> "x11", remote |-> "x11", keys |-> {"F1", "F2"},
    conns |-> 2, events |-> 1],
   [params |-> <<>>,
    hotkeys |-> <<Hotkey(<<"lock", "F1">>, "remote"), Hotkey(<<"F1">>, "master")>>,
    master |-> "x11", remote |-> "x11", keys |-> {}, conns |-> 1, events |-> 2],
   [params |-> <<>>, hotkeys |-> <<Hotkey(<<"F1", "F2">>, "remote")>>,
    master |-> "x11", remote |-> "x11", keys |-> {}, conns |-> 1, events |-> 2],
   [params |-> <<>>,
    hotkeys |-> <<Hotkey(<<"F1">>, "remote")>>,
    master |-> "x11", remote |-> "osx", keys |-> {"F1", "Control_L", "Control_R"},
    conns |-> 1, events |-> 1],
   [params |-> <<>>,
    hotkeys |-> <<Hotkey(<<"control">>, "remote"), Hotkey(<<"a">>, "master"),
                  Hotkey(<<"F1">>, "loglevel")>>,
    master |-> "osx", remote |-> "osx", keys |-> {"a", "Control_L", "Control_R"},
    conns |-> 1, events |-> 2],
   [params |-> <<>>,
    hotkeys |-> <<Hotkey(<<"F1">>, "remote"), Hotkey(<<"control", "F1">>, "master")>>,
    master |-> "osx", remote |-> "x11", keys |-> {"F1", "Control_R"},
    conns |-> 1, events |-> 2],
   [params |-> <<>>,
    hotkeys |-> <<Hotkey(<<"control", "a">>, "remote"), Hotkey(<<"control">>, "master")>>,
    master |-> "osx", remote |-> "x11", keys |-> {}, conns |-> 1, events |-> 2]}
=============================================================================
