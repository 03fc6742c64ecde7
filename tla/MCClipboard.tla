---------------------------- MODULE MCClipboard ----------------------------
(***************************************************************************)
(* Clipboard for TLC.  Texts are compared with one another and with the    *)
(* empty one only, so that those that users copy are interchangeable.      *)
(***************************************************************************)
EXTENDS Clipboard, TLC

TextSymmetry == Permutations(Texts)
=============================================================================
