---------------------------- MODULE MCHotReload ----------------------------
(* HotReload with two files, for TLC. *)
EXTENDS HotReload, TLC

CONSTANTS a, b, k1, k2, k3

TwoFiles == {a, b}
ThereAtStart == {a, b}
OneAtStart == {a}
ThreeCallbacks == {k1, k2, k3}
=============================================================================
