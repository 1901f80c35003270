---------------------------- MODULE MCReloader ----------------------------
(* Reloader with a tab and more connections than tabs, for TLC: the others *)
(* belong to handlers whose tab has gone.                                  *)
EXTENDS Reloader, TLC

CONSTANTS t1, c1, c2, c3, k1, k2

OneTab == {t1}
ThreeConns == {c1, c2, c3}
TwoCallbacks == {k1, k2}
=============================================================================
