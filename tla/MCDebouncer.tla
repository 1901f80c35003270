---------------------------- MODULE MCDebouncer -----------------------------
(* Debouncer with a few goroutines and callbacks, for TLC. *)
EXTENDS Debouncer, TLC

CONSTANTS p1, p2, c1, c2, c3

MCCallers == {p1, p2}
MCCallbacks == {c1, c2, c3}
=============================================================================
