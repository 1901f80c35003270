---------------------------- MODULE MCWrapWriter ----------------------------
(* WrapWriter on bodies of a few bytes, for TLC. *)
EXTENDS WrapWriter, TLC
=============================================================================
