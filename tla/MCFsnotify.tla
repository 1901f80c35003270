----------------------------- MODULE MCFsnotify -----------------------------
(* FsnotifyChannels with two callers, one of which is the consumer, for TLC. *)
EXTENDS FsnotifyChannels, TLC

CONSTANTS loop, other

AllOps == {"add", "remove", "close"}
TwoCallers == {loop, other}
=============================================================================
