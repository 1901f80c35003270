---------------------------- MODULE MessagePipe ----------------------------
(***************************************************************************)
(* What a websocket connection promises its applications: each end sends   *)
(* whole messages, and the other end gets them whole, in their order, each *)
(* at most once.  The receiver may leave messages unread, and a connection *)
(* that fails delivers no more, so that a message may be missing, but none *)
(* is invented, cut or mixed with another.                                 *)
(***************************************************************************)
EXTENDS Naturals, Sequences

CONSTANT Ends, Other(_)

VARIABLES sent,  \* sent[e]: the messages e has sent
          got    \* got[e]: pairs of a message's number and what was read of it

PipeInit == /\ sent = [e \in Ends |-> <<>>]
            /\ got = [e \in Ends |-> <<>>]

Send(e) == /\ Len(sent'[e]) = Len(sent[e]) + 1
           /\ sent' = [sent EXCEPT ![e] = Append(@, sent'[e][Len(sent[e]) + 1])]
           /\ UNCHANGED got

LastGot(e) == IF got[e] = <<>> THEN 0 ELSE got[e][Len(got[e])][1]

Deliver(e) == \E n \in LastGot(e) + 1 .. Len(sent[Other(e)]) :
                /\ got' = [got EXCEPT ![e] = Append(@, <<n, sent[Other(e)][n]>>)]
                /\ UNCHANGED sent

PipeNext == \E e \in Ends : Send(e) \/ Deliver(e)

PipeSpec == PipeInit /\ [][PipeNext]_<<sent, got>>
============================================================================
