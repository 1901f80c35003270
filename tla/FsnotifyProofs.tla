--------------------------- MODULE FsnotifyProofs ---------------------------
(***************************************************************************)
(* Proofs about FsnotifyChannels, for any finite set of callers, any       *)
(* capacity of Events and any bounds.                                      *)
(***************************************************************************)
EXTENDS FsnotifyChannels, FiniteSetTheorems, TLAPS

\* The port is open until the reader has taken the request of a Close.
PortInv == portOpen <=> rd.pc \notin {"replyDone", "exit"}

\* The reader owes an answer only while it sends what the request has caused.
NextInv == rd.next = "reply" => rd.pc \in {"send", "putBack"} /\ rd.to \in Callers

\* A request in w.input belongs to a caller that still waits for its answer,
\* and that is not owed one for an earlier request.
InputInv == \A p \in Callers : portOpen /\ input = <<p>> =>
              pc[p] \in {"wake", "await"} /\ (rd.next = "reply" => rd.to # p)

\* WakeupsSuffice, with the request of Close the reader is about to put back.
Held == IF rd.pc = "putBack" THEN 1 ELSE 0
CountInv == portOpen => Len(input) + Len(done) + Held <= wakes + Cardinality(Posting)

IInv == TypeOK /\ PortInv /\ NextInv /\ InputInv /\ ReplyHasReceiver /\ CountInv
-----------------------------------------------------------------------------
\* How the number of posting callers changes when one caller moves.
LEMMA PostingFinite == IsFiniteSet(Posting) /\ Cardinality(Posting) \in Nat
  BY ChannelsAssumption, FS_Subset, FS_CardinalityType DEF Posting

LEMMA PostingEnters ==
  ASSUME pc \in [Goroutines -> PcValues], NEW p \in Callers, NEW v \in {"wake", "wakeDone"},
         p \notin Posting, pc' = [pc EXCEPT ![p] = v]
  PROVE  Cardinality(Posting') = Cardinality(Posting) + 1
<1>1. Posting' = Posting \cup {p}
  BY DEF Posting, Goroutines
<1>2. QED
  BY <1>1, PostingFinite, FS_AddElement

LEMMA PostingLeaves ==
  ASSUME pc \in [Goroutines -> PcValues], NEW p \in Callers, p \in Posting,
         NEW v, v \notin {"wake", "wakeDone"}, pc' = [pc EXCEPT ![p] = v]
  PROVE  Cardinality(Posting') = Cardinality(Posting) - 1
<1>1. Posting' = Posting \ {p}
  BY DEF Posting, Goroutines
<1>2. QED
  BY <1>1, PostingFinite, FS_RemoveElement

LEMMA PostingStays ==
  ASSUME pc \in [Goroutines -> PcValues], NEW p, p \notin Posting,
         NEW v, v \notin {"wake", "wakeDone"}, pc' = [pc EXCEPT ![p] = v]
  PROVE  Posting' = Posting
  BY DEF Posting, Goroutines
-----------------------------------------------------------------------------
LEMMA InitIInv == Init => IInv
<1> SUFFICES ASSUME Init PROVE IInv
  OBVIOUS
<1> USE ChannelsAssumption DEF Init
<1>1. <<>> \in Seq(Sent) /\ <<>> \in Seq(Sent \cup Callers) /\ Len(<<>>) = 0
  OBVIOUS
<1>2. TypeOK
  <2>1. pc \in [Goroutines -> PcValues] /\ calls \in [Callers -> 0..MaxCalls]
    BY DEF PcValues
  <2>2. events \in Seq(Sent) /\ Len(events) <= EvCap
    BY <1>1
  <2>3. rd \in [pc : {"get", "send", "putBack", "replyDone", "exit"},
               out : Seq(Sent \cup Callers), next : {"get", "reply", "close"},
               to : Callers \cup {Nil}]
    BY <1>1
  <2>4. /\ input \in {<<>>} \cup {<<p>> : p \in Callers}
        /\ done \in {<<>>} \cup {<<p>> : p \in Callers}
    OBVIOUS
  <2>5. wakes = 0 /\ io = MaxIO /\ rd.pc = "get"
    OBVIOUS
  <2>6. closed \in BOOLEAN /\ portOpen \in BOOLEAN
    OBVIOUS
  <2> HIDE DEF Init
  <2>7. QED
    BY <2>1, <2>2, <2>3, <2>4, <2>5, <2>6 DEF TypeOK
<1>3. CountInv
  BY <1>1, PostingFinite DEF CountInv, Held
<1>4. QED
  BY <1>2, <1>3 DEF IInv, PortInv, NextInv, InputInv, ReplyHasReceiver

\* The steps of callers.
LEMMA CallersIInv ==
  ASSUME IInv, NEW p \in Callers,
         (\E op \in Ops : Call(p, op)) \/ SendInput(p) \/ SetClosed(p) \/ SendDone(p)
         \/ Wakeup(p)
  PROVE  IInv'
<1>0. pc \in [Goroutines -> PcValues]
  BY DEF IInv, TypeOK
<1>leaves. ASSUME NEW v, v \notin {"wake", "wakeDone"}, pc' = [pc EXCEPT ![p] = v],
                  p \in Posting
           PROVE  Cardinality(Posting') = Cardinality(Posting) - 1
  BY <1>0, <1>leaves, PostingLeaves
<1>stays. ASSUME NEW v, v \notin {"wake", "wakeDone"}, pc' = [pc EXCEPT ![p] = v],
                 p \notin Posting
          PROVE  Posting' = Posting
  BY <1>0, <1>stays, PostingStays
<1> USE ChannelsAssumption DEF IInv, TypeOK
<1>1. p \in Goroutines /\ Cardinality(Posting) \in Nat /\ (p \in Posting <=> pc[p] \in {"wake", "wakeDone"})
  BY PostingFinite DEF Goroutines, Posting
<1>2. ASSUME NEW op \in Ops, Call(p, op) PROVE IInv'
  <2>1. PICK v \in {"idle", "setClosed", "sendInput"} : pc' = [pc EXCEPT ![p] = v]
    BY <1>2 DEF Call
  <2>2. Posting' = Posting
    <3>1. p \notin Posting
      BY <1>1, <1>2 DEF Call
    <3>2. QED
      BY <2>1, <3>1, <1>stays
  <2>3. TypeOK'
    <3>1. pc' \in [Goroutines -> PcValues]
      BY <1>0, <2>1 DEF PcValues
    <3>2. calls' \in [Callers -> 0..MaxCalls]
      <4>1. calls' = [calls EXCEPT ![p] = calls[p] + 1] /\ calls[p] < MaxCalls
        BY <1>2 DEF Call
      <4>2. QED
        BY <4>1
    <3>3. UNCHANGED <<closed, input, done, wakes, portOpen, io, events, rd>>
      BY <1>2 DEF Call
    <3>4. QED
      BY <3>1, <3>2, <3>3
  <2>4. QED
    <3>1. PortInv' /\ NextInv'
      BY <1>1, <1>2, <2>1, <2>2, <2>3 DEF Call, PortInv, NextInv
    <3>2. InputInv'
      BY <1>1, <1>2, <2>1, <2>2, <2>3 DEF Call, PortInv, NextInv, InputInv
    <3>3. ReplyHasReceiver'
      BY <1>1, <1>2, <2>1, <2>2, <2>3 DEF Call, NextInv, ReplyHasReceiver
    <3>4. CountInv'
      BY <1>1, <1>2, <2>1, <2>2, <2>3 DEF Call, PortInv, CountInv, Held
    <3>5. QED
      BY <2>3, <3>1, <3>2, <3>3, <3>4
<1>3. CASE SendInput(p)
  <2>1. Cardinality(Posting') = Cardinality(Posting) + 1
    BY <1>1, <1>3, PostingEnters DEF SendInput
  <2>2. Len(input) = 0 /\ Len(input') = 1
    BY <1>3 DEF SendInput
  <2>3. TypeOK'
    BY <1>1, <1>3 DEF SendInput, PcValues
  <2>4. InputInv' /\ ReplyHasReceiver'
    BY <1>1, <1>3 DEF SendInput, InputInv, ReplyHasReceiver, NextInv
  <2>5. CountInv'
    BY <1>1, <1>3, <2>1, <2>2 DEF SendInput, CountInv, Held
  <2>6. QED
    BY <1>3, <2>3, <2>4, <2>5 DEF SendInput, PortInv, NextInv
<1>4. CASE SetClosed(p)
  <2>1. Posting' = Posting
    <3>1. p \notin Posting /\ pc' = [pc EXCEPT ![p] = "sendDone"]
      BY <1>1, <1>4 DEF SetClosed
    <3>2. QED
      BY <3>1, <1>stays
  <2>2. TypeOK'
    BY <1>1, <1>4 DEF SetClosed, PcValues
  <2>3. QED
    <3>1. PortInv' /\ NextInv'
      BY <1>1, <1>4, <2>1, <2>2 DEF SetClosed, PortInv, NextInv
    <3>2. InputInv'
      BY <1>1, <1>4, <2>1, <2>2 DEF SetClosed, PortInv, NextInv, InputInv
    <3>3. ReplyHasReceiver'
      BY <1>1, <1>4, <2>1, <2>2 DEF SetClosed, NextInv, ReplyHasReceiver
    <3>4. CountInv'
      BY <1>1, <1>4, <2>1, <2>2 DEF SetClosed, PortInv, CountInv, Held
    <3>5. QED
      BY <2>2, <3>1, <3>2, <3>3, <3>4
<1>5. CASE SendDone(p)
  <2>1. Cardinality(Posting') = Cardinality(Posting) + 1
    BY <1>1, <1>5, PostingEnters DEF SendDone
  <2>2. Len(done) = 0 /\ Len(done') = 1
    BY <1>5 DEF SendDone
  <2>3. TypeOK'
    BY <1>1, <1>5 DEF SendDone, PcValues
  <2>4. InputInv' /\ ReplyHasReceiver'
    BY <1>1, <1>5 DEF SendDone, InputInv, ReplyHasReceiver, NextInv
  <2>5. CountInv'
    BY <1>1, <1>5, <2>1, <2>2 DEF SendDone, CountInv, Held
  <2>6. QED
    BY <1>5, <2>3, <2>4, <2>5 DEF SendDone, PortInv, NextInv
<1>6. CASE Wakeup(p)
  <2>1. PICK v \in {"idle", "await", "awaitDone"} :
          /\ pc' = [pc EXCEPT ![p] = v]
          /\ portOpen /\ pc[p] = "wake" => v = "await"
    <3>1. CASE ~portOpen
      <4>1. pc' = [pc EXCEPT ![p] = "idle"]
        BY <1>6, <3>1 DEF Wakeup
      <4>2. QED
        BY <3>1, <4>1
    <3>2. CASE portOpen /\ pc[p] = "wake"
      <4>1. pc' = [pc EXCEPT ![p] = "await"]
        BY <1>6, <3>2 DEF Wakeup
      <4>2. QED
        BY <3>2, <4>1
    <3>3. CASE portOpen /\ pc[p] = "wakeDone"
      <4>1. pc' = [pc EXCEPT ![p] = "awaitDone"]
        BY <1>6, <3>3 DEF Wakeup
      <4>2. QED
        BY <3>3, <4>1
    <3>4. QED
      BY <1>6, <3>1, <3>2, <3>3 DEF Wakeup
  <2>2. Cardinality(Posting') = Cardinality(Posting) - 1
    <3>1. p \in Posting
      BY <1>1, <1>6 DEF Wakeup
    <3>2. QED
      BY <2>1, <3>1, <1>leaves
  <2>3. TypeOK'
    <3>1. pc' \in [Goroutines -> PcValues]
      BY <1>1, <2>1 DEF PcValues
    <3>2. wakes' \in Nat
      BY <1>6 DEF Wakeup
    <3>3. UNCHANGED <<calls, closed, input, done, portOpen, io, events, rd>>
      BY <1>6 DEF Wakeup
    <3>4. QED
      BY <3>1, <3>2, <3>3
  <2>4. InputInv'
    BY <1>1, <1>6, <2>1 DEF Wakeup, InputInv
  <2>5. ReplyHasReceiver'
    BY <1>1, <1>6, <2>1 DEF Wakeup, ReplyHasReceiver, NextInv, PortInv
  <2>6. CountInv'
    BY <1>1, <1>6, <2>2 DEF Wakeup, CountInv, Held
  <2>7. QED
    BY <1>6, <2>3, <2>4, <2>5, <2>6 DEF Wakeup, PortInv, NextInv
<1>7. QED
  BY <1>2, <1>3, <1>4, <1>5, <1>6

\* The steps of the reader that take a packet off the port.
LEMMA GetIInv ==
  ASSUME IInv, GetIO \/ GetInput \/ GetDone \/ GetNothing
  PROVE  IInv'
<1> USE ChannelsAssumption DEF IInv, TypeOK
<1>1. Batches \subseteq Seq(Sent \cup Callers)
  BY DEF Batches
<1>2. Cardinality(Posting) \in Nat
  BY PostingFinite
<1>3. CASE GetIO
  <2>1. PICK out \in Batches : rd' = [rd EXCEPT !.pc = "send", !.out = out, !.next = "get"]
    BY <1>3 DEF GetIO
  <2>2. TypeOK' /\ Posting' = Posting
    <3>1. /\ rd'.pc = "send" /\ rd'.next = "get" /\ rd'.to = rd.to
          /\ rd'.out \in Seq(Sent \cup Callers)
          /\ rd' \in [pc : {"get", "send", "putBack", "replyDone", "exit"},
                    out : Seq(Sent \cup Callers), next : {"get", "reply", "close"},
                    to : Callers \cup {Nil}]
      BY <1>1, <2>1
    <3>2. io' \in 0..MaxIO
      <4>1. io > 0 /\ io' = io - 1
        BY <1>3, Zenon DEF GetIO
      <4>2. QED
        BY <4>1
    <3>3. QED
      BY <1>3, <3>1, <3>2 DEF GetIO, Posting
  <2>3. QED
    BY <1>2, <1>3, <2>1, <2>2
       DEF GetIO, PortInv, NextInv, InputInv, ReplyHasReceiver, CountInv, Held
<1>4. CASE GetInput
  <2>1. PICK p \in Callers : input = <<p>> /\ Head(input) = p
    BY <1>4 DEF GetInput
  <2>2. PICK out \in Batches : rd' = [pc |-> "send", out |-> out, next |-> "reply", to |-> p]
    BY <1>4, <2>1 DEF GetInput
  <2>3. TypeOK' /\ Posting' = Posting
    <3>1. rd' \in [pc : {"get", "send", "putBack", "replyDone", "exit"},
                  out : Seq(Sent \cup Callers), next : {"get", "reply", "close"},
                  to : Callers \cup {Nil}]
      BY <1>1, <2>1, <2>2
    <3>2. rd'.pc = "send" /\ wakes' \in Nat /\ input' \in {<<>>, input} /\ done' \in {<<>>, done}
      BY <1>4, <2>2 DEF GetInput
    <3>3. UNCHANGED <<pc, calls, closed, portOpen, io, events>>
      BY <1>4 DEF GetInput
    <3>4. QED
      BY <3>1, <3>2, <3>3 DEF Posting
  <2>4. portOpen /\ pc[p] \in {"wake", "await"}
    BY <1>4, <2>1 DEF GetInput, PortInv, InputInv
  <2>5. Len(input) = 1 /\ Len(input') = 0
    BY <1>4, <2>1 DEF GetInput
  <2>6. CountInv'
    BY <1>2, <1>4, <2>2, <2>3, <2>5 DEF GetInput, CountInv, Held
  <2>7. QED
    BY <1>4, <2>2, <2>3, <2>4, <2>6
       DEF GetInput, PortInv, NextInv, InputInv, ReplyHasReceiver
<1>5. CASE GetDone
  <2>1. Head(done) \in Callers /\ Len(done) = 1 /\ Len(done') = 0
    BY <1>5 DEF GetDone
  <2>2. PICK out \in Batches :
          rd' = [pc |-> "send", out |-> out, next |-> "close", to |-> Head(done)]
    BY <1>5 DEF GetDone
  <2>3. TypeOK' /\ Posting' = Posting
    <3>1. rd' \in [pc : {"get", "send", "putBack", "replyDone", "exit"},
                  out : Seq(Sent \cup Callers), next : {"get", "reply", "close"},
                  to : Callers \cup {Nil}]
      BY <1>1, <2>1, <2>2
    <3>2. rd'.pc = "send" /\ wakes' \in Nat /\ input' \in {<<>>, input} /\ done' \in {<<>>, done}
      BY <1>5, <2>2 DEF GetDone
    <3>3. UNCHANGED <<pc, calls, closed, portOpen, io, events>>
      BY <1>5 DEF GetDone
    <3>4. QED
      BY <3>1, <3>2, <3>3 DEF Posting
  <2>4. CountInv'
    BY <1>2, <1>5, <2>1, <2>2, <2>3 DEF GetDone, CountInv, Held
  <2>5. QED
    BY <1>5, <2>2, <2>3, <2>4
       DEF GetDone, PortInv, NextInv, InputInv, ReplyHasReceiver
<1>6. CASE GetNothing
  <2>1. TypeOK' /\ Posting' = Posting /\ Len(input) = 0 /\ Len(done) = 0
    BY <1>6 DEF GetNothing, Posting
  <2>2. QED
    BY <1>2, <1>6, <2>1
       DEF GetNothing, PortInv, NextInv, InputInv, ReplyHasReceiver, CountInv, Held
<1>7. QED
  BY <1>3, <1>4, <1>5, <1>6

\* The steps that send, and those of the consumer that receives.
LEMMA SendIInv ==
  ASSUME IInv, Sends \/ SendsDone \/ Receive
  PROVE  IInv'
<1> USE ChannelsAssumption DEF IInv, TypeOK
<1>1. Cardinality(Posting) \in Nat
  BY PostingFinite
<1>2. rd.out # <<>> => Tail(rd.out) \in Seq(Sent \cup Callers)
  OBVIOUS
<1>3. CASE SendEvent
  <2>1. events' \in Seq(Sent) /\ Len(events') <= EvCap
    BY <1>3 DEF SendEvent, Sent
  <2>2. TypeOK' /\ Posting' = Posting
    BY <1>2, <1>3, <2>1 DEF SendEvent, Posting
  <2>3. QED
    BY <1>1, <1>3, <2>2
       DEF SendEvent, PortInv, NextInv, InputInv, ReplyHasReceiver, CountInv, Held
<1>4. CASE TakeDone
  <2>1. Head(done) \in Callers /\ Len(done) = 1 /\ Len(done') = 0
    BY <1>4 DEF TakeDone
  <2>2. /\ rd'.out \in Seq(Sent \cup Callers)
        /\ rd'.out # <<>> /\ Head(rd'.out) = Head(done)
    <3>1. rd'.out = <<Head(done)>> \o Tail(rd.out)
      BY <1>4 DEF TakeDone
    <3>2. <<Head(done)>> \in Seq(Sent \cup Callers) /\ Tail(rd.out) \in Seq(Sent \cup Callers)
      BY <1>2, <1>4, <2>1 DEF TakeDone
    <3>3. QED
      BY <3>1, <3>2
  <2>3. TypeOK' /\ Posting' = Posting
    BY <1>4, <2>1, <2>2 DEF TakeDone, Posting
  <2>4. QED
    <3>1. PortInv' /\ NextInv'
      BY <1>1, <1>4, <2>1, <2>3 DEF TakeDone, PortInv, NextInv
    <3>2. InputInv'
      BY <1>1, <1>4, <2>1, <2>3 DEF TakeDone, PortInv, NextInv, InputInv
    <3>3. ReplyHasReceiver'
      <4>1. rd'.next = rd.next /\ rd'.to = rd.to /\ pc' = pc
        BY <1>4 DEF TakeDone
      <4>2. QED
        BY <4>1 DEF ReplyHasReceiver
    <3>4. CountInv'
      BY <1>1, <1>4, <2>1, <2>3 DEF TakeDone, PortInv, CountInv, Held
    <3>5. QED
      BY <2>3, <3>1, <3>2, <3>3, <3>4
<1>5. CASE PutBackDone
  <2>1. Head(rd.out) \in Callers /\ Len(done) = 0 /\ Len(done') = 1
    BY <1>5 DEF PutBackDone
  <2>2. TypeOK' /\ Posting' = Posting
    BY <1>2, <1>5, <2>1 DEF PutBackDone, Posting
  <2>3. QED
    <3>1. PortInv' /\ NextInv'
      BY <1>1, <1>5, <2>1, <2>2 DEF PutBackDone, PortInv, NextInv
    <3>2. InputInv'
      BY <1>1, <1>5, <2>1, <2>2 DEF PutBackDone, PortInv, NextInv, InputInv
    <3>3. ReplyHasReceiver'
      <4>1. rd'.next = rd.next /\ rd'.to = rd.to /\ pc' = pc
        BY <1>5 DEF PutBackDone
      <4>2. QED
        BY <4>1 DEF ReplyHasReceiver
    <3>4. CountInv'
      BY <1>1, <1>5, <2>1, <2>2 DEF PutBackDone, PortInv, CountInv, Held
    <3>5. QED
      BY <2>2, <3>1, <3>2, <3>3, <3>4
<1>6. CASE SwallowDone
  <2>1. Len(done) = 1 /\ Len(done') = 0
    BY <1>6 DEF SwallowDone
  <2>2. TypeOK' /\ Posting' = Posting
    BY <1>2, <1>6 DEF SwallowDone, Posting
  <2>3. QED
    <3>1. PortInv' /\ NextInv'
      BY <1>1, <1>6, <2>1, <2>2 DEF SwallowDone, PortInv, NextInv
    <3>2. InputInv'
      BY <1>1, <1>6, <2>1, <2>2 DEF SwallowDone, PortInv, NextInv, InputInv
    <3>3. ReplyHasReceiver'
      <4>1. rd'.next = rd.next /\ rd'.to = rd.to /\ pc' = pc
        BY <1>6 DEF SwallowDone
      <4>2. QED
        BY <4>1 DEF ReplyHasReceiver
    <3>4. CountInv'
      BY <1>1, <1>6, <2>1, <2>2 DEF SwallowDone, PortInv, CountInv, Held
    <3>5. QED
      BY <2>2, <3>1, <3>2, <3>3, <3>4
<1>7. CASE SendsDone
  <2>1. TypeOK' /\ Posting' = Posting
    BY <1>7 DEF SendsDone, AllSent, Posting
  <2>2. QED
    BY <1>1, <1>7, <2>1
       DEF SendsDone, AllSent, PortInv, NextInv, InputInv, ReplyHasReceiver, CountInv, Held
<1>8. CASE ReceiveEvent
  <2>1. events' \in Seq(Sent) /\ Len(events') <= EvCap
    BY <1>8 DEF ReceiveEvent
  <2>2. TypeOK' /\ Posting' = Posting
    BY <1>8, <2>1 DEF ReceiveEvent, Posting
  <2>3. QED
    BY <1>1, <1>8, <2>2
       DEF ReceiveEvent, PortInv, NextInv, InputInv, ReplyHasReceiver, CountInv, Held
<1>9. CASE ReceiveError
  <2>1. TypeOK' /\ Posting' = Posting
    BY <1>2, <1>9 DEF ReceiveError, Posting
  <2>2. QED
    BY <1>1, <1>9, <2>1
       DEF ReceiveError, PortInv, NextInv, InputInv, ReplyHasReceiver, CountInv, Held
<1>10. QED
  BY <1>3, <1>4, <1>5, <1>6, <1>7, <1>8, <1>9 DEF Sends, Receive

\* The steps in which the reader answers a caller.
LEMMA ReplyIInv ==
  ASSUME IInv, Reply \/ ClosePort \/ ReplyDone
  PROVE  IInv'
<1> USE ChannelsAssumption DEF IInv, TypeOK
<1>1. CASE Reply
  <2>1. rd.to \in Callers /\ rd.to \in Goroutines /\ pc[rd.to] = "await"
    BY <1>1 DEF Reply, AllSent, NextInv, Goroutines
  <2>2. Posting' = Posting
    BY <1>1, <2>1, PostingStays DEF Reply, Posting
  <2>3. TypeOK'
    BY <1>1, <2>1 DEF Reply, AllSent, PcValues
  <2>4. InputInv'
    BY <1>1, <2>1 DEF Reply, AllSent, InputInv
  <2>5. QED
    BY <1>1, <2>2, <2>3, <2>4, PostingFinite
       DEF Reply, AllSent, PortInv, NextInv, ReplyHasReceiver, CountInv, Held
<1>2. CASE ReplyDone
  <2>1. pc' = [pc EXCEPT ![rd.to] = "idle"] /\ rd' = [rd EXCEPT !.pc = "exit", !.to = Nil]
    BY <1>2 DEF ReplyDone
  <2>2. TypeOK'
    BY <1>2, <2>1 DEF ReplyDone, PcValues
  <2>3. QED
    BY <1>2, <2>1, <2>2
       DEF ReplyDone, PortInv, NextInv, InputInv, ReplyHasReceiver, CountInv
<1>3. CASE ClosePort
  <2>1. TypeOK' /\ rd'.pc = "replyDone" /\ rd'.next = "get" /\ ~portOpen'
    BY <1>3 DEF ClosePort, AllSent
  <2>2. QED
    BY <2>1 DEF PortInv, NextInv, InputInv, ReplyHasReceiver, CountInv
<1>4. QED
  BY <1>1, <1>2, <1>3

LEMMA StepIInv == IInv /\ [Next]_vars => IInv'
<1> SUFFICES ASSUME IInv, [Next]_vars PROVE IInv'
  OBVIOUS
<1>1. CASE UNCHANGED vars
  <2>1. UNCHANGED Posting
    BY <1>1 DEF vars, Posting
  <2>2. QED
    BY <1>1, <2>1 DEF vars, IInv, TypeOK, PortInv, NextInv, InputInv, ReplyHasReceiver,
                     CountInv, Held
<1>2. QED
  BY <1>1, CallersIInv, GetIInv, SendIInv, ReplyIInv DEF Next, Proceed, Reader

LEMMA Invariance == Spec => []IInv
  BY InitIInv, StepIInv, PTL DEF Spec

\* The state always has its type: no channel ever holds more than its capacity.
THEOREM TypeCorrect == Spec => []TypeOK
<1>1. IInv => TypeOK
  BY DEF IInv
<1>2. QED
  BY <1>1, Invariance, PTL

\* No wake-up is lost, however many goroutines call Add, Remove and Close.
THEOREM NoLostWakeup == Spec => []WakeupsSuffice
<1>1. IInv => WakeupsSuffice
  <2> SUFFICES ASSUME IInv, portOpen
               PROVE  Len(input) + Len(done) <= wakes + Cardinality(Posting)
    BY DEF WakeupsSuffice
  <2>1. Len(input) \in Nat /\ Len(done) \in Nat /\ Held \in {0, 1} /\ wakes \in Nat
    BY DEF IInv, TypeOK, Held
  <2>2. QED
    BY <2>1, PostingFinite DEF IInv, CountInv
<1>2. QED
  BY <1>1, Invariance, PTL

\* The reader never blocks on a caller that has stopped listening.
THEOREM ReplyHasReceiverHolds == Spec => []ReplyHasReceiver
<1>1. IInv => ReplyHasReceiver
  BY DEF IInv
<1>2. QED
  BY <1>1, Invariance, PTL
=============================================================================
