---------------------------- MODULE WsConnProofs ----------------------------
(***************************************************************************)
(* Proofs about WsConn, for buffers, networks, limits and loads of any     *)
(* size.                                                                   *)
(***************************************************************************)
EXTENDS WsConn, SequenceTheorems, TLAPS

\* A frame after which nothing may be sent.
IsLast(f) == IsClose(f.op) \/ f.op = "torn"

\* The reader of e has read a close frame, and answers it or has done so.
CloseRead(e) == readErr[e] = "close" \/ out[e]["reader"].op = "close"

\* A goroutine that writes no frame has none, and a reader writes a frame only
\* between two that it reads.
SubmitInv ==
  \A e \in Ends :
    /\ \A g \in Goroutines : out[e][g].op # "torn" /\ (at[e][g] = "none" => out[e][g] = Bare("none"))
    /\ at[e]["reader"] # "none" =>
         reading[e] \in {"next", "read"} /\ out[e]["reader"].op \in {"pong", "close", "tooBig", "protocol"}
    /\ readErr[e] # "none" <=> reading[e] = "done"

\* LastFrameIsLast needs c.writeErr: while that is "none" no last frame has
\* been sent.
WireInv ==
  \A e \in Ends :
    /\ \A i \in 1 .. Len(wire[e]) : IsLast(wire[e][i]) => i = Len(wire[e]) /\ writeErr[e] # "none"
    /\ CloseRead(Other(e)) => wire[e] = <<>> /\ writeErr[e] # "none"

\* An open writer has a buffer, and one that flushes it is open until the flush
\* has returned.
WriterInv ==
  \A e \in Ends :
    /\ writer[e].open <=> buf[e] # Nobody
    /\ at[e]["writer"] # "none" => writer[e].open \/ call[e].op = "Prepared"
    /\ at[e]["writer"] # "none" => call[e].op # "none"
    /\ call[e].op = "Write" => writer[e].open /\ (out[e]["writer"].fin <=> at[e]["writer"] = "none")
    /\ call[e].op \in {"Prepared", "Flush"} => at[e]["writer"] # "none"

\* The reader fails; it has not told its application yet.
GivesUp(e) == out[e]["reader"].op \in {"tooBig", "protocol"}

\* If messages are read to their ends, then between two of them nothing has
\* been counted.
LimitInv ==
  "Abandon" \notin load.ops =>
    \A e \in Ends :
      /\ readLength[e] <= size[e]
      /\ reading[e] = "next" /\ ~GivesUp(e) => readFinal[e] /\ readLength[e] = 0
      /\ reading[e] = "read" /\ ~GivesUp(e) => ~readFinal[e]
      /\ out[e]["reader"].op = "tooBig" \/ readErr[e] = "tooBig" => size[e] > ReadLimit

IInv == TypeOK /\ SubmitInv /\ WireInv /\ WriterInv /\ BufferOwned /\ LimitInv
-----------------------------------------------------------------------------
(* The operators. *)

LEMMA OtherEnd ==
  ASSUME NEW e \in Ends
  PROVE  Other(e) \in Ends /\ Other(e) # e /\ Other(Other(e)) = e /\ Ends = {e, Other(e)}
<1>1. PICK client \in Ends \ {Server} : Ends = {Server, client}
  BY WsConnAssumption
<1>2. \A f \in Ends : f # e => Other(e) = f
  BY <1>1 DEF Other
<1>3. PICK f \in Ends : f # e /\ Ends = {e, f}
  BY <1>1
<1>4. Other(e) = f /\ Other(f) = e
  BY <1>1, <1>3 DEF Other
<1>5. QED
  BY <1>3, <1>4

\* The units a message continues with.
LEMMA UnitsType ==
  ASSUME AppTypeOK, NEW e \in Ends, NEW k \in Nat, NEW n \in Nat
  PROVE  /\ Units(e, k + 1, k + n) \in Seq(Unit)
         /\ Len(Units(e, k + 1, k + n)) = n
<1>1. Len(sent[e]) + 1 \in Nat
  BY DEF AppTypeOK
<1>2. (k + n) - (k + 1) + 1 = n
  OBVIOUS
<1>3. Units(e, k + 1, k + n) = [i \in 1 .. n |-> <<Len(sent[e]) + 1, (k + 1) + i - 1>>]
  BY <1>2 DEF Units
<1>4. Units(e, k + 1, k + n) \in [1 .. n -> Unit]
  BY <1>1, <1>3 DEF Unit
<1>5. QED
  BY <1>4

LEMMA FramesType ==
  ASSUME NEW op \in {"none", "data", "cont", "torn"} \cup ControlOps,
         NEW fin \in BOOLEAN, NEW data \in Seq(Unit)
  PROVE  Frame(op, fin, data) \in Frames /\ Bare(op) \in Frames
BY DEF Frame, Bare, Frames

LEMMA NoFrames ==
  ASSUME NEW s \in Seq(Frames), Len(s) = 0
  PROVE  s = <<>>
BY EmptySeq

\* A frame that waits for c.mu changes nothing else.
LEMMA Submitted ==
  ASSUME WritingTypeOK, NEW e \in Ends, NEW g \in Goroutines, NEW f \in Frames,
         Submit(e, g, f)
  PROVE  /\ WritingTypeOK' /\ UNCHANGED <<mu, writeErr>>
         /\ at[e][g] = "none" /\ at'[e][g] = "waits" /\ out'[e][g] = f
         /\ \A d \in Ends, h \in Goroutines :
              d # e \/ h # g => at'[d][h] = at[d][h] /\ out'[d][h] = out[d][h]
BY DEF WritingTypeOK, Submit

\* A goroutine that frees c.mu has no frame.
LEMMA Released ==
  ASSUME WritingTypeOK, NEW e \in Ends, NEW g \in Goroutines, Release(e, g),
         writeErr' \in [Ends -> {"none", "closeSent", "failed"}]
  PROVE  /\ WritingTypeOK'
         /\ at[e][g] = "holds" /\ at'[e][g] = "none" /\ out'[e][g] = Bare("none")
         /\ \A d \in Ends, h \in Goroutines :
              d # e \/ h # g => at'[d][h] = at[d][h] /\ out'[d][h] = out[d][h]
<1> USE DEF WritingTypeOK, Release
<1>1. Bare("none") \in Frames
  BY DEF Bare, Frame, Frames
<1>2. /\ at' \in [Ends -> [Goroutines -> {"none", "waits", "holds"}]]
      /\ out' \in [Ends -> [Goroutines -> Frames]]
      /\ mu' \in [Ends -> Goroutines \cup {"free"}]
  BY <1>1
<1>3. \A d \in Ends, h \in Goroutines : at'[d][h] = "holds" <=> mu'[d] = h
  BY DEF Goroutines
<1>4. QED
  BY <1>1, <1>2, <1>3

\* Goroutine g of e is done with its frame, or has given it up.
Freed(e, g) == /\ at'[e][g] = "none" /\ out'[e][g] = Bare("none")
               /\ \A d \in Ends, h \in Goroutines :
                    d # e \/ h # g => at'[d][h] = at[d][h] /\ out'[d][h] = out[d][h]

(* write and WriteControl, and what their callers do next. *)

LEMMA SentType ==
  ASSUME AppTypeOK, NEW e \in Ends, NEW m \in Seq(Unit),
         sent' = sent \/ sent' = [sent EXCEPT ![e] = Append(@, m)]
  PROVE  sent' \in [Ends -> Seq(Seq(Unit))]
<1>1. sent \in [Ends -> Seq(Seq(Unit))]
  BY DEF AppTypeOK
<1>2. Append(sent[e], m) \in Seq(Seq(Unit))
  BY <1>1
<1>3. QED
  BY <1>1, <1>2

LEMMA WriterReturned ==
  ASSUME IInv, NEW e \in Ends, at[e]["writer"] # "none", Freed(e, "writer"),
         NEW res, WriterReturns(e, res)
  PROVE  AppTypeOK' /\ WriterInv' /\ BufferOwned' /\ UNCHANGED reader
<1> USE WsConnAssumption DEF IInv, TypeOK
<1>1. "writer" \in Goroutines /\ Bare("none").fin = TRUE
  BY DEF Goroutines, Bare, Frame
<1>2. UNCHANGED reader /\ call' = IF call[e].op # "Prepared" /\ GoesOn(e, res = "ok") THEN call
                                  ELSE [call EXCEPT ![e] = NoCall]
  BY DEF WriterReturns, AfterPrepared, AfterFlush
<1>3. call' \in [Ends -> [op : CallOps, left : Nat]] /\ \A d \in Ends : d # e => call'[d] = call[d]
  BY <1>2 DEF AppTypeOK, NoCall, CallOps
<1>4. CASE call[e].op = "Prepared"
  <2>1. UNCHANGED <<writer, buf, pool>> /\ call'[e] = NoCall
    BY <1>2, <1>4 DEF WriterReturns, AfterPrepared, AppTypeOK
  <2>2. sent' \in [Ends -> Seq(Seq(Unit))]
    <3>1. out[e]["writer"].data \in Seq(Unit)
      BY <1>1 DEF WritingTypeOK, Frames
    <3>2. QED
      BY <1>4, <3>1, SentType DEF WriterReturns, AfterPrepared
  <2>3. AppTypeOK' /\ BufferOwned'
    BY <1>3, <2>1, <2>2 DEF AppTypeOK, BufferOwned
  <2>4. WriterInv'
    BY <1>1, <1>3, <2>1 DEF WriterInv, Freed, NoCall
  <2>5. QED
    BY <1>2, <2>3, <2>4
<1>5. CASE call[e].op # "Prepared"
  <2>1. AfterFlush(e, res = "ok") /\ writer[e].open /\ buf[e] # Nobody /\ buf[e] \in Buffers
    BY <1>5 DEF WriterReturns, WriterInv, AppTypeOK
  <2>2. sent' \in [Ends -> Seq(Seq(Unit))]
    <3>1. writer[e].count \in Nat
      BY DEF AppTypeOK, MessageWriters
    <3>2. Units(e, 1, writer[e].count) \in Seq(Unit)
      BY <3>1, UnitsType, 0 + 1 = 1, 0 + writer[e].count = writer[e].count
    <3>3. QED
      BY <2>1, <3>2, SentType DEF AfterFlush
  <2>3. CASE res = "ok" /\ ~out[e]["writer"].fin
    <3>1. SetUpNextFrame(e) /\ UNCHANGED <<buf, pool>>
      BY <2>1, <2>3 DEF AfterFlush
    <3>2. /\ writer' \in [Ends -> MessageWriters]
          /\ \A d \in Ends : writer'[d].open = writer[d].open /\ Len(writer'[d].pos) <= BufSize
      <4>1. writer[e] \in MessageWriters /\ writer'[e] = [writer[e] EXCEPT !.pos = <<>>, !.op = "cont"]
        BY <3>1 DEF SetUpNextFrame, AppTypeOK
      <4>2. \A d \in Ends : d # e => writer'[d] = writer[d]
        BY <3>1 DEF SetUpNextFrame, AppTypeOK
      <4>3. writer'[e].pos = <<>> /\ writer'[e].open = writer[e].open
        BY <4>1 DEF AppTypeOK, MessageWriters
      <4>4. Len(writer'[e].pos) <= BufSize
        BY <4>3
      <4>5. writer' \in [Ends -> MessageWriters]
        <5>1. writer'[e] \in MessageWriters
          <6>1. writer'[e] = [open |-> writer[e].open, op |-> "cont", pos |-> <<>>,
                              count |-> writer[e].count]
            BY <4>1 DEF MessageWriters
          <6>2. <<>> \in Seq(Unit)
            OBVIOUS
          <6>3. QED
            BY <4>1, <6>1, <6>2 DEF MessageWriters
        <5>2. writer' = [d \in Ends |-> writer'[d]]
          BY <3>1 DEF SetUpNextFrame, AppTypeOK
        <5>3. QED
          BY <4>2, <5>1, <5>2 DEF AppTypeOK
      <4>6. QED
        BY <4>2, <4>3, <4>4, <4>5 DEF AppTypeOK
    <3>3. AppTypeOK' /\ BufferOwned'
      BY <1>3, <2>2, <3>1, <3>2 DEF AppTypeOK, BufferOwned
    <3>4. /\ call'[e].op \notin {"Prepared", "Flush"}
          /\ call'[e].op = "Write" => call[e].op = "Write"
      BY <1>2, <1>5 DEF GoesOn, NoCall, AppTypeOK
    <3>5. WriterInv'
      BY <1>1, <1>3, <2>1, <3>1, <3>2, <3>4 DEF WriterInv, Freed
    <3>6. QED
      BY <1>2, <3>3, <3>5
  <2>4. CASE ~(res = "ok" /\ ~out[e]["writer"].fin)
    <3>1. EndMessage(e)
      BY <2>1, <2>4 DEF AfterFlush
    <3>2. /\ writer' \in [Ends -> MessageWriters]
          /\ \A d \in Ends : Len(writer'[d].pos) <= BufSize
          /\ ~writer'[e].open /\ \A d \in Ends : d # e => writer'[d] = writer[d]
      BY <3>1 DEF EndMessage, NoWriter, AppTypeOK, MessageWriters
    <3>3. /\ buf' \in [Ends -> Buffers \cup {Nobody}] /\ pool' \subseteq Buffers
          /\ buf'[e] = Nobody /\ \A d \in Ends : d # e => buf'[d] = buf[d]
          /\ pool' = pool \cup {buf[e]}
      BY <2>1, <3>1 DEF EndMessage, PutBuffer, AppTypeOK
    <3>4. AppTypeOK'
      BY <1>3, <2>2, <3>2, <3>3 DEF AppTypeOK
    <3>5. BufferOwned'
      BY <2>1, <3>3 DEF BufferOwned
    <3>6. call'[e].op \notin {"Prepared", "Flush", "Write"}
      BY <1>2, <1>5, <2>4 DEF GoesOn, NoCall, AppTypeOK, WriterInv
    <3>7. WriterInv'
      BY <1>1, <1>3, <3>2, <3>3, <3>6 DEF WriterInv, Freed
    <3>8. QED
      BY <1>2, <3>4, <3>5, <3>7
  <2>5. QED
    BY <2>3, <2>4
<1>6. QED
  BY <1>4, <1>5

LEMMA ReaderReturned ==
  ASSUME IInv, NEW e \in Ends, at[e]["reader"] # "none", Freed(e, "reader"),
         NEW res, ReaderReturns(e, res), UNCHANGED load
  PROVE  /\ ReaderTypeOK' /\ SubmitInv' /\ LimitInv' /\ UNCHANGED app
         /\ \A d \in Ends : CloseRead(d)' => CloseRead(d)
<1> USE DEF IInv, TypeOK
<1> DEFINE op == out[e]["reader"].op
           err == IF op = "pong" THEN IF res = "failed" THEN "failed" ELSE "none" ELSE op
<1>1. "reader" \in Goroutines /\ Bare("none").op = "none"
  BY DEF Goroutines, Bare, Frame
<1>2. /\ UNCHANGED <<app, readFinal, readLength, cur, unread, nth, size, got>>
      /\ readErr' = [readErr EXCEPT ![e] = err]
      /\ reading' = IF err = "none" THEN reading ELSE [reading EXCEPT ![e] = "done"]
  BY DEF ReaderReturns
<1>3. /\ reading[e] \in {"next", "read"} /\ readErr[e] = "none"
      /\ op \in {"pong", "close", "tooBig", "protocol"}
  BY DEF SubmitInv, ReaderTypeOK
<1>4. err \in {"none", "failed", "close", "protocol", "tooBig"}
  BY <1>3
<1> HIDE DEF err, op
<1>5. ReaderTypeOK'
  BY <1>2, <1>4 DEF ReaderTypeOK
<1>6. /\ \A d \in Ends : d # e => readErr'[d] = readErr[d] /\ reading'[d] = reading[d]
      /\ readErr'[e] = err
      /\ reading'[e] = IF err = "none" THEN reading[e] ELSE "done"
  BY <1>2 DEF ReaderTypeOK
<1>7. SubmitInv'
  BY <1>1, <1>3, <1>6 DEF SubmitInv, Freed
<1>8. /\ \A d \in Ends : d # e => out'[d]["reader"] = out[d]["reader"]
      /\ out'[e]["reader"].op = "none"
      /\ err \in {"none", "failed"} \/ err = op
  BY <1>1 DEF Freed, err, op
<1>9. LimitInv'
  <2> SUFFICES ASSUME "Abandon" \notin load.ops, NEW d \in Ends
               PROVE  /\ readLength[d] <= size[d]
                      /\ reading'[d] = "next" /\ ~GivesUp(d)' => readFinal[d] /\ readLength[d] = 0
                      /\ reading'[d] = "read" /\ ~GivesUp(d)' => ~readFinal[d]
                      /\ out'[d]["reader"].op = "tooBig" \/ readErr'[d] = "tooBig" => size[d] > ReadLimit
    BY <1>2 DEF LimitInv
  <2>1. CASE d # e
    BY <1>6, <1>8, <2>1 DEF LimitInv, GivesUp
  <2>2. CASE d = e
    <3>1. CASE err = "none"
      <4>1. op \notin {"tooBig", "protocol"}
        BY <1>3, <3>1 DEF err
      <4>2. QED
        BY <1>3, <1>6, <1>8, <2>2, <3>1, <4>1 DEF LimitInv, GivesUp, op
    <3>2. CASE err # "none"
      BY <1>3, <1>6, <1>8, <2>2, <3>2 DEF LimitInv, op
    <3>3. QED
      BY <3>1, <3>2
  <2>3. QED
    BY <2>1, <2>2
<1>10. \A d \in Ends : CloseRead(d)' => CloseRead(d)
  BY <1>6, <1>8 DEF CloseRead, op
<1>11. QED
  BY <1>2, <1>5, <1>7, <1>9, <1>10

\* What every goroutine's return keeps.
LEMMA ReturnedIInv ==
  ASSUME IInv, NEW e \in Ends, NEW g \in Goroutines, at[e][g] # "none", Freed(e, g),
         NEW res, Returns(e, g, res), UNCHANGED load
  PROVE  /\ AppTypeOK' /\ ReaderTypeOK' /\ SubmitInv' /\ WriterInv' /\ BufferOwned' /\ LimitInv'
         /\ \A d \in Ends : CloseRead(d)' => CloseRead(d)
<1> USE DEF IInv, TypeOK
<1>1. "writer" \in Goroutines /\ "reader" \in Goroutines /\ Bare("none").op = "none"
  BY DEF Goroutines, Bare, Frame
<1>2. ASSUME UNCHANGED reader, g # "reader"
      PROVE  ReaderTypeOK' /\ SubmitInv' /\ LimitInv' /\ \A d \in Ends : CloseRead(d)' => CloseRead(d)
  <2>1. \A d \in Ends : at'[d]["reader"] = at[d]["reader"] /\ out'[d]["reader"] = out[d]["reader"]
    BY <1>1, <1>2 DEF Freed
  <2>2. ReaderTypeOK'
    BY <1>2 DEF reader, ReaderTypeOK
  <2>3. SubmitInv'
    BY <1>1, <1>2, <2>1 DEF reader, SubmitInv, Freed
  <2>4. LimitInv' /\ \A d \in Ends : CloseRead(d)' => CloseRead(d)
    BY <1>2, <2>1 DEF reader, LimitInv, GivesUp, CloseRead
  <2>5. QED
    BY <2>2, <2>3, <2>4
<1>3. ASSUME UNCHANGED app, g # "writer"
      PROVE  AppTypeOK' /\ WriterInv' /\ BufferOwned'
  <2>1. \A d \in Ends : at'[d]["writer"] = at[d]["writer"] /\ out'[d]["writer"] = out[d]["writer"]
    BY <1>1, <1>3 DEF Freed
  <2>2. QED
    BY <1>3, <2>1 DEF app, AppTypeOK, WriterInv, BufferOwned
<1>4. CASE g = "writer"
  <2>1. WriterReturns(e, res)
    BY <1>4 DEF Returns
  <2>2. AppTypeOK' /\ WriterInv' /\ BufferOwned' /\ UNCHANGED reader
    BY <1>4, <2>1, WriterReturned
  <2>3. QED
    BY <1>2, <1>4, <2>2
<1>5. CASE g = "reader"
  <2>1. ReaderReturns(e, res)
    BY <1>5 DEF Returns
  <2>2. QED
    BY <1>3, <1>5, <2>1, ReaderReturned
<1>6. CASE g = "control"
  BY <1>2, <1>3, <1>6 DEF Returns
<1>7. QED
  BY <1>4, <1>5, <1>6 DEF Goroutines

LEMMA Carried ==
  ASSUME NetTypeOK, NEW e \in Ends, NEW f \in Frames, UNCHANGED <<open, cut>>,
         wire' = wire \/ Carry(e, f)
  PROVE  /\ NetTypeOK' /\ wire'[e] \in {wire[e], Append(wire[e], f)}
         /\ \A d \in Ends : d # e => wire'[d] = wire[d]
<1>1. Append(wire[e], f) \in Seq(Frames)
  BY DEF NetTypeOK
<1>2. QED
  BY <1>1 DEF NetTypeOK, Carry

\* After a frame after which nothing may be sent, writeErr is set.
LEMMA SendingWireInv ==
  ASSUME NetTypeOK, WireInv, NEW e \in Ends, NEW f \in Frames,
         writeErr[e] = "none", IsLast(f) => writeErr'[e] # "none",
         wire'[e] \in {wire[e], Append(wire[e], f)},
         \A d \in Ends : d # e => wire'[d] = wire[d] /\ writeErr'[d] = writeErr[d],
         \A d \in Ends : CloseRead(d)' => CloseRead(d)
  PROVE  WireInv'
<1> SUFFICES ASSUME NEW d \in Ends
             PROVE  /\ \A i \in 1 .. Len(wire'[d]) :
                         IsLast(wire'[d][i]) => i = Len(wire'[d]) /\ writeErr'[d] # "none"
                    /\ CloseRead(Other(d))' => wire'[d] = <<>> /\ writeErr'[d] # "none"
  BY DEF WireInv, IsLast
<1>1. Other(d) \in Ends
  BY OtherEnd
<1>2. CASE d # e
  BY <1>1, <1>2 DEF WireInv
<1>3. CASE d = e
  <2>1. ~CloseRead(Other(d))
    BY <1>3 DEF WireInv
  <2>2. \A i \in 1 .. Len(wire[e]) : ~IsLast(wire[e][i])
    BY DEF WireInv
  <2>3. wire[e] \in Seq(Frames)
    BY DEF NetTypeOK
  <2>4. \A i \in 1 .. Len(wire'[e]) : IsLast(wire'[e][i]) => i = Len(wire'[e]) /\ writeErr'[e] # "none"
    <3>1. CASE wire'[e] = wire[e]
      BY <2>2, <3>1
    <3>2. CASE wire'[e] = Append(wire[e], f)
      BY <2>2, <2>3, <3>2
    <3>3. QED
      BY <3>1, <3>2
  <2>5. QED
    BY <1>1, <1>3, <2>1, <2>4
<1>4. QED
  BY <1>2, <1>3

LEMMA WriteIInv ==
  ASSUME IInv, NEW e \in Ends, NEW g \in Goroutines, Write(e, g)
  PROVE  IInv'
<1> USE DEF IInv, TypeOK
<1>1. CASE Acquire(e, g)
  <2>1. at[e][g] = "waits" /\ UNCHANGED <<wire, open, cut, writeErr, out, app, reader, load>>
    BY <1>1 DEF Acquire
  <2>2. /\ at'[e][g] = "holds"
        /\ \A d \in Ends, h \in Goroutines : d # e \/ h # g => at'[d][h] = at[d][h]
    BY <1>1 DEF Acquire, WritingTypeOK
  <2>3. WritingTypeOK'
    <3>1. /\ mu' \in [Ends -> Goroutines \cup {"free"}] /\ mu[e] = "free" /\ mu'[e] = g
          /\ \A d \in Ends : d # e => mu'[d] = mu[d]
      BY <1>1 DEF Acquire, WritingTypeOK
    <3>2. at' \in [Ends -> [Goroutines -> {"none", "waits", "holds"}]]
      BY <1>1 DEF Acquire, WritingTypeOK
    <3>3. "free" \notin Goroutines
      BY DEF Goroutines
    <3>4. QED
      BY <2>1, <2>2, <3>1, <3>2, <3>3 DEF WritingTypeOK
  <2>4. \A d \in Ends, h \in Goroutines : at'[d][h] = "none" <=> at[d][h] = "none"
    BY <2>1, <2>2
  <2>5. NetTypeOK' /\ AppTypeOK' /\ ReaderTypeOK' /\ BufferOwned'
    BY <2>1 DEF app, reader, NetTypeOK, AppTypeOK, ReaderTypeOK, BufferOwned
  <2>6. WriterInv' /\ SubmitInv'
    BY <2>1, <2>4 DEF app, reader, WriterInv, SubmitInv, Goroutines
  <2>7. WireInv' /\ LimitInv'
    BY <2>1 DEF reader, WireInv, LimitInv, CloseRead, GivesUp
  <2>8. QED
    BY <2>3, <2>5, <2>6, <2>7
<1>2. CASE GiveUp(e, g)
  <2>1. at[e][g] = "waits" /\ UNCHANGED <<wire, open, cut, mu, writeErr, load>>
    BY <1>2 DEF GiveUp
  <2>2. WritingTypeOK' /\ Freed(e, g)
    <3>1. Bare("none") \in Frames
      BY DEF Bare, Frame, Frames
    <3>2. Freed(e, g)
      BY <1>2 DEF GiveUp, Freed, WritingTypeOK
    <3>3. at' \in [Ends -> [Goroutines -> {"none", "waits", "holds"}]] /\ out' \in [Ends -> [Goroutines -> Frames]]
      BY <1>2, <3>1 DEF GiveUp, WritingTypeOK
    <3>4. QED
      BY <2>1, <3>2, <3>3 DEF WritingTypeOK, Freed
  <2>3. /\ AppTypeOK' /\ ReaderTypeOK' /\ SubmitInv' /\ WriterInv' /\ BufferOwned' /\ LimitInv'
        /\ \A d \in Ends : CloseRead(d)' => CloseRead(d)
    BY <1>2, <2>1, <2>2, ReturnedIInv DEF GiveUp
  <2>4. NetTypeOK' /\ WireInv'
    BY <2>1, <2>3, OtherEnd DEF NetTypeOK, WireInv
  <2>5. QED
    BY <2>2, <2>3, <2>4
<1>3. ASSUME NEW res, Release(e, g), Returns(e, g, res), UNCHANGED load,
             writeErr' \in [Ends -> {"none", "closeSent", "failed"}]
      PROVE  /\ WritingTypeOK' /\ Freed(e, g)
             /\ AppTypeOK' /\ ReaderTypeOK' /\ SubmitInv' /\ WriterInv' /\ BufferOwned' /\ LimitInv'
             /\ \A d \in Ends : CloseRead(d)' => CloseRead(d)
  <2>1. WritingTypeOK' /\ Freed(e, g) /\ at[e][g] = "holds"
    BY <1>3, Released DEF Freed
  <2>2. QED
    BY <1>3, <2>1, ReturnedIInv
<1>4. CASE Refuse(e, g)
  <2>1. UNCHANGED <<wire, open, cut, writeErr, load>>
    BY <1>4 DEF Refuse
  <2>2. /\ WritingTypeOK' /\ AppTypeOK' /\ ReaderTypeOK' /\ SubmitInv' /\ WriterInv' /\ BufferOwned'
        /\ LimitInv' /\ \A d \in Ends : CloseRead(d)' => CloseRead(d)
    BY <1>3, <1>4, <2>1 DEF Refuse, WritingTypeOK
  <2>3. NetTypeOK' /\ WireInv'
    BY <2>1, <2>2, OtherEnd DEF NetTypeOK, WireInv
  <2>4. QED
    BY <2>2, <2>3
<1>5. out[e][g] \in Frames
  BY DEF WritingTypeOK
<1>6. CASE WriteFrame(e, g)
  <2>1. writeErr[e] = "none" /\ Carry(e, out[e][g]) /\ UNCHANGED <<open, cut, load>>
    BY <1>6 DEF WriteFrame
  <2>2. /\ writeErr' \in [Ends -> {"none", "closeSent", "failed"}]
        /\ IsClose(out[e][g].op) => writeErr'[e] # "none"
        /\ \A d \in Ends : d # e => writeErr'[d] = writeErr[d]
    BY <1>6 DEF WriteFrame, MarkClose, WritingTypeOK
  <2>3. /\ WritingTypeOK' /\ AppTypeOK' /\ ReaderTypeOK' /\ SubmitInv' /\ WriterInv' /\ BufferOwned'
        /\ LimitInv' /\ \A d \in Ends : CloseRead(d)' => CloseRead(d)
    BY <1>3, <1>6, <2>1, <2>2 DEF WriteFrame
  <2>4. /\ NetTypeOK' /\ wire'[e] \in {wire[e], Append(wire[e], out[e][g])}
        /\ \A d \in Ends : d # e => wire'[d] = wire[d]
    BY <1>5, <2>1, Carried
  <2>5. out[e][g].op # "torn"
    BY DEF SubmitInv
  <2>6. WireInv'
    BY <1>5, <2>1, <2>2, <2>3, <2>4, <2>5, SendingWireInv DEF IsLast
  <2>7. QED
    BY <2>3, <2>4, <2>6
<1>7. CASE WriteFails(e, g)
  <2>1. writeErr[e] = "none" /\ (wire' = wire \/ Carry(e, Bare("torn"))) /\ UNCHANGED <<open, cut, load>>
    BY <1>7 DEF WriteFails
  <2>2. /\ writeErr' \in [Ends -> {"none", "closeSent", "failed"}]
        /\ writeErr'[e] # "none"
        /\ \A d \in Ends : d # e => writeErr'[d] = writeErr[d]
    BY <1>7 DEF WriteFails, WritingTypeOK
  <2>3. /\ WritingTypeOK' /\ AppTypeOK' /\ ReaderTypeOK' /\ SubmitInv' /\ WriterInv' /\ BufferOwned'
        /\ LimitInv' /\ \A d \in Ends : CloseRead(d)' => CloseRead(d)
    BY <1>3, <1>7, <2>1, <2>2 DEF WriteFails
  <2>4. Bare("torn") \in Frames
    BY DEF Bare, Frame, Frames
  <2>5. /\ NetTypeOK' /\ wire'[e] \in {wire[e], Append(wire[e], Bare("torn"))}
        /\ \A d \in Ends : d # e => wire'[d] = wire[d]
    BY <2>1, <2>4, Carried
  <2>6. WireInv'
    BY <2>1, <2>2, <2>3, <2>4, <2>5, SendingWireInv
  <2>7. QED
    BY <2>3, <2>5, <2>6
<1>8. QED
  BY <1>1, <1>2, <1>4, <1>6, <1>7 DEF Write
-----------------------------------------------------------------------------
(* The writing goroutine, and the calls of WriteControl. *)

\* A frame that is not the reader's disturbs nothing but the application's side.
LEMMA SubmitIInv ==
  ASSUME IInv, NEW e \in Ends, NEW g \in {"writer", "control"},
         UNCHANGED <<wire, open, cut, reader, load>>,
         UNCHANGED writing \/ (\E f \in Frames : f.op # "torn" /\ Submit(e, g, f))
  PROVE  /\ NetTypeOK' /\ WritingTypeOK' /\ ReaderTypeOK' /\ SubmitInv' /\ WireInv' /\ LimitInv'
         /\ \A d \in Ends : d # e \/ g = "control" =>
              at'[d]["writer"] = at[d]["writer"] /\ out'[d]["writer"] = out[d]["writer"]
<1> USE DEF IInv, TypeOK
<1>1. NetTypeOK' /\ ReaderTypeOK'
  BY DEF reader, NetTypeOK, ReaderTypeOK
<1>2. CASE UNCHANGED writing
  <2>1. WritingTypeOK' /\ SubmitInv'
    BY <1>2 DEF writing, reader, WritingTypeOK, SubmitInv
  <2>2. WireInv' /\ LimitInv'
    BY <1>2 DEF writing, reader, WireInv, LimitInv, CloseRead, GivesUp
  <2>3. QED
    BY <1>1, <1>2, <2>1, <2>2 DEF writing
<1>3. ASSUME NEW f \in Frames, f.op # "torn", Submit(e, g, f)
      PROVE  /\ WritingTypeOK' /\ SubmitInv' /\ WireInv' /\ LimitInv'
             /\ \A d \in Ends : d # e \/ g = "control" =>
                  at'[d]["writer"] = at[d]["writer"] /\ out'[d]["writer"] = out[d]["writer"]
  <2>1. g \in Goroutines /\ "reader" \in Goroutines /\ "writer" \in Goroutines
    BY DEF Goroutines
  <2>2. /\ WritingTypeOK' /\ UNCHANGED <<mu, writeErr>>
        /\ at'[e][g] = "waits" /\ out'[e][g] = f
        /\ \A d \in Ends, h \in Goroutines :
             d # e \/ h # g => at'[d][h] = at[d][h] /\ out'[d][h] = out[d][h]
    <3>1. WritingTypeOK /\ Submit(e, g, f)
      BY <1>3
    <3> HIDE DEF IInv, TypeOK
    <3>2. /\ WritingTypeOK' /\ UNCHANGED <<mu, writeErr>>
          /\ at[e][g] = "none" /\ at'[e][g] = "waits" /\ out'[e][g] = f
      BY <2>1, <3>1, Submitted
    <3>3. \A d \in Ends, h \in Goroutines :
            d # e \/ h # g => at'[d][h] = at[d][h] /\ out'[d][h] = out[d][h]
      BY <2>1, <3>1, Submitted
    <3>4. QED
      BY <3>2, <3>3
  <2>3. \A d \in Ends : at'[d]["reader"] = at[d]["reader"] /\ out'[d]["reader"] = out[d]["reader"]
    BY <2>1, <2>2
  <2>4. SubmitInv'
    BY <1>3, <2>1, <2>2, <2>3 DEF reader, SubmitInv
  <2>5. WireInv' /\ LimitInv'
    BY <2>2, <2>3, OtherEnd DEF reader, WireInv, LimitInv, CloseRead, GivesUp
  <2>6. QED
    BY <2>1, <2>2, <2>4, <2>5
<1>4. QED
  BY <1>1, <1>2, <1>3

\* What WriterInv says about one end.
WriterInvOf(e) ==
  /\ writer[e].open <=> buf[e] # Nobody
  /\ at[e]["writer"] # "none" => writer[e].open \/ call[e].op = "Prepared"
  /\ at[e]["writer"] # "none" => call[e].op # "none"
  /\ call[e].op = "Write" => writer[e].open /\ (out[e]["writer"].fin <=> at[e]["writer"] = "none")
  /\ call[e].op \in {"Prepared", "Flush"} => at[e]["writer"] # "none"

LEMMA LastFrameType ==
  ASSUME IInv, NEW e \in Ends
  PROVE  LastFrame(e) \in Frames /\ LastFrame(e).op # "torn"
BY DEF LastFrame, Frame, Frames, IInv, TypeOK, AppTypeOK, MessageWriters

LEMMA CallType ==
  ASSUME AppTypeOK, NEW e \in Ends, NEW op \in CallOps, NEW n \in Nat,
         call' = [call EXCEPT ![e] = [op |-> op, left |-> n]]
  PROVE  /\ call' \in [Ends -> [op : CallOps, left : Nat]]
         /\ call'[e] = [op |-> op, left |-> n]
         /\ \A d \in Ends : d # e => call'[d] = call[d]
BY DEF AppTypeOK

LEMMA StartMessageIInv ==
  ASSUME IInv, NEW e \in Ends, NEW op \in {"NextWriter", "WriteClose", "WriteMessage"},
         NEW n \in Nat, StartMessage(e, op, n)
  PROVE  IInv'
<1> USE DEF IInv, TypeOK
<1>1. /\ Idle(e) /\ UNCHANGED <<wire, open, cut, writer, buf, pool, sent, reader, load>>
      /\ call' = [call EXCEPT ![e] = [op |-> op, left |-> n]]
      /\ IF writer[e].open THEN Submit(e, "writer", LastFrame(e)) ELSE UNCHANGED writing
  BY DEF StartMessage
<1>2. /\ NetTypeOK' /\ WritingTypeOK' /\ ReaderTypeOK' /\ SubmitInv' /\ WireInv' /\ LimitInv'
      /\ \A d \in Ends : d # e =>
           at'[d]["writer"] = at[d]["writer"] /\ out'[d]["writer"] = out[d]["writer"]
  BY <1>1, SubmitIInv, LastFrameType
<1>3. /\ call' \in [Ends -> [op : CallOps, left : Nat]] /\ call'[e].op = op
      /\ \A d \in Ends : d # e => call'[d] = call[d]
  BY <1>1 DEF AppTypeOK, CallOps
<1>4. AppTypeOK' /\ BufferOwned'
  BY <1>1, <1>3 DEF AppTypeOK, BufferOwned
<1>5. WriterInvOf(e)'
  <2>1. at'[e]["writer"] # "none" => writer[e].open
    BY <1>1 DEF Idle, writing
  <2>2. QED
    BY <1>1, <1>3, <2>1 DEF WriterInvOf, WriterInv
<1>6. WriterInv'
  BY <1>1, <1>2, <1>3, <1>5 DEF WriterInv, WriterInvOf
<1>7. QED
  BY <1>2, <1>4, <1>6

LEMMA BeginMessageIInv ==
  ASSUME IInv, NEW e \in Ends, BeginMessage(e)
  PROVE  IInv'
<1> USE DEF IInv, TypeOK
<1>1. /\ call[e].op \in {"NextWriter", "WriteMessage", "WriteClose"} /\ at[e]["writer"] = "none"
      /\ UNCHANGED <<wire, open, cut, sent, reader, load>>
  BY DEF BeginMessage
<1>2. call[e].left \in Nat
  BY DEF AppTypeOK
<1>3. CASE writeErr[e] # "none"
  <2>1. UNCHANGED <<writer, buf, pool, writing>> /\ call' = [call EXCEPT ![e] = NoCall]
    BY <1>3 DEF BeginMessage
  <2>2. NetTypeOK' /\ WritingTypeOK' /\ ReaderTypeOK' /\ SubmitInv' /\ WireInv' /\ LimitInv'
    BY <1>1, <2>1, SubmitIInv
  <2>3. /\ call' \in [Ends -> [op : CallOps, left : Nat]] /\ call'[e].op = "none"
        /\ \A d \in Ends : d # e => call'[d] = call[d]
    BY <2>1 DEF AppTypeOK, CallOps, NoCall
  <2>4. AppTypeOK' /\ BufferOwned'
    BY <1>1, <2>1, <2>3 DEF AppTypeOK, BufferOwned
  <2>5. WriterInv'
    BY <1>1, <2>1, <2>3 DEF WriterInv, writing
  <2>6. QED
    BY <2>2, <2>4, <2>5
<1>4. CASE writeErr[e] = "none"
  <2> DEFINE f == IF call[e].op = "WriteClose" THEN Bare("close")
                  ELSE Frame("data", TRUE, Units(e, 1, call[e].left))
             w == NewWriter(call[e].left)
  <2>1. /\ GetBuffer(e) /\ writer' = [writer EXCEPT ![e] = w]
        /\ IF call[e].op = "NextWriter"
           THEN call' = [call EXCEPT ![e] = NoCall] /\ UNCHANGED writing
           ELSE call' = [call EXCEPT ![e] = [op |-> "Flush", left |-> 0]] /\ Submit(e, "writer", f)
    BY <1>4 DEF BeginMessage
  <2>2. f \in Frames /\ f.op # "torn"
    <3>1. Units(e, 1, call[e].left) \in Seq(Unit)
      BY <1>2, UnitsType, 0 + 1 = 1, 0 + call[e].left = call[e].left
    <3>2. QED
      BY <3>1 DEF Bare, Frame, Frames, ControlOps
  <2>3. w \in MessageWriters /\ w.pos = <<>> /\ w.open
    <3>1. <<>> \in Seq(Unit)
      OBVIOUS
    <3>2. QED
      BY <1>2, <3>1 DEF NewWriter, MessageWriters
  <2> HIDE DEF f, w
  <2>4. /\ NetTypeOK' /\ WritingTypeOK' /\ ReaderTypeOK' /\ SubmitInv' /\ WireInv' /\ LimitInv'
        /\ \A d \in Ends : d # e =>
             at'[d]["writer"] = at[d]["writer"] /\ out'[d]["writer"] = out[d]["writer"]
    BY <1>1, <2>1, <2>2, SubmitIInv
  <2>5. /\ call' \in [Ends -> [op : CallOps, left : Nat]]
        /\ call'[e].op = IF call[e].op = "NextWriter" THEN "none" ELSE "Flush"
        /\ \A d \in Ends : d # e => call'[d] = call[d]
    <3>1. CASE call[e].op = "NextWriter"
      <4>1. call' = [call EXCEPT ![e] = [op |-> "none", left |-> 0]] /\ "none" \in CallOps
        BY <2>1, <3>1 DEF NoCall, CallOps
      <4>2. QED
        BY <3>1, <4>1, CallType
    <3>2. CASE call[e].op # "NextWriter"
      <4>1. call' = [call EXCEPT ![e] = [op |-> "Flush", left |-> 0]] /\ "Flush" \in CallOps
        BY <2>1, <3>2 DEF CallOps
      <4>2. QED
        BY <3>2, <4>1, CallType
    <3>3. QED
      BY <3>1, <3>2
  <2>6. /\ writer' \in [Ends -> MessageWriters] /\ writer'[e] = w
        /\ \A d \in Ends : d # e => writer'[d] = writer[d]
    BY <2>1, <2>3 DEF AppTypeOK
  <2>7. \A d \in Ends : Len(writer'[d].pos) <= BufSize
    <3>1. Len(writer'[e].pos) = 0 /\ 0 <= BufSize
      BY <2>3, <2>6, WsConnAssumption
    <3>2. \A d \in Ends : d # e => Len(writer'[d].pos) <= BufSize
      BY <2>6 DEF AppTypeOK
    <3>3. QED
      BY <3>1, <3>2
  <2>8. PICK b \in Buffers : /\ b \in pool \/ \A d \in Ends : buf[d] # b
                             /\ buf' = [buf EXCEPT ![e] = b] /\ pool' = pool \ {b}
    BY <2>1 DEF GetBuffer
  <2>9. buf' \in [Ends -> Buffers \cup {Nobody}] /\ pool' \subseteq Buffers
    BY <2>8 DEF AppTypeOK
  <2>10. AppTypeOK'
    BY <1>1, <2>5, <2>6, <2>7, <2>9 DEF AppTypeOK
  <2>11. BufferOwned'
    BY <2>8, WsConnAssumption DEF BufferOwned, AppTypeOK
  <2>12. buf'[e] # Nobody /\ \A d \in Ends : d # e => buf'[d] = buf[d]
    BY <2>8, WsConnAssumption DEF AppTypeOK
  <2>13. WriterInvOf(e)'
    <3>1. call[e].op = "NextWriter" => at'[e]["writer"] = "none"
      BY <1>1, <2>1 DEF writing
    <3>2. call[e].op # "NextWriter" => at'[e]["writer"] = "waits"
      BY <2>1, <2>2, Submitted DEF Goroutines
    <3>3. QED
      BY <2>3, <2>5, <2>6, <2>12, <3>1, <3>2 DEF WriterInvOf
  <2>14. WriterInv'
    BY <2>4, <2>5, <2>6, <2>12, <2>13 DEF WriterInv, WriterInvOf
  <2>15. QED
    BY <2>4, <2>10, <2>11, <2>14
<1>5. QED
  BY <1>3, <1>4

\* A step of the writing goroutine that leaves the buffers where they are.
LEMMA WriterStepIInv ==
  ASSUME IInv, NEW e \in Ends,
         UNCHANGED <<wire, open, cut, buf, pool, sent, reader, load>>,
         UNCHANGED writing \/ (\E f \in Frames : f.op # "torn" /\ Submit(e, "writer", f)),
         call' \in [Ends -> [op : CallOps, left : Nat]],
         \A d \in Ends : d # e => call'[d] = call[d],
         writer' \in [Ends -> MessageWriters], Len(writer'[e].pos) <= BufSize,
         \A d \in Ends : d # e => writer'[d] = writer[d],
         WriterInvOf(e)'
  PROVE  IInv'
<1> USE DEF IInv, TypeOK
<1>1. /\ NetTypeOK' /\ WritingTypeOK' /\ ReaderTypeOK' /\ SubmitInv' /\ WireInv' /\ LimitInv'
      /\ \A d \in Ends : d # e =>
           at'[d]["writer"] = at[d]["writer"] /\ out'[d]["writer"] = out[d]["writer"]
  BY SubmitIInv
<1>2. AppTypeOK'
  BY DEF AppTypeOK
<1>3. BufferOwned'
  BY DEF BufferOwned
<1>4. WriterInv'
  BY <1>1 DEF WriterInv, WriterInvOf
<1>5. QED
  BY <1>1, <1>2, <1>3, <1>4

LEMMA CloseWriterIInv ==
  ASSUME IInv, NEW e \in Ends, CloseWriter(e)
  PROVE  IInv'
<1> USE DEF IInv, TypeOK
<1>1. /\ Idle(e) /\ writer[e].open /\ Submit(e, "writer", LastFrame(e))
      /\ UNCHANGED <<wire, open, cut, writer, buf, pool, sent, reader, load>>
      /\ call' = [call EXCEPT ![e] = [op |-> "Flush", left |-> 0]] /\ "Flush" \in CallOps
  BY DEF CloseWriter, CallOps
<1>2. /\ call' \in [Ends -> [op : CallOps, left : Nat]] /\ call'[e].op = "Flush"
      /\ \A d \in Ends : d # e => call'[d] = call[d]
  BY <1>1, CallType
<1>3. at'[e]["writer"] = "waits"
  BY <1>1, Submitted, LastFrameType DEF Goroutines
<1>4. WriterInvOf(e)'
  BY <1>1, <1>2, <1>3 DEF WriterInvOf, WriterInv
<1>5. writer' \in [Ends -> MessageWriters] /\ Len(writer'[e].pos) <= BufSize
  BY <1>1 DEF AppTypeOK
<1>6. QED
  BY <1>1, <1>2, <1>4, <1>5, LastFrameType, WriterStepIInv

LEMMA WritePreparedIInv ==
  ASSUME IInv, NEW e \in Ends, NEW n \in Nat, WritePrepared(e, n)
  PROVE  IInv'
<1> USE DEF IInv, TypeOK
<1> DEFINE f == Frame("data", TRUE, Units(e, 1, n))
<1>1. /\ Idle(e) /\ Submit(e, "writer", f)
      /\ UNCHANGED <<wire, open, cut, writer, buf, pool, sent, reader, load>>
      /\ call' = [call EXCEPT ![e] = [op |-> "Prepared", left |-> 0]] /\ "Prepared" \in CallOps
  BY DEF WritePrepared, CallOps
<1>2. f \in Frames /\ f.op # "torn"
  <2>1. Units(e, 1, n) \in Seq(Unit)
    BY UnitsType, 0 + 1 = 1, 0 + n = n
  <2>2. QED
    BY <2>1 DEF Frame, Frames
<1> HIDE DEF f
<1>3. /\ call' \in [Ends -> [op : CallOps, left : Nat]] /\ call'[e].op = "Prepared"
      /\ \A d \in Ends : d # e => call'[d] = call[d]
  BY <1>1, CallType
<1>4. at'[e]["writer"] = "waits"
  BY <1>1, <1>2, Submitted DEF Goroutines
<1>5. WriterInvOf(e)'
  BY <1>1, <1>3, <1>4 DEF WriterInvOf, WriterInv
<1>6. writer' \in [Ends -> MessageWriters] /\ Len(writer'[e].pos) <= BufSize
  BY <1>1 DEF AppTypeOK
<1>7. QED
  BY <1>1, <1>2, <1>3, <1>5, <1>6, WriterStepIInv

\* The writer's record with other data.
LEMMA WriterType ==
  ASSUME AppTypeOK, NEW e \in Ends, NEW pos \in Seq(Unit), NEW count \in Nat,
         DOMAIN writer' = Ends,
         writer'[e] = [open |-> writer[e].open, op |-> writer[e].op, pos |-> pos, count |-> count],
         \A d \in Ends : d # e => writer'[d] = writer[d],
         writer' = [d \in Ends |-> writer'[d]]
  PROVE  writer' \in [Ends -> MessageWriters]
<1>1. writer'[e] \in MessageWriters
  BY DEF AppTypeOK, MessageWriters
<1>2. QED
  BY <1>1 DEF AppTypeOK

LEMMA CallWriteIInv ==
  ASSUME IInv, NEW e \in Ends, NEW n \in Nat, CallWrite(e, n)
  PROVE  IInv'
<1> USE DEF IInv, TypeOK
<1> DEFINE w == writer[e]
           f == Frame(w.op, FALSE, w.pos \o Units(e, w.count + 1, w.count + n))
<1>1. /\ Idle(e) /\ w.open /\ UNCHANGED <<wire, open, cut, buf, pool, sent, reader, load>>
      /\ w \in MessageWriters /\ "Write" \in CallOps
  BY DEF CallWrite, AppTypeOK, CallOps
<1>2. CASE e = Server /\ n > 2 * BufSize
  <2>1. /\ writer' = [writer EXCEPT ![e].count = @ + n]
        /\ call' = [call EXCEPT ![e] = [op |-> "Write", left |-> 0]]
        /\ Submit(e, "writer", f)
    BY <1>2 DEF CallWrite
  <2>2. f \in Frames /\ f.op # "torn" /\ f.fin = FALSE
    <3>1. w.count \in Nat /\ w.op \in {"data", "cont"} /\ w.pos \in Seq(Unit)
      BY <1>1 DEF MessageWriters
    <3>2. Units(e, w.count + 1, w.count + n) \in Seq(Unit)
      BY <3>1, UnitsType
    <3>3. w.pos \o Units(e, w.count + 1, w.count + n) \in Seq(Unit)
      BY <3>1, <3>2
    <3>4. QED
      BY <3>1, <3>3 DEF Frame, Frames
  <2> HIDE DEF f
  <2>3. /\ call' \in [Ends -> [op : CallOps, left : Nat]] /\ call'[e].op = "Write"
        /\ \A d \in Ends : d # e => call'[d] = call[d]
    BY <1>1, <2>1, CallType
  <2>4. /\ at'[e]["writer"] = "waits" /\ out'[e]["writer"] = f
    BY <2>1, <2>2, Submitted DEF Goroutines
  <2>5. /\ writer'[e] = [open |-> w.open, op |-> w.op, pos |-> w.pos, count |-> w.count + n]
        /\ \A d \in Ends : d # e => writer'[d] = writer[d]
        /\ DOMAIN writer' = Ends /\ writer' = [d \in Ends |-> writer'[d]]
    <3>1. writer'[e] = [w EXCEPT !.count = w.count + n]
      BY <2>1 DEF AppTypeOK
    <3>2. QED
      BY <1>1, <2>1, <3>1 DEF AppTypeOK, MessageWriters
  <2>6. w.pos \in Seq(Unit) /\ w.count + n \in Nat
    BY <1>1 DEF MessageWriters
  <2>7. writer' \in [Ends -> MessageWriters] /\ Len(writer'[e].pos) <= BufSize
    <3>1. writer' \in [Ends -> MessageWriters]
      BY <2>5, <2>6, WriterType
    <3>2. QED
      BY <2>5, <3>1 DEF AppTypeOK
  <2>8. WriterInvOf(e)'
    BY <1>1, <2>2, <2>3, <2>4, <2>5 DEF WriterInvOf, WriterInv
  <2>9. QED
    BY <1>1, <2>1, <2>2, <2>3, <2>5, <2>7, <2>8, WriterStepIInv
<1>3. CASE ~(e = Server /\ n > 2 * BufSize)
  <2>1. UNCHANGED <<writer, writing>> /\ call' = [call EXCEPT ![e] = [op |-> "Write", left |-> n]]
    BY <1>3 DEF CallWrite
  <2>2. /\ call' \in [Ends -> [op : CallOps, left : Nat]] /\ call'[e].op = "Write"
        /\ \A d \in Ends : d # e => call'[d] = call[d]
    BY <1>1, <2>1, CallType
  <2>3. writer' \in [Ends -> MessageWriters] /\ Len(writer'[e].pos) <= BufSize
    BY <2>1 DEF AppTypeOK
  <2>4. out[e]["writer"].fin = TRUE /\ at[e]["writer"] = "none"
    BY <1>1 DEF Idle, SubmitInv, Goroutines, Bare, Frame
  <2>5. WriterInvOf(e)'
    BY <1>1, <2>1, <2>2, <2>4 DEF WriterInvOf, WriterInv, writing
  <2>6. QED
    BY <1>1, <2>1, <2>2, <2>3, <2>5, WriterStepIInv
<1>4. QED
  BY <1>2, <1>3

LEMMA CopyIInv ==
  ASSUME IInv, NEW e \in Ends, Copy(e)
  PROVE  IInv'
<1> USE DEF IInv, TypeOK
<1> DEFINE w == writer[e]
           room == BufSize - Len(w.pos)
           n == IF call[e].left < room THEN call[e].left ELSE room
           f == Frame(w.op, FALSE, w.pos)
<1>1. /\ call[e].op = "Write" /\ call[e].left > 0 /\ at[e]["writer"] = "none"
      /\ UNCHANGED <<wire, open, cut, buf, pool, sent, reader, load>>
  BY DEF Copy
<1>2. /\ w \in MessageWriters /\ w.count \in Nat /\ w.op \in {"data", "cont"} /\ w.pos \in Seq(Unit)
      /\ Len(w.pos) \in Nat /\ BufSize \in Nat /\ room \in Nat
      /\ call[e].left \in Nat /\ w.open
  <2>1. w \in MessageWriters /\ Len(w.pos) <= BufSize /\ call[e].left \in Nat
    BY DEF AppTypeOK
  <2>2. w.count \in Nat /\ w.op \in {"data", "cont"} /\ w.pos \in Seq(Unit)
    BY <2>1 DEF MessageWriters
  <2>3. BufSize \in Nat
    BY WsConnAssumption
  <2>4. Len(w.pos) \in Nat
    BY <2>2
  <2>5. room \in Nat
    BY <2>1, <2>3, <2>4
  <2>6. w.open
    BY <1>1 DEF WriterInv
  <2>7. QED
    BY <2>1, <2>2, <2>3, <2>4, <2>5, <2>6
<1>3. CASE room = 0
  <2>1. Submit(e, "writer", f) /\ UNCHANGED <<call, writer>>
    BY <1>3 DEF Copy
  <2>2. f \in Frames /\ f.op # "torn" /\ f.fin = FALSE
    BY <1>2 DEF Frame, Frames
  <2> HIDE DEF f
  <2>3. /\ at'[e]["writer"] = "waits" /\ out'[e]["writer"] = f
    BY <2>1, <2>2, Submitted DEF Goroutines
  <2>4. WriterInvOf(e)'
    BY <1>1, <1>2, <2>1, <2>2, <2>3 DEF WriterInvOf, WriterInv
  <2>5. QED
    BY <1>1, <2>1, <2>2, <2>4, WriterStepIInv DEF AppTypeOK
<1>4. CASE room # 0
  <2> DEFINE more == Units(e, w.count + 1, w.count + n)
  <2>1. /\ UNCHANGED writing
        /\ writer' = [writer EXCEPT ![e].pos = w.pos \o more, ![e].count = @ + n]
        /\ call' = [call EXCEPT ![e] = IF call[e].left = n THEN NoCall
                                       ELSE [op |-> "Write", left |-> call[e].left - n]]
    BY <1>4 DEF Copy
  <2>2. n \in Nat /\ n <= room /\ n <= call[e].left
    BY <1>2
  <2>3. AppTypeOK
    OBVIOUS
  <2> HIDE DEF n, w, room, IInv, TypeOK
  <2>4. more \in Seq(Unit) /\ Len(more) = n
    BY <1>2, <2>2, <2>3, UnitsType
  <2> HIDE DEF more
  <2>5. w.pos \o more \in Seq(Unit) /\ Len(w.pos \o more) <= BufSize /\ w.count + n \in Nat
    <3>1. Len(w.pos) + n <= BufSize
      BY <1>2, <2>2 DEF room
    <3>2. w.pos \o more \in Seq(Unit) /\ Len(w.pos \o more) = Len(w.pos) + n
      <4>1. w.pos \in Seq(Unit)
        BY <1>2
      <4>2. QED
        BY <2>4, <4>1, ConcatProperties
    <3>3. QED
      BY <1>2, <2>2, <3>1, <3>2
  <2> USE DEF w, IInv, TypeOK
  <2>6. /\ writer'[e] = [open |-> w.open, op |-> w.op, pos |-> w.pos \o more, count |-> w.count + n]
        /\ \A d \in Ends : d # e => writer'[d] = writer[d]
        /\ DOMAIN writer' = Ends /\ writer' = [d \in Ends |-> writer'[d]]
    <3>1. writer'[e] = [w EXCEPT !.pos = w.pos \o more, !.count = w.count + n]
      BY <2>1 DEF AppTypeOK
    <3>2. QED
      BY <1>2, <2>1, <3>1 DEF AppTypeOK, MessageWriters
  <2>7. writer' \in [Ends -> MessageWriters] /\ Len(writer'[e].pos) <= BufSize
    <3>1. writer' \in [Ends -> MessageWriters]
      BY <1>2, <2>5, <2>6, WriterType
    <3>2. QED
      BY <2>5, <2>6, <3>1
  <2>8. /\ call' \in [Ends -> [op : CallOps, left : Nat]]
        /\ call'[e].op \in {"Write", "none"} /\ \A d \in Ends : d # e => call'[d] = call[d]
    <3>1. CASE call[e].left = n
      <4>1. call' = [call EXCEPT ![e] = [op |-> "none", left |-> 0]] /\ "none" \in CallOps
        BY <2>1, <3>1 DEF NoCall, CallOps
      <4>2. QED
        BY <4>1, CallType
    <3>2. CASE call[e].left # n
      <4>1. /\ call' = [call EXCEPT ![e] = [op |-> "Write", left |-> call[e].left - n]]
            /\ "Write" \in CallOps /\ call[e].left - n \in Nat
        BY <1>2, <2>1, <2>2, <3>2 DEF CallOps
      <4>2. QED
        BY <4>1, CallType
    <3>3. QED
      BY <3>1, <3>2
  <2>9. WriterInvOf(e)'
    BY <1>1, <1>2, <2>1, <2>6, <2>8 DEF WriterInvOf, WriterInv, writing
  <2>10. QED
    BY <1>1, <2>1, <2>6, <2>7, <2>8, <2>9, WriterStepIInv
<1>5. QED
  BY <1>3, <1>4

LEMMA CallControlIInv ==
  ASSUME IInv, NEW e \in Ends, NEW op \in {"ping", "close"}, CallControl(e, op)
  PROVE  IInv'
<1> USE DEF IInv, TypeOK
<1>1. Submit(e, "control", Bare(op)) /\ UNCHANGED <<wire, open, cut, app, reader, load>>
  BY DEF CallControl
<1>2. Bare(op) \in Frames /\ Bare(op).op # "torn"
  BY DEF Bare, Frame, Frames, ControlOps
<1>3. /\ NetTypeOK' /\ WritingTypeOK' /\ ReaderTypeOK' /\ SubmitInv' /\ WireInv' /\ LimitInv'
      /\ \A d \in Ends :
           at'[d]["writer"] = at[d]["writer"] /\ out'[d]["writer"] = out[d]["writer"]
  BY <1>1, <1>2, SubmitIInv
<1>4. AppTypeOK' /\ BufferOwned' /\ WriterInv'
  BY <1>1, <1>3 DEF app, AppTypeOK, BufferOwned, WriterInv
<1>5. QED
  BY <1>3, <1>4
-----------------------------------------------------------------------------
(* The reading goroutine. *)

\* An answer of the reader; only a close frame is answered by one.
Answer(e, f) == \E r \in Frames :
                  /\ Submit(e, "reader", r)
                  /\ r.op \in {"pong", "close", "tooBig", "protocol"}
                  /\ r.op = "close" => IsClose(f.op)

LEMMA TakeIInv ==
  ASSUME IInv, NEW e \in Ends, NEW f, Incoming(e) # <<>>, f = Head(Incoming(e)), Take(e, f),
         \/ UNCHANGED writing /\ reading'[e] \in {reading[e], "held"}
         \/ Answer(e, f) /\ reading' = reading,
         \A d \in Ends : d # e => reading'[d] = reading[d]
  PROVE  /\ NetTypeOK' /\ WritingTypeOK' /\ AppTypeOK' /\ SubmitInv' /\ WireInv' /\ WriterInv' /\ BufferOwned'
         /\ f \in Frames /\ at[e]["reader"] = "none" /\ out[e]["reader"].op = "none"
         /\ \A d \in Ends : d # e => out'[d]["reader"] = out[d]["reader"]
<1> USE DEF IInv, TypeOK
<1> DEFINE o == Other(e)
<1>1. o \in Ends /\ o # e /\ Other(o) = e /\ Ends = {e, o}
  BY OtherEnd
<1>2. /\ wire[o] \in Seq(Frames) /\ wire[o] # <<>> /\ f = Head(wire[o])
      /\ f \in Frames /\ f = wire[o][1] /\ Len(wire[o]) \in Nat \ {0}
  <2>1. wire[o] \in Seq(Frames) /\ wire[o] # <<>> /\ f = Head(wire[o])
    BY <1>1 DEF Incoming, NetTypeOK
  <2>2. QED
    BY <2>1, HeadTailProperties, EmptySeq
<1>3. /\ wire' = [wire EXCEPT ![o] = Tail(@)] /\ at[e]["reader"] = "none"
      /\ reading[e] \in {"next", "read"}
      /\ UNCHANGED <<open, cut, app, readErr, load>>
  BY DEF Take
<1>4. wire'[o] = Tail(wire[o]) /\ wire'[e] = wire[e]
  BY <1>1, <1>3 DEF NetTypeOK
<1>5. "reader" \in Goroutines /\ "writer" \in Goroutines /\ "control" \in Goroutines
  BY DEF Goroutines
<1> HIDE DEF o
<1>6. NetTypeOK'
  BY <1>1, <1>2, <1>3 DEF NetTypeOK
<1>7. /\ WritingTypeOK' /\ UNCHANGED <<mu, writeErr>>
      /\ \A d \in Ends, h \in Goroutines :
           d # e \/ h # "reader" => at'[d][h] = at[d][h] /\ out'[d][h] = out[d][h]
      /\ \/ UNCHANGED <<at, out>>
         \/ /\ at'[e]["reader"] = "waits" /\ reading' = reading
            /\ out'[e]["reader"].op \in {"pong", "close", "tooBig", "protocol"}
            /\ out'[e]["reader"].op = "close" => IsClose(f.op)
  <2>1. CASE UNCHANGED writing
    BY <2>1 DEF writing, WritingTypeOK
  <2>2. CASE Answer(e, f) /\ reading' = reading
    <3>1. PICK r \in Frames : /\ Submit(e, "reader", r)
                              /\ r.op \in {"pong", "close", "tooBig", "protocol"}
                              /\ r.op = "close" => IsClose(f.op)
      BY <2>2 DEF Answer
    <3>2. /\ WritingTypeOK' /\ UNCHANGED <<mu, writeErr>>
          /\ at'[e]["reader"] = "waits" /\ out'[e]["reader"] = r
          /\ \A d \in Ends, h \in Goroutines :
               d # e \/ h # "reader" => at'[d][h] = at[d][h] /\ out'[d][h] = out[d][h]
      <4>1. WritingTypeOK
        OBVIOUS
      <4> HIDE DEF IInv, TypeOK
      <4>2. QED
        BY <1>5, <3>1, <4>1, Submitted
    <3>3. QED
      BY <2>2, <3>1, <3>2
  <2>3. QED
    BY <2>1, <2>2
<1>8. SubmitInv'
  <2>1. \A d \in Ends, g \in Goroutines :
          out'[d][g].op # "torn" /\ (at'[d][g] = "none" => out'[d][g] = Bare("none"))
    BY <1>7 DEF SubmitInv
  <2>2. /\ \A d \in Ends : readErr'[d] # "none" <=> reading'[d] = "done"
        /\ \A d \in Ends : at'[d]["reader"] # "none" =>
             reading'[d] \in {"next", "read"} /\ out'[d]["reader"].op \in {"pong", "close", "tooBig", "protocol"}
    BY <1>3, <1>5, <1>7 DEF SubmitInv
  <2>3. QED
    BY <2>1, <2>2 DEF SubmitInv
<1>9. WireInv'
  <2>1. \A i \in 1 .. Len(wire'[o]) : IsLast(wire'[o][i]) => i = Len(wire'[o]) /\ writeErr[o] # "none"
    <3>1. \A i \in 1 .. Len(wire'[o]) : wire'[o][i] = wire[o][i + 1] /\ Len(wire'[o]) = Len(wire[o]) - 1
      BY <1>2, <1>4
    <3>2. \A i \in 1 .. Len(wire[o]) : IsLast(wire[o][i]) => i = Len(wire[o]) /\ writeErr[o] # "none"
      BY <1>1 DEF WireInv
    <3>3. \A i \in 1 .. Len(wire'[o]) : i + 1 \in 1 .. Len(wire[o])
      <4>1. Len(wire'[o]) = Len(wire[o]) - 1
        BY <1>2, <1>4, HeadTailProperties
      <4>2. QED
        BY <1>2, <4>1
    <3>4. \A i \in 1 .. Len(wire'[o]) : i + 1 = Len(wire[o]) => i = Len(wire'[o])
      BY <1>2, <3>1
    <3>5. QED
      BY <3>1, <3>2, <3>3, <3>4
  <2>2. CloseRead(e)' => wire'[o] = <<>> /\ writeErr[o] # "none"
    <3>1. ~CloseRead(e)
      BY <1>1, <1>2 DEF WireInv
    <3>2. CloseRead(e)' => IsClose(f.op)
      BY <1>3, <1>7, <3>1 DEF CloseRead
    <3>3. IsClose(f.op) => Len(wire[o]) = 1 /\ writeErr[o] # "none"
      <4>1. \A i \in 1 .. Len(wire[o]) : IsLast(wire[o][i]) => i = Len(wire[o]) /\ writeErr[o] # "none"
        BY <1>1 DEF WireInv
      <4>2. 1 \in 1 .. Len(wire[o])
        BY <1>2
      <4>3. QED
        BY <1>2, <4>1, <4>2 DEF IsLast
    <3>4. Len(wire[o]) = 1 => Tail(wire[o]) = <<>>
      <4>1. Tail(wire[o]) \in Seq(Frames) /\ Len(Tail(wire[o])) = Len(wire[o]) - 1
        BY <1>2, HeadTailProperties
      <4>2. Len(wire[o]) = 1 => Len(Tail(wire[o])) = 0
        BY <1>2, <4>1
      <4>3. QED
        BY <4>1, <4>2, NoFrames
    <3>5. QED
      BY <1>4, <3>2, <3>3, <3>4
  <2>3. CloseRead(o)' <=> CloseRead(o)
    BY <1>1, <1>3, <1>5, <1>7 DEF CloseRead
  <2>4. \A i \in 1 .. Len(wire[e]) : IsLast(wire[e][i]) => i = Len(wire[e]) /\ writeErr[e] # "none"
    BY DEF WireInv
  <2>5. CloseRead(o)' => wire[e] = <<>> /\ writeErr[e] # "none"
    BY <1>1, <2>3 DEF WireInv, o
  <2>6. Other(e) = o
    BY DEF o
  <2>7. SUFFICES ASSUME NEW d \in Ends
                 PROVE  /\ \A i \in 1 .. Len(wire'[d]) :
                             IsLast(wire'[d][i]) => i = Len(wire'[d]) /\ writeErr'[d] # "none"
                        /\ CloseRead(Other(d))' => wire'[d] = <<>> /\ writeErr'[d] # "none"
    BY DEF WireInv, IsLast
  <2>8. CASE d = o
    BY <1>1, <1>7, <2>1, <2>2, <2>8
  <2>9. CASE d = e
    BY <1>4, <1>7, <2>4, <2>5, <2>6, <2>9
  <2>10. QED
    BY <1>1, <2>8, <2>9
<1>10. AppTypeOK' /\ BufferOwned' /\ WriterInv'
  <2>1. UNCHANGED <<call, writer, buf, pool, sent>>
    BY <1>3 DEF app
  <2>2. AppTypeOK' /\ BufferOwned'
    BY <2>1 DEF AppTypeOK, BufferOwned
  <2>3. \A d \in Ends : at'[d]["writer"] = at[d]["writer"] /\ out'[d]["writer"] = out[d]["writer"]
    BY <1>5, <1>7
  <2>4. WriterInv'
    BY <2>1, <2>3 DEF WriterInv
  <2>5. QED
    BY <2>2, <2>4
<1>11. out[e]["reader"].op = "none"
  BY <1>3, <1>5 DEF SubmitInv, Bare, Frame
<1>12. QED
  BY <1>2, <1>3, <1>5, <1>6, <1>7, <1>8, <1>9, <1>10, <1>11

\* What LimitInv says about one end.
LimitInvOf(e) ==
  "Abandon" \notin load.ops =>
    /\ readLength[e] <= size[e]
    /\ reading[e] = "next" /\ ~GivesUp(e) => readFinal[e] /\ readLength[e] = 0
    /\ reading[e] = "read" /\ ~GivesUp(e) => ~readFinal[e]
    /\ out[e]["reader"].op = "tooBig" \/ readErr[e] = "tooBig" => size[e] > ReadLimit

LEMMA ReadFrameIInv ==
  ASSUME IInv, NEW e \in Ends, Incoming(e) # <<>>, NEW f, f = Head(Incoming(e)), ReadFrame(e, f)
  PROVE  IInv'
<1> USE DEF IInv, TypeOK
<1>1. UNCHANGED <<load, readErr, cur, got>>
  BY DEF ReadFrame, ReadPong, ReadPing, ReadClose, ReadBad, ReadTooLong, ReadData, Data, Take
<1>2. \A op \in ControlOps : Bare(op) \in Frames /\ Bare(op).op = op
  BY DEF Bare, Frame, Frames
<1>3. \A d \in Ends : LimitInvOf(d)
  BY DEF LimitInv, LimitInvOf
<1>4. ASSUME /\ NetTypeOK' /\ WritingTypeOK' /\ AppTypeOK' /\ SubmitInv' /\ WireInv' /\ WriterInv' /\ BufferOwned'
             /\ ReaderTypeOK' /\ \A d \in Ends : LimitInvOf(d)'
      PROVE  IInv'
  BY <1>4 DEF LimitInv, LimitInvOf
<1>5. CASE ReadPong(e, f) \/ ReadPing(e, f) \/ ReadClose(e, f)
  <2>1. Take(e, f) /\ UNCHANGED <<reading, readFinal, readLength, unread, nth, size>>
    BY <1>5 DEF ReadPong, ReadPing, ReadClose, NotData
  <2>2. UNCHANGED writing \/ \E op \in {"pong", "close"} : /\ Submit(e, "reader", Bare(op))
                                                           /\ op = "close" => IsClose(f.op)
    BY <1>5 DEF ReadPong, ReadPing, ReadClose
  <2>3. UNCHANGED writing \/ Answer(e, f)
    BY <1>2, <2>2 DEF Answer, ControlOps
  <2>4. /\ NetTypeOK' /\ WritingTypeOK' /\ AppTypeOK' /\ SubmitInv' /\ WireInv' /\ WriterInv' /\ BufferOwned'
        /\ at[e]["reader"] = "none" /\ out[e]["reader"].op = "none"
        /\ \A d \in Ends : d # e => out'[d]["reader"] = out[d]["reader"]
    BY <2>1, <2>3, TakeIInv
  <2>5. ReaderTypeOK'
    BY <1>1, <2>1 DEF ReaderTypeOK
  <2>6. out'[e]["reader"].op \notin {"tooBig", "protocol"}
    <3>1. CASE UNCHANGED writing
      BY <2>4, <3>1 DEF writing
    <3>2. ASSUME NEW op \in {"pong", "close"}, Submit(e, "reader", Bare(op))
          PROVE  out'[e]["reader"].op \notin {"tooBig", "protocol"}
      BY <1>2, <3>2, Submitted DEF ControlOps, Goroutines
    <3>3. QED
      BY <2>2, <3>1, <3>2
  <2>7. \A d \in Ends : LimitInvOf(d)'
    BY <1>1, <1>3, <2>1, <2>4, <2>6 DEF LimitInvOf, GivesUp
  <2>8. QED
    BY <1>4, <2>4, <2>5, <2>7
<1>6. ASSUME ReadBad(e, f) \/ ReadTooLong(e, f) \/ ReadData(e, f)
      PROVE  /\ Take(e, f) /\ f.op \in {"data", "cont"} /\ readFinal' = [readFinal EXCEPT ![e] = f.fin]
             /\ \A d \in Ends : d # e => reading'[d] = reading[d]
  <2>1. reading \in [Ends -> {"next", "read", "held", "done"}]
    BY DEF ReaderTypeOK
  <2>2. CASE ReadBad(e, f)
    BY <2>1, <2>2 DEF ReadBad
  <2>3. CASE ReadTooLong(e, f)
    BY <2>1, <2>3 DEF ReadTooLong, Data
  <2>4. CASE ReadData(e, f)
    BY <2>1, <2>4 DEF ReadData, Data
  <2>5. QED
    BY <1>6, <2>2, <2>3, <2>4
<1>7. ASSUME Incoming(e) \in Seq(Frames) PROVE f \in Frames
  BY <1>7, HeadTailProperties
<1>8. f \in Frames
  BY <1>7, OtherEnd DEF Incoming, NetTypeOK
<1>9. f.fin \in BOOLEAN /\ f.data \in Seq(Unit) /\ Len(f.data) \in Nat
  BY <1>8 DEF Frames
<1>10. CASE ReadBad(e, f)
  <2>1. /\ Take(e, f) /\ readFinal' = [readFinal EXCEPT ![e] = f.fin]
        /\ Submit(e, "reader", Bare("protocol"))
        /\ UNCHANGED <<reading, readLength, unread, nth, size>>
    BY <1>10 DEF ReadBad
  <2>2. Answer(e, f)
    BY <1>2, <2>1 DEF Answer, ControlOps
  <2>3. /\ NetTypeOK' /\ WritingTypeOK' /\ AppTypeOK' /\ SubmitInv' /\ WireInv' /\ WriterInv' /\ BufferOwned'
        /\ at[e]["reader"] = "none" /\ out[e]["reader"].op = "none"
        /\ \A d \in Ends : d # e => out'[d]["reader"] = out[d]["reader"]
    BY <2>1, <2>2, TakeIInv
  <2>4. ReaderTypeOK' /\ \A d \in Ends : d # e => readFinal'[d] = readFinal[d]
    BY <1>1, <1>9, <2>1 DEF ReaderTypeOK
  <2>5. out'[e]["reader"].op = "protocol"
    BY <1>2, <2>1, Submitted DEF ControlOps, Goroutines
  <2>6. \A d \in Ends : d # e => LimitInvOf(d)'
    BY <1>1, <1>3, <2>1, <2>3, <2>4 DEF LimitInvOf, GivesUp
  <2>7. readErr[e] = "none"
    BY <2>1 DEF Take, SubmitInv, ReaderTypeOK
  <2>8. LimitInvOf(e)'
    BY <1>1, <1>3, <2>1, <2>5, <2>7 DEF LimitInvOf, GivesUp
  <2>9. QED
    BY <1>4, <2>3, <2>4, <2>6, <2>8
<1>11. ASSUME Data(e, f)
       PROVE  /\ Take(e, f) /\ f.op \in {"data", "cont"} /\ InOrder(e, f)
              /\ readFinal'[e] = f.fin /\ readLength'[e] = readLength[e] + Len(f.data)
              /\ size'[e] = Len(f.data) + IF f.op = "data" THEN 0 ELSE size[e]
              /\ \A d \in Ends : d # e => /\ readFinal'[d] = readFinal[d] /\ readLength'[d] = readLength[d]
                                          /\ size'[d] = size[d]
              /\ readFinal' \in [Ends -> BOOLEAN] /\ {readLength, size, nth}' \subseteq [Ends -> Nat]
              /\ readErr[e] = "none" /\ reading[e] \in {"next", "read"}
  <2>1. Take(e, f) /\ f.op \in {"data", "cont"} /\ InOrder(e, f)
    BY <1>11 DEF Data
  <2>2. readErr[e] = "none" /\ reading[e] \in {"next", "read"}
    BY <2>1 DEF Take, SubmitInv, ReaderTypeOK
  <2>3. readFinal' \in [Ends -> BOOLEAN] /\ {readLength, size, nth}' \subseteq [Ends -> Nat]
    <3>1. readFinal' \in [Ends -> BOOLEAN]
      BY <1>9, <1>11 DEF Data, ReaderTypeOK
    <3>2. readLength' \in [Ends -> Nat]
      BY <1>9, <1>11 DEF Data, Length, ReaderTypeOK
    <3>3. nth' \in [Ends -> Nat]
      BY <1>11 DEF Data, ReaderTypeOK
    <3>4. size' \in [Ends -> Nat]
      BY <1>9, <1>11 DEF Data, ReaderTypeOK
    <3>5. QED
      BY <3>1, <3>2, <3>3, <3>4
  <2>4. QED
    BY <1>11, <2>1, <2>2, <2>3 DEF Data, Length, ReaderTypeOK
<1>12. ASSUME Data(e, f)
       PROVE  "Abandon" \notin load.ops /\ ~GivesUp(e) =>
                readLength'[e] <= size'[e] /\ (reading[e] = "next" => f.op = "data")
  <2> SUFFICES ASSUME "Abandon" \notin load.ops, ~GivesUp(e)
               PROVE  readLength'[e] <= size'[e] /\ (reading[e] = "next" => f.op = "data")
    OBVIOUS
  <2>1. readLength[e] \in Nat /\ size[e] \in Nat /\ readFinal[e] \in BOOLEAN
    BY DEF ReaderTypeOK
  <2>2. LimitInvOf(e)
    BY <1>3
  <2>3. (f.op = "data") = readFinal[e]
    BY <1>11, <1>12 DEF InOrder
  <2>4. CASE reading[e] = "next"
    BY <1>9, <1>11, <1>12, <2>1, <2>2, <2>3, <2>4 DEF LimitInvOf
  <2>5. CASE reading[e] = "read"
    BY <1>9, <1>11, <1>12, <2>1, <2>2, <2>3, <2>5 DEF LimitInvOf
  <2>6. QED
    BY <1>11, <1>12, <2>4, <2>5
<1>13. CASE ReadTooLong(e, f)
  <2>1. /\ Data(e, f) /\ readLength[e] + Len(f.data) > ReadLimit
        /\ Submit(e, "reader", Bare("tooBig")) /\ UNCHANGED <<reading, unread>>
    BY <1>13 DEF ReadTooLong, Length
  <2>2. Answer(e, f)
    BY <1>2, <2>1 DEF Answer, ControlOps
  <2>3. /\ NetTypeOK' /\ WritingTypeOK' /\ AppTypeOK' /\ SubmitInv' /\ WireInv' /\ WriterInv' /\ BufferOwned'
        /\ at[e]["reader"] = "none" /\ out[e]["reader"].op = "none"
        /\ \A d \in Ends : d # e => out'[d]["reader"] = out[d]["reader"]
    BY <1>11, <2>1, <2>2, TakeIInv
  <2>4. ReaderTypeOK'
    BY <1>1, <1>11, <2>1 DEF ReaderTypeOK
  <2>5. out'[e]["reader"].op = "tooBig"
    BY <1>2, <2>1, Submitted DEF ControlOps, Goroutines
  <2>6. ASSUME NEW d \in Ends, d # e PROVE LimitInvOf(d)'
    <3>1. /\ readLength'[d] = readLength[d] /\ size'[d] = size[d] /\ readFinal'[d] = readFinal[d]
          /\ reading'[d] = reading[d] /\ readErr'[d] = readErr[d] /\ load' = load
          /\ out'[d]["reader"] = out[d]["reader"]
      BY <1>1, <1>11, <2>1, <2>3, <2>6 DEF ReaderTypeOK
    <3>2. LimitInvOf(d)
      BY <1>3
    <3>3. QED
      BY <3>1, <3>2 DEF LimitInvOf, GivesUp
  <2>7. "Abandon" \notin load.ops => readLength'[e] <= size'[e] /\ size'[e] > ReadLimit
    <3>1. ~GivesUp(e)
      BY <2>3 DEF GivesUp
    <3>2. readLength'[e] > ReadLimit /\ readLength'[e] \in Nat /\ size'[e] \in Nat /\ ReadLimit \in Nat
      BY <1>11, <2>1, <2>4, WsConnAssumption DEF ReaderTypeOK
    <3>3. QED
      BY <1>12, <2>1, <3>1, <3>2
  <2>8. LimitInvOf(e)'
    BY <1>1, <2>5, <2>7 DEF LimitInvOf, GivesUp
  <2>9. QED
    BY <1>4, <2>3, <2>4, <2>6, <2>8
<1>14. CASE ReadData(e, f)
  <2>1. /\ Data(e, f) /\ UNCHANGED writing
        /\ IF reading[e] = "next" /\ f.op = "cont"
           THEN UNCHANGED <<reading, unread>>
           ELSE /\ reading' = [reading EXCEPT ![e] = "held"]
                /\ unread' = [unread EXCEPT ![e] = f.data]
    BY <1>14 DEF ReadData
  <2>2. /\ reading' \in [Ends -> {"next", "read", "held", "done"}] /\ unread' \in [Ends -> Seq(Unit)]
        /\ \A d \in Ends : d # e => reading'[d] = reading[d]
        /\ reading'[e] = IF reading[e] = "next" /\ f.op = "cont" THEN "next" ELSE "held"
    BY <1>9, <2>1 DEF ReaderTypeOK
  <2>3. /\ NetTypeOK' /\ WritingTypeOK' /\ AppTypeOK' /\ SubmitInv' /\ WireInv' /\ WriterInv' /\ BufferOwned'
        /\ at[e]["reader"] = "none" /\ out[e]["reader"].op = "none"
    BY <1>11, <2>1, <2>2, TakeIInv
  <2>4. ReaderTypeOK'
    BY <1>1, <1>11, <2>1, <2>2 DEF ReaderTypeOK
  <2>5. UNCHANGED out
    BY <2>1 DEF writing
  <2>6. ~GivesUp(e)
    BY <2>3 DEF GivesUp
  <2>7. ASSUME NEW d \in Ends, d # e PROVE LimitInvOf(d)'
    <3>1. UNCHANGED <<readLength[d], size[d], reading[d], readFinal[d], readErr, out, load>>
      BY <1>1, <1>11, <2>1, <2>2, <2>5, <2>7
    <3>2. QED
      BY <1>3, <3>1 DEF LimitInvOf, GivesUp
  <2>8. LimitInvOf(e)'
    <3>1. readErr'[e] # "tooBig" /\ out'[e]["reader"].op = "none"
      BY <1>1, <1>11, <2>1, <2>3, <2>5
    <3>2. "Abandon" \notin load.ops => readLength'[e] <= size'[e] /\ reading'[e] = "held"
      BY <1>12, <2>1, <2>2, <2>6
    <3>3. QED
      BY <1>1, <3>1, <3>2 DEF LimitInvOf
  <2>9. QED
    BY <1>4, <2>3, <2>4, <2>7, <2>8
<1>15. QED
  BY <1>5, <1>10, <1>13, <1>14 DEF ReadFrame

\* A step of the reader that takes no frame and writes none.
LEMMA ReaderStepIInv ==
  ASSUME IInv, NEW e \in Ends, UNCHANGED <<wire, open, cut, writing, app, load>>,
         ReaderTypeOK', at[e]["reader"] = "none",
         \A d \in Ends : d # e =>
           UNCHANGED <<reading[d], readFinal[d], readLength[d], size[d], readErr[d]>>,
         readErr'[e] # "none" <=> reading'[e] = "done",
         readErr'[e] \in {readErr[e], "failed"},
         "Abandon" \notin load.ops =>
           /\ readLength'[e] <= size'[e]
           /\ reading'[e] = "next" => readFinal'[e] /\ readLength'[e] = 0
           /\ reading'[e] = "read" => ~readFinal'[e]
           /\ readErr'[e] = "tooBig" => size'[e] > ReadLimit
  PROVE  IInv'
<1> USE DEF IInv, TypeOK
<1>1. UNCHANGED <<mu, writeErr, at, out, call, writer, buf, pool, sent>>
  BY DEF writing, app
<1>2. NetTypeOK' /\ WritingTypeOK' /\ AppTypeOK' /\ WriterInv' /\ BufferOwned'
  BY <1>1 DEF NetTypeOK, WritingTypeOK, AppTypeOK, WriterInv, BufferOwned
<1>3. SubmitInv'
  BY <1>1 DEF SubmitInv
<1>4. \A d \in Ends : CloseRead(d)' => CloseRead(d)
  BY <1>1 DEF CloseRead
<1>5. WireInv'
  BY <1>1, <1>4, OtherEnd DEF WireInv
<1>6. out[e]["reader"].op = "none"
  BY DEF SubmitInv, Goroutines, Bare, Frame
<1>7. LimitInv'
  BY <1>1, <1>6 DEF LimitInv, GivesUp
<1>8. QED
  BY <1>2, <1>3, <1>5, <1>7

LEMMA ReadPayloadIInv ==
  ASSUME IInv, NEW e \in Ends, ReadPayload(e)
  PROVE  IInv'
<1> DEFINE all == cur[e] \o unread[e]
<1>1. /\ reading[e] = "held" /\ UNCHANGED <<wire, open, cut, writing, app, readFinal, readErr, nth, size, load>>
      /\ unread' = [unread EXCEPT ![e] = <<>>]
      /\ IF readFinal[e]
         THEN got' = [got EXCEPT ![e] = Append(@, <<nth[e], all>>)] /\ NextReader(e)
         ELSE /\ cur' = [cur EXCEPT ![e] = all] /\ reading' = [reading EXCEPT ![e] = "read"]
              /\ UNCHANGED <<got, readLength>>
  BY DEF ReadPayload
<1>2. ReaderTypeOK /\ WritingTypeOK /\ SubmitInv /\ LimitInv
  BY DEF IInv, TypeOK
<1>3. cur[e] \in Seq(Unit) /\ unread[e] \in Seq(Unit) /\ nth[e] \in Nat /\ got[e] \in Seq(Nat \X Seq(Unit))
  BY <1>2 DEF ReaderTypeOK
<1>4. all \in Seq(Unit) /\ <<>> \in Seq(Unit)
  BY <1>3
<1> HIDE DEF all
<1>5. Append(got[e], <<nth[e], all>>) \in Seq(Nat \X Seq(Unit))
  BY <1>3, <1>4
<1>6. unread' \in [Ends -> Seq(Unit)]
  BY <1>1, <1>2, <1>4 DEF ReaderTypeOK
<1>7. at[e]["reader"] = "none" /\ readErr[e] = "none" /\ size[e] \in Nat
  <2>1. at[e]["reader"] \in {"none", "waits", "holds"} /\ readErr[e] \in {"none", "failed", "close", "protocol", "tooBig"}
    BY <1>2 DEF WritingTypeOK, Goroutines, ReaderTypeOK
  <2>2. QED
    BY <1>1, <1>2, <2>1 DEF SubmitInv, ReaderTypeOK
<1>8. "Abandon" \notin load.ops => readLength[e] <= size[e]
  BY <1>2 DEF LimitInv
<1>9. CASE readFinal[e]
  <2>1. /\ got' = [got EXCEPT ![e] = Append(@, <<nth[e], all>>)]
        /\ reading' = [reading EXCEPT ![e] = "next"]
        /\ readLength' = [readLength EXCEPT ![e] = 0] /\ cur' = [cur EXCEPT ![e] = <<>>]
    BY <1>1, <1>9 DEF NextReader
  <2>2. got' \in [Ends -> Seq(Nat \X Seq(Unit))]
    BY <1>2, <1>5, <2>1 DEF ReaderTypeOK
  <2>3. ReaderTypeOK'
    <3>1. /\ reading' \in [Ends -> {"next", "read", "held", "done"}]
          /\ readLength' \in [Ends -> Nat]
      BY <1>2, <2>1 DEF ReaderTypeOK
    <3>2. cur' \in [Ends -> Seq(Unit)]
      BY <1>2, <1>4, <2>1 DEF ReaderTypeOK
    <3>3. QED
      BY <1>1, <1>2, <1>6, <2>2, <3>1, <3>2 DEF ReaderTypeOK
  <2>4. /\ reading'[e] = "next" /\ readLength'[e] = 0 /\ readFinal'[e] /\ readErr'[e] = "none"
        /\ size'[e] = size[e]
        /\ \A d \in Ends : d # e => reading'[d] = reading[d] /\ readLength'[d] = readLength[d]
    BY <1>1, <1>2, <1>7, <1>9, <2>1 DEF ReaderTypeOK
  <2>5. QED
    BY <1>1, <1>7, <2>3, <2>4, ReaderStepIInv
<1>10. CASE ~readFinal[e]
  <2>1. /\ cur' = [cur EXCEPT ![e] = all] /\ reading' = [reading EXCEPT ![e] = "read"]
        /\ UNCHANGED <<got, readLength>>
    BY <1>1, <1>10
  <2>2. ReaderTypeOK'
    <3>1. reading' \in [Ends -> {"next", "read", "held", "done"}]
      BY <1>2, <2>1 DEF ReaderTypeOK
    <3>2. cur' \in [Ends -> Seq(Unit)]
      BY <1>2, <1>4, <2>1 DEF ReaderTypeOK
    <3>3. QED
      BY <1>1, <1>2, <1>6, <2>1, <3>1, <3>2 DEF ReaderTypeOK
  <2>3. /\ reading'[e] = "read" /\ readFinal'[e] = FALSE /\ readErr'[e] = "none"
        /\ readLength'[e] = readLength[e] /\ size'[e] = size[e]
        /\ \A d \in Ends : d # e => reading'[d] = reading[d]
    BY <1>1, <1>2, <1>7, <1>10, <2>1 DEF ReaderTypeOK
  <2>4. QED
    BY <1>1, <1>7, <1>8, <2>1, <2>2, <2>3, ReaderStepIInv
<1>11. QED
  BY <1>9, <1>10

LEMMA AbandonIInv ==
  ASSUME IInv, NEW e \in Ends, Abandon(e)
  PROVE  IInv'
<1> USE DEF IInv, TypeOK
<1>1. /\ "Abandon" \in load.ops /\ reading[e] \in {"held", "read"} /\ at[e]["reader"] = "none"
      /\ reading' = [reading EXCEPT ![e] = "next"]
      /\ readLength' = [readLength EXCEPT ![e] = 0] /\ cur' = [cur EXCEPT ![e] = <<>>]
      /\ unread' = [unread EXCEPT ![e] = <<>>]
      /\ UNCHANGED <<wire, open, cut, writing, app, readFinal, readErr, nth, size, got, load>>
  BY DEF Abandon, NextReader
<1>2. <<>> \in Seq(Unit)
  OBVIOUS
<1>3. ReaderTypeOK'
  BY <1>1, <1>2 DEF ReaderTypeOK
<1>4. readErr[e] = "none" /\ reading'[e] = "next"
  BY <1>1 DEF SubmitInv, ReaderTypeOK
<1>5. QED
  BY <1>1, <1>3, <1>4, ReaderStepIInv DEF ReaderTypeOK

LEMMA ReadFailsIInv ==
  ASSUME IInv, NEW e \in Ends, ReadFails(e)
  PROVE  IInv'
<1> USE DEF IInv, TypeOK
<1>1. /\ reading[e] \in {"next", "read"} /\ at[e]["reader"] = "none"
      /\ readErr' = [readErr EXCEPT ![e] = "failed"] /\ reading' = [reading EXCEPT ![e] = "done"]
      /\ UNCHANGED <<wire, open, cut, writing, app, readFinal, readLength, cur, unread, nth, size, got, load>>
  BY DEF ReadFails
<1>2. ReaderTypeOK' /\ readErr'[e] = "failed" /\ reading'[e] = "done"
  BY <1>1 DEF ReaderTypeOK
<1>3. "Abandon" \notin load.ops => readLength[e] <= size[e]
  BY DEF LimitInv
<1>4. QED
  BY <1>1, <1>2, <1>3, ReaderStepIInv DEF ReaderTypeOK
-----------------------------------------------------------------------------
(* The connection closes or fails. *)

LEMMA LostIInv ==
  ASSUME IInv, UNCHANGED <<writing, app, reader, load>>,
         open' \in [Ends -> BOOLEAN], cut' \in BOOLEAN, wire' \in [Ends -> Seq(Frames)],
         \A d \in Ends : wire'[d] \in {wire[d], <<>>}
  PROVE  IInv'
<1> USE DEF IInv, TypeOK
<1>1. UNCHANGED <<mu, writeErr, at, out, call, writer, buf, pool, sent>>
  BY DEF writing, app
<1>2. NetTypeOK' /\ WritingTypeOK' /\ AppTypeOK' /\ WriterInv' /\ BufferOwned'
  BY <1>1 DEF NetTypeOK, WritingTypeOK, AppTypeOK, WriterInv, BufferOwned
<1>3. ReaderTypeOK' /\ SubmitInv' /\ LimitInv'
  BY <1>1 DEF reader, ReaderTypeOK, SubmitInv, LimitInv, GivesUp
<1>4. \A d \in Ends : CloseRead(d)' => CloseRead(d)
  BY <1>1 DEF CloseRead, reader
<1>5. WireInv'
  <2> SUFFICES ASSUME NEW d \in Ends
               PROVE  /\ \A i \in 1 .. Len(wire'[d]) :
                           IsLast(wire'[d][i]) => i = Len(wire'[d]) /\ writeErr'[d] # "none"
                      /\ CloseRead(Other(d))' => wire'[d] = <<>> /\ writeErr'[d] # "none"
    BY DEF WireInv, IsLast
  <2>1. Other(d) \in Ends
    BY OtherEnd
  <2>2. CASE wire'[d] = wire[d]
    BY <1>1, <1>4, <2>1, <2>2 DEF WireInv
  <2>3. CASE wire'[d] = <<>>
    BY <1>1, <1>4, <2>1, <2>3 DEF WireInv
  <2>4. QED
    BY <2>2, <2>3
<1>6. QED
  BY <1>2, <1>3, <1>5

LEMMA CloseIInv ==
  ASSUME IInv, NEW e \in Ends, Close(e) \/ Break
  PROVE  IInv'
<1> USE DEF IInv, TypeOK
<1>1. <<>> \in Seq(Frames) /\ Other(e) \in Ends
  BY OtherEnd
<1>2. CASE Close(e)
  <2>1. /\ wire' \in {[wire EXCEPT ![Other(e)] = <<>>],
                      IF Incoming(e) = <<>> THEN wire ELSE [f \in Ends |-> <<>>]}
        /\ open' = [open EXCEPT ![e] = FALSE] /\ UNCHANGED <<cut, writing, app, reader, load>>
    BY <1>2 DEF Close
  <2>2. wire' \in [Ends -> Seq(Frames)] /\ \A d \in Ends : wire'[d] \in {wire[d], <<>>}
    BY <1>1, <2>1 DEF NetTypeOK
  <2>3. QED
    BY <2>1, <2>2, LostIInv DEF NetTypeOK
<1>3. CASE Break
  <2>1. wire' = [d \in Ends |-> <<>>] /\ cut' = TRUE /\ UNCHANGED <<open, writing, app, reader, load>>
    BY <1>3 DEF Break
  <2>2. QED
    BY <1>1, <2>1, LostIInv DEF NetTypeOK
<1>4. QED
  BY <1>2, <1>3
-----------------------------------------------------------------------------
LEMMA InitIInv == Init => IInv
<1> SUFFICES ASSUME Init PROVE IInv
  OBVIOUS
<1>1. <<>> \in Seq(Frames) /\ <<>> \in Seq(Unit) /\ <<>> \in Seq(Seq(Unit)) /\ <<>> \in Seq(Nat \X Seq(Unit))
  OBVIOUS
<1>2. Bare("none") \in Frames /\ Bare("none").op = "none" /\ Bare("none").fin = TRUE
  BY <1>1 DEF Bare, Frame, Frames
<1>3. \A e \in Ends, g \in Goroutines : at[e][g] = "none" /\ out[e][g] = Bare("none")
  BY DEF Init
<1>4. \A e \in Ends : /\ out[e]["reader"].op = "none" /\ reading[e] = "next" /\ readErr[e] = "none"
                       /\ readFinal[e] /\ readLength[e] = 0 /\ size[e] = 0
  BY <1>2, <1>3 DEF Init, Goroutines
<1>5. NetTypeOK
  BY <1>1 DEF Init, NetTypeOK
<1>6. WritingTypeOK
  BY <1>2 DEF Init, WritingTypeOK, Goroutines
<1>7. AppTypeOK
  <2>1. NoCall \in [op : CallOps, left : Nat]
    BY DEF NoCall, CallOps
  <2>2. NoWriter \in MessageWriters /\ NoWriter.pos = <<>>
    BY <1>1 DEF NoWriter, MessageWriters
  <2>3. BufSize \in Nat /\ Len(<<>>) = 0
    BY WsConnAssumption
  <2>4. QED
    BY <1>1, <2>1, <2>2, <2>3 DEF Init, AppTypeOK
<1>8. ReaderTypeOK
  BY <1>1 DEF Init, ReaderTypeOK
<1>9. SubmitInv
  BY <1>2, <1>3, <1>4 DEF SubmitInv, Goroutines
<1>10. WireInv
  <2>1. \A e \in Ends : wire[e] = <<>> /\ Len(wire[e]) = 0
    BY DEF Init
  <2>2. \A e \in Ends : ~CloseRead(e)
    BY <1>4 DEF CloseRead
  <2>3. \A e \in Ends : ~CloseRead(Other(e))
    BY <2>2, OtherEnd
  <2>4. ASSUME NEW e \in Ends, NEW i \in 1 .. Len(wire[e]) PROVE FALSE
    BY <2>1
  <2>5. QED
    BY <2>3, <2>4 DEF WireInv
<1>11. WriterInv /\ BufferOwned
  <2>1. \A e \in Ends : /\ at[e]["writer"] = "none" /\ writer[e].open = FALSE /\ buf[e] = Nobody
                         /\ call[e].op = "none"
    BY DEF Init, NoWriter, NoCall, Goroutines
  <2>2. QED
    BY <2>1 DEF WriterInv, BufferOwned
<1>12. LimitInv
  <2> SUFFICES ASSUME NEW e \in Ends
               PROVE  /\ readLength[e] <= size[e]
                      /\ reading[e] = "next" => readFinal[e] /\ readLength[e] = 0
                      /\ reading[e] # "read"
                      /\ out[e]["reader"].op # "tooBig" /\ readErr[e] # "tooBig"
    BY DEF LimitInv
  <2> HIDE DEF Init
  <2>1. QED
    BY <1>4
<1>13. QED
  BY <1>5, <1>6, <1>7, <1>8, <1>9, <1>10, <1>11, <1>12 DEF IInv, TypeOK

LEMMA NextIInv == IInv /\ [Next]_vars => IInv'
<1> SUFFICES ASSUME IInv, [Next]_vars PROVE IInv'
  OBVIOUS
<1>1. CASE UNCHANGED vars
  <2>1. /\ UNCHANGED <<writing, app, reader, load, wire, open, cut>>
    BY <1>1 DEF vars
  <2>2. QED
    BY <2>1, LostIInv DEF IInv, TypeOK, NetTypeOK
<1>2. CASE Break
  BY <1>2, CloseIInv, WsConnAssumption
<1>3. ASSUME NEW e \in Ends, Calls(e)
      PROVE  IInv'
  <2>1. Lengths \subseteq Nat
    BY WsConnAssumption
  <2>2. QED
    BY <1>3, <2>1, StartMessageIInv, WritePreparedIInv, CallWriteIInv, CloseWriterIInv,
       CallControlIInv DEF Calls
<1>4. ASSUME NEW e \in Ends, Step(e)
      PROVE  IInv'
  <2>1. CASE WriterStep(e)
    BY <2>1, BeginMessageIInv, CopyIInv, WriteIInv DEF WriterStep, Goroutines
  <2>2. CASE ReaderStep(e)
    BY <2>2, ReadFrameIInv, ReadPayloadIInv, ReadFailsIInv, WriteIInv, CloseIInv
       DEF ReaderStep, Read, Goroutines
  <2>3. CASE ControlStep(e)
    BY <2>3, WriteIInv DEF ControlStep, Goroutines
  <2>4. QED
    BY <1>4, <2>1, <2>2, <2>3 DEF Step
<1>5. QED
  BY <1>1, <1>2, <1>3, <1>4, AbandonIInv, CloseIInv DEF Next
-----------------------------------------------------------------------------
\* The inductive invariant, of which the theorems take their parts.
THEOREM Invariance == Spec => []IInv
BY InitIInv, NextIInv, PTL DEF Spec

\* The types, and that c.mu has one holder, which is in the middle of a write.
THEOREM TypeCorrect == Spec => []TypeOK
<1>1. IInv => TypeOK
  BY DEF IInv
<1>2. QED
  BY <1>1, Invariance, PTL

\* No frame follows a close frame or a part of a frame.
THEOREM LastFrames == Spec => []LastFrameIsLast
<1>1. IInv => LastFrameIsLast
  <2> SUFFICES ASSUME IInv, NEW e \in Ends
               PROVE  /\ \A i \in 1 .. Len(wire[e]) - 1 : ~IsLast(wire[e][i])
                      /\ readErr[Other(e)] = "close" => wire[e] = <<>>
    BY DEF LastFrameIsLast, IsLast
  <2>1. Len(wire[e]) \in Nat
    BY DEF IInv, TypeOK, NetTypeOK
  <2>2. QED
    BY <2>1 DEF IInv, WireInv, CloseRead
<1>2. QED
  BY <1>1, Invariance, PTL

\* A buffer of the pool is in use on one connection at most.
THEOREM BuffersOwned == Spec => []BufferOwned
<1>1. IInv => BufferOwned
  BY DEF IInv
<1>2. QED
  BY <1>1, Invariance, PTL

\* ErrReadLimit is for a message that is larger than the limit.
THEOREM LimitsPerMessage == Spec => []LimitIsPerMessage
<1>1. IInv => LimitIsPerMessage
  BY DEF IInv, LimitInv, LimitIsPerMessage
<1>2. QED
  BY <1>1, Invariance, PTL
-----------------------------------------------------------------------------
(* WsConn implements MessagePipe.                                           *)
(*                                                                         *)
(* A sight is what a reader knows of the message it is in.  The frames on  *)
(* the wire take the reader from the sight it has now to the one it will   *)
(* have when it has read them all: the invariant relates the first of      *)
(* these sights to the reader's variables and the last to the writer's.    *)

\* The reader of e has not given up.
Reads(e) == reading[e] # "done" /\ ~GivesUp(e)

\* The message is complete, it is the nth, its units read so far are data, and
\* the frames are in an order that makes the reader give up.
Sights == [final : BOOLEAN, nth : Nat, data : Seq(Unit), bad : BOOLEAN]

\* What advanceFrame makes of frame f: the sight after it.
After(s, f) ==
  IF s.bad \/ f.op \notin {"data", "cont"} THEN s
  ELSE IF (f.op = "data") # s.final
  THEN [final |-> s.final, nth |-> s.nth, data |-> s.data, bad |-> TRUE]
  ELSE [final |-> f.fin, nth |-> IF f.op = "data" THEN s.nth + 1 ELSE s.nth,
        data |-> IF f.op = "data" THEN f.data ELSE s.data \o f.data, bad |-> FALSE]

\* A message that a reader sees to its end is the one that was sent.
Whole(e, s) == ~s.bad /\ s.final /\ s.nth > 0 => s.nth <= Len(sent[e]) /\ s.data = sent[e][s.nth]

\* The first sight: what the other end has read.
Begins(e, s) ==
  LET f == Other(e) IN
  /\ ~s.bad /\ s.final = readFinal[f] /\ s.nth = nth[f]
  /\ reading[f] \in {"held", "read"} => s.data = cur[f] \o unread[f]

\* The units that the writer of e has not written, in its buffer or on their
\* way through flushFrame.
Flowing(e) == IF at[e]["writer"] # "none" /\ call[e].op # "Prepared"
              THEN out[e]["writer"].data ELSE writer[e].pos

\* The last sight: what the writer of e has written.
MidMessage(e, s) ==
  /\ ~s.final /\ s.nth = Len(sent[e]) + 1
  /\ \E k \in 0 .. writer[e].count : /\ s.data = Units(e, 1, k)
                                     /\ Flowing(e) = Units(e, k + 1, writer[e].count)
BetweenMessages(e, s) ==
  /\ s.final /\ s.nth = Len(sent[e])
  /\ writer[e].open => Flowing(e) = Units(e, 1, writer[e].count)
AtEnd(e, s) ==
  open[e] /\ writeErr[e] = "none" /\ ~s.bad =>
    IF writer[e].open /\ writer[e].op = "cont" THEN MidMessage(e, s) ELSE BetweenMessages(e, s)

Chain(e, st) ==
  /\ Begins(e, st[1]) /\ AtEnd(e, st[Len(wire[e]) + 1])
  /\ \A i \in 1 .. Len(wire[e]) : st[i + 1] = After(st[i], wire[e][i])
  /\ \A i \in 1 .. Len(wire[e]) + 1 : Whole(e, st[i])

\* A reader that has given up or closed has no sights.
Live(e) == open[Other(e)] /\ ~cut /\ Reads(Other(e))
ChainOf(e) == Live(e) => \E st \in [1 .. Len(wire[e]) + 1 -> Sights] : Chain(e, st)
ChainInv == \A e \in Ends : ChainOf(e)

\* The frames that goroutines write.
OutOf(e) ==
  /\ {out[e]["reader"].op, out[e]["control"].op} \cap {"data", "cont"} = {}
  /\ call[e].op \in {"NextWriter", "WriteClose"} => call[e].left = 0
  /\ call[e].op \in {"NextWriter", "WriteMessage", "WriteClose"} =>
       IF at[e]["writer"] = "none" THEN ~writer[e].open
       ELSE out[e]["writer"].fin /\ out[e]["writer"].op # "close"
  /\ call[e].op = "Prepared" /\ writer[e].open => writer[e].op = "cont"
  /\ at[e]["writer"] # "none" /\ call[e].op = "Prepared" =>
       out[e]["writer"].fin /\ out[e]["writer"].op = "data"
  /\ at[e]["writer"] # "none" /\ call[e].op # "Prepared" =>
       \/ out[e]["writer"].op = writer[e].op
       \/ out[e]["writer"].op = "close" /\ out[e]["writer"].fin
OutInv == \A e \in Ends : OutOf(e)

\* What a reader holds at the end of a message is that message, and it has not
\* delivered it yet.
HeldOf(e) ==
  /\ reading[e] \in {"next", "read"} => unread[e] = <<>>
  /\ reading[e] = "next" => cur[e] = <<>>
  /\ reading[e] = "read" /\ Reads(e) => ~readFinal[e]
  /\ reading[e] = "held" /\ readFinal[e] =>
       /\ nth[e] \in 1 .. Len(sent[Other(e)])
       /\ cur[e] \o unread[e] = sent[Other(e)][nth[e]]
  /\ Pipe!LastGot(e) <= nth[e]
  /\ reading[e] \in {"held", "read"} => Pipe!LastGot(e) < nth[e]
HeldInv == \A e \in Ends : HeldOf(e)

PipeInv == OutInv /\ HeldInv /\ ChainInv
-----------------------------------------------------------------------------
(* Sights. *)

LEMMA AfterType ==
  ASSUME NEW s \in Sights, NEW f \in Frames
  PROVE  After(s, f) \in Sights
<1>1. /\ s.final \in BOOLEAN /\ s.nth \in Nat /\ s.data \in Seq(Unit) /\ s.bad \in BOOLEAN
      /\ f.fin \in BOOLEAN /\ f.data \in Seq(Unit)
  BY DEF Sights, Frames
<1>2. s.data \o f.data \in Seq(Unit)
  BY <1>1
<1>3. QED
  BY <1>1, <1>2 DEF After, Sights

\* The units that a message continues with follow those it has.
LEMMA UnitsJoined ==
  ASSUME AppTypeOK, NEW e \in Ends, NEW j \in Nat, NEW k \in Nat, NEW n \in Nat
  PROVE  Units(e, j + 1, j + k) \o Units(e, j + k + 1, j + k + n) = Units(e, j + 1, j + k + n)
<1> DEFINE m == Len(sent[e]) + 1
           a == Units(e, j + 1, j + k)
           b == Units(e, j + k + 1, j + k + n)
           c == Units(e, j + 1, j + k + n)
<1>1. m \in Nat
  BY DEF AppTypeOK
<1>2. a = [i \in 1 .. k |-> <<m, j + i>>]
  BY DEF Units
<1>3. b = [i \in 1 .. n |-> <<m, j + k + i>>]
  BY DEF Units
<1>4. c = [i \in 1 .. k + n |-> <<m, j + i>>]
  BY DEF Units
<1> HIDE DEF m, a, b, c
<1>5. a \in Seq(Nat \X Nat) /\ b \in Seq(Nat \X Nat) /\ c \in Seq(Nat \X Nat)
  BY <1>1, <1>2, <1>3, <1>4
<1>6. Len(a) = k /\ Len(b) = n /\ Len(c) = k + n
  BY <1>2, <1>3, <1>4
<1>7. a \o b \in Seq(Nat \X Nat) /\ Len(a \o b) = k + n
  BY <1>5, <1>6, ConcatProperties
<1>8. ASSUME NEW i \in 1 .. k + n PROVE (a \o b)[i] = c[i]
  <2>1. i \in 1 .. Len(a) + Len(b)
    BY <1>6
  <2>2. (a \o b)[i] = IF i <= Len(a) THEN a[i] ELSE b[i - Len(a)]
    BY <1>5, <2>1, ConcatProperties
  <2>3. CASE i <= k
    BY <1>2, <1>4, <1>6, <2>2, <2>3
  <2>4. CASE i > k
    <3>1. PICK l \in 1 .. n : l = i - k
      BY <2>4
    <3>2. (a \o b)[i] = b[l]
      BY <1>6, <2>2, <2>4, <3>1
    <3>3. b[l] = <<m, j + k + l>>
      BY <1>3
    <3>4. c[i] = <<m, j + i>>
      BY <1>4
    <3>5. j + k + l = j + i
      BY <3>1
    <3>6. QED
      BY <3>2, <3>3, <3>4, <3>5
  <2>5. i \in Nat /\ (i <= k \/ i > k)
    OBVIOUS
  <2>6. QED
    BY <2>3, <2>4, <2>5
<1>9. a \o b = c
  BY <1>5, <1>6, <1>7, <1>8, SeqEqual
<1>10. QED
  BY <1>9 DEF a, b, c

LEMMA UnitsFromFirst ==
  ASSUME AppTypeOK, NEW e \in Ends, NEW k \in Nat, NEW n \in Nat
  PROVE  Units(e, 1, k) \o Units(e, k + 1, k + n) = Units(e, 1, k + n)
<1>1. PICK z \in Nat : z = 0
  OBVIOUS
<1>2. z + 1 = 1 /\ z + k = k
  BY <1>1
<1>3. Units(e, z + 1, z + k) \o Units(e, z + k + 1, z + k + n) = Units(e, z + 1, z + k + n)
  BY UnitsJoined
<1>4. QED
  BY <1>2, <1>3

\* What has been sent stays.
Grown(e) == /\ Len(sent[e]) <= Len(sent'[e])
            /\ \A i \in 1 .. Len(sent[e]) : sent'[e][i] = sent[e][i]

LEMMA WholeStays ==
  ASSUME NEW e \in Ends, sent \in [Ends -> Seq(Seq(Unit))], sent' \in [Ends -> Seq(Seq(Unit))],
         Grown(e), NEW s \in Sights, Whole(e, s)
  PROVE  Whole(e, s)'
BY DEF Whole, Grown, Sights

\* A step after which the wire carries the same frames.
LEMMA SameSights ==
  ASSUME TypeOK, AppTypeOK', NEW e \in Ends, ChainOf(e), wire'[e] = wire[e], Grown(e),
         Live(e)' => Live(e),
         \A s \in Sights : Live(e)' /\ Begins(e, s) => Begins(e, s)',
         \A s \in Sights : AtEnd(e, s) => AtEnd(e, s)'
  PROVE  ChainOf(e)'
<1> SUFFICES ASSUME Live(e)' PROVE (\E st \in [1 .. Len(wire[e]) + 1 -> Sights] : Chain(e, st))'
  BY DEF ChainOf
<1>1. PICK st \in [1 .. Len(wire[e]) + 1 -> Sights] : Chain(e, st)
  BY DEF ChainOf
<1>2. Len(wire[e]) \in Nat
  BY DEF TypeOK, NetTypeOK
<1>3. Begins(e, st[1])' /\ AtEnd(e, st[Len(wire[e]) + 1])'
  BY <1>1, <1>2 DEF Chain
<1>4. \A i \in 1 .. Len(wire[e]) + 1 : Whole(e, st[i])'
  BY <1>1, WholeStays DEF Chain, TypeOK, AppTypeOK
<1>5. Chain(e, st)'
  BY <1>1, <1>3, <1>4 DEF Chain
<1>6. QED
  BY <1>1, <1>5

\* A step that puts a frame on the wire.
LEMMA MoreSights ==
  ASSUME TypeOK, AppTypeOK', NEW e \in Ends, ChainOf(e), NEW f \in Frames,
         wire'[e] = Append(wire[e], f), Grown(e), Live(e)' => Live(e),
         \A s \in Sights : Live(e)' /\ Begins(e, s) => Begins(e, s)',
         \A s \in Sights : Whole(e, s) /\ AtEnd(e, s) => Whole(e, After(s, f))' /\ AtEnd(e, After(s, f))'
  PROVE  ChainOf(e)'
<1> SUFFICES ASSUME Live(e)' PROVE (\E st \in [1 .. Len(wire[e]) + 1 -> Sights] : Chain(e, st))'
  BY DEF ChainOf
<1> PICK n \in Nat : n = Len(wire[e]) + 1
  BY DEF TypeOK, NetTypeOK
<1>1. PICK st \in [1 .. n -> Sights] : Chain(e, st)
  BY DEF ChainOf
<1>2. /\ wire[e] \in Seq(Frames) /\ Len(wire[e]) \in Nat /\ n \in Nat /\ n >= 1
      /\ Len(wire[e]) = n - 1
  BY DEF TypeOK, NetTypeOK
<1>3. Len(wire'[e]) = n /\ wire'[e][n] = f /\ \A i \in 1 .. n - 1 : wire'[e][i] = wire[e][i]
  BY <1>2
<1> DEFINE new == [i \in 1 .. n + 1 |-> IF i = n + 1 THEN After(st[n], f) ELSE st[i]]
<1>4. st[n] \in Sights /\ st[1] \in Sights
  BY <1>1, <1>2
<1>5. new \in [1 .. n + 1 -> Sights]
  BY <1>1, <1>4, AfterType
<1>6. new[n + 1] = After(st[n], f) /\ \A i \in 1 .. n : new[i] = st[i]
  BY <1>2
<1> HIDE DEF new
<1>7. Begins(e, new[1])'
  BY <1>1, <1>2, <1>4, <1>6 DEF Chain
<1>8. Whole(e, new[n + 1])' /\ AtEnd(e, new[n + 1])'
  BY <1>1, <1>2, <1>4, <1>6 DEF Chain
<1>9. \A i \in 1 .. n + 1 : Whole(e, new[i])'
  <2> SUFFICES ASSUME NEW i \in 1 .. n PROVE Whole(e, st[i])'
    BY <1>2, <1>6, <1>8
  <2>1. Whole(e, st[i]) /\ st[i] \in Sights
    BY <1>1, <1>2 DEF Chain
  <2>2. QED
    BY <2>1, WholeStays DEF TypeOK, AppTypeOK
<1>10. \A i \in 1 .. n : new[i + 1] = After(new[i], wire'[e][i])
  <2> SUFFICES ASSUME NEW i \in 1 .. n, i # n PROVE st[i + 1] = After(st[i], wire[e][i])
    BY <1>2, <1>3, <1>6
  <2>1. QED
    BY <1>1, <1>2 DEF Chain
<1>11. Chain(e, new)'
  BY <1>3, <1>7, <1>8, <1>9, <1>10 DEF Chain
<1>12. QED
  BY <1>3, <1>5, <1>11

\* A step that takes a frame from the wire.
LEMMA FewerSights ==
  ASSUME TypeOK, AppTypeOK', NEW e \in Ends, ChainOf(e), wire[e] # <<>>,
         NEW f \in Frames, f = Head(wire[e]), wire'[e] = Tail(wire[e]), Grown(e), Live(e)' => Live(e),
         \A s \in Sights : Live(e)' /\ Begins(e, s) => Begins(e, After(s, f))',
         \A s \in Sights : AtEnd(e, s) => AtEnd(e, s)'
  PROVE  ChainOf(e)'
<1> SUFFICES ASSUME Live(e)' PROVE (\E st \in [1 .. Len(wire[e]) + 1 -> Sights] : Chain(e, st))'
  BY DEF ChainOf
<1> PICK n \in Nat : n = Len(wire[e])
  BY DEF TypeOK, NetTypeOK
<1>1. PICK st \in [1 .. n + 1 -> Sights] : Chain(e, st)
  BY DEF ChainOf
<1>2. wire[e] \in Seq(Frames) /\ n \in Nat /\ n >= 1
  BY EmptySeq DEF TypeOK, NetTypeOK
<1>3. /\ Len(wire'[e]) = n - 1 /\ wire[e][1] = Head(wire[e])
      /\ \A i \in 1 .. n - 1 : wire'[e][i] = wire[e][i + 1]
  BY <1>2, HeadTailProperties
<1> DEFINE new == [i \in 1 .. n |-> st[i + 1]]
<1>4. new \in [1 .. n -> Sights] /\ \A i \in 1 .. n : new[i] = st[i + 1] /\ st[i] \in Sights
  BY <1>1, <1>2
<1>5. st[n + 1] \in Sights /\ new[n] = st[n + 1] /\ new[1] = st[2] /\ st[2] = After(st[1], f)
  BY <1>1, <1>2, <1>3, <1>4 DEF Chain
<1> HIDE DEF new
<1>6. Begins(e, new[1])'
  BY <1>1, <1>2, <1>4, <1>5 DEF Chain
<1>7. AtEnd(e, new[n])'
  BY <1>1, <1>5 DEF Chain
<1>8. \A i \in 1 .. n : Whole(e, new[i])'
  <2> SUFFICES ASSUME NEW i \in 1 .. n PROVE Whole(e, st[i + 1])'
    BY <1>4
  <2>1. Whole(e, st[i + 1]) /\ st[i + 1] \in Sights
    BY <1>1, <1>2 DEF Chain
  <2>2. QED
    BY <2>1, WholeStays DEF TypeOK, AppTypeOK
<1>9. \A i \in 1 .. n - 1 : new[i + 1] = After(new[i], wire'[e][i])
  <2> SUFFICES ASSUME NEW i \in 1 .. n - 1 PROVE st[i + 1 + 1] = After(st[i + 1], wire[e][i + 1])
    BY <1>2, <1>3, <1>4
  <2>1. QED
    BY <1>1, <1>2 DEF Chain
<1>10. (n - 1) + 1 = n
  BY <1>2
<1>11. Chain(e, new)'
  BY <1>3, <1>6, <1>7, <1>8, <1>9, <1>10 DEF Chain
<1>12. QED
  BY <1>3, <1>4, <1>10, <1>11
-----------------------------------------------------------------------------
(* Steps that do not touch the wire. *)

\* The writer of e does nothing.
WriterRests(e) == UNCHANGED <<at[e]["writer"], out[e]["writer"], call[e], writer[e], sent[e]>>

\* The reader of e reads nothing, though it may end or give up.
ReaderRests(e) == /\ UNCHANGED <<readFinal[e], cur[e], unread[e], nth[e], got[e]>>
                  /\ reading'[e] \in {reading[e], "done"}
                  /\ Reads(e)' => Reads(e)

LEMMA StillAtEnd ==
  ASSUME NEW e \in Ends, WriterRests(e), open'[e] => open[e],
         writeErr'[e] = "none" => writeErr[e] = "none", NEW s, AtEnd(e, s)
  PROVE  AtEnd(e, s)'
<1>1. Flowing(e)' = Flowing(e)
  BY DEF WriterRests, Flowing
<1>2. \A j, k : Units(e, j, k)' = Units(e, j, k)
  BY DEF WriterRests, Units
<1>3. MidMessage(e, s) => MidMessage(e, s)'
  BY <1>1, <1>2 DEF MidMessage, WriterRests
<1>4. BetweenMessages(e, s) => BetweenMessages(e, s)'
  BY <1>1, <1>2 DEF BetweenMessages, WriterRests
<1>5. QED
  BY <1>3, <1>4 DEF AtEnd, WriterRests

LEMMA StillBegins ==
  ASSUME NEW e \in Ends, ReaderRests(Other(e)), NEW s, Begins(e, s), Live(e)'
  PROVE  Begins(e, s)'
BY DEF ReaderRests, Begins, Live, Reads

LEMMA StillLive ==
  ASSUME NEW e \in Ends, ReaderRests(Other(e)), open'[Other(e)] => open[Other(e)], cut => cut',
         Live(e)'
  PROVE  Live(e)
BY DEF ReaderRests, Live

LEMMA StillOut ==
  ASSUME NEW e \in Ends, OutOf(e), WriterRests(e),
         {out'[e]["reader"].op, out'[e]["control"].op} \cap {"data", "cont"} = {}
  PROVE  OutOf(e)'
BY DEF OutOf, WriterRests

LEMMA StillHeld ==
  ASSUME TypeOK, AppTypeOK', NEW e \in Ends, HeldOf(e), ReaderRests(e), Grown(Other(e))
  PROVE  HeldOf(e)'
<1>1. Other(e) \in Ends /\ Len(sent[Other(e)]) \in Nat /\ Len(sent'[Other(e)]) \in Nat
  BY OtherEnd DEF TypeOK, AppTypeOK
<1>2. reading[e] = "held" /\ readFinal[e] =>
         /\ nth[e] \in 1 .. Len(sent'[Other(e)])
         /\ cur[e] \o unread[e] = sent'[Other(e)][nth[e]]
  <2> SUFFICES ASSUME reading[e] = "held", readFinal[e]
               PROVE  /\ nth[e] \in 1 .. Len(sent'[Other(e)])
                      /\ cur[e] \o unread[e] = sent'[Other(e)][nth[e]]
    OBVIOUS
  <2>1. nth[e] \in 1 .. Len(sent[Other(e)]) /\ cur[e] \o unread[e] = sent[Other(e)][nth[e]]
    BY DEF HeldOf
  <2>2. sent'[Other(e)][nth[e]] = sent[Other(e)][nth[e]] /\ Len(sent[Other(e)]) <= Len(sent'[Other(e)])
    BY <2>1 DEF Grown
  <2>3. QED
    BY <1>1, <2>1, <2>2
<1>3. Pipe!LastGot(e)' = Pipe!LastGot(e)
  BY DEF Pipe!LastGot, ReaderRests
<1>4. QED
  BY <1>2, <1>3 DEF HeldOf, ReaderRests

LEMMA SentStays ==
  ASSUME TypeOK, NEW e \in Ends, sent'[e] = sent[e]
  PROVE  Grown(e)
BY DEF TypeOK, AppTypeOK, Grown

\* An end that has closed sends nothing.
LEMMA NoSights ==
  ASSUME TypeOK, AppTypeOK', NEW e \in Ends, ChainOf(e), wire'[e] = <<>>, ~open'[e], Grown(e),
         Live(e)' => Live(e), \A s \in Sights : Live(e)' /\ Begins(e, s) => Begins(e, s)'
  PROVE  ChainOf(e)'
<1> SUFFICES ASSUME Live(e)' PROVE (\E st \in [1 .. Len(wire[e]) + 1 -> Sights] : Chain(e, st))'
  BY DEF ChainOf
<1> PICK n \in Nat : n = Len(wire[e]) + 1
  BY DEF TypeOK, NetTypeOK
<1>1. PICK st \in [1 .. n -> Sights] : Chain(e, st)
  BY DEF ChainOf
<1> DEFINE new == [i \in 1 .. 1 |-> st[1]]
<1>2. st[1] \in Sights /\ new \in [1 .. 1 -> Sights] /\ new[1] = st[1]
  <2>1. n >= 1
    BY DEF TypeOK, NetTypeOK
  <2>2. QED
    BY <1>1, <2>1
<1>3. Len(wire'[e]) = 0
  OBVIOUS
<1> HIDE DEF new
<1>4. Begins(e, new[1])' /\ Whole(e, new[1])'
  <2>1. Begins(e, st[1]) /\ Whole(e, st[1])
    <3>1. Len(wire[e]) \in Nat
      BY DEF TypeOK, NetTypeOK
    <3>2. QED
      BY <1>1, <3>1 DEF Chain
  <2>2. QED
    BY <1>2, <2>1, WholeStays DEF TypeOK, AppTypeOK
<1>5. AtEnd(e, new[1])'
  BY DEF AtEnd
<1>6. Chain(e, new)'
  BY <1>3, <1>4, <1>5 DEF Chain
<1>7. QED
  BY <1>2, <1>3, <1>6

\* What a step may do to the frames that e sends when the other end reads none.
WireMoves(e) ==
  \/ wire'[e] = wire[e] /\ \A s \in Sights : AtEnd(e, s) => AtEnd(e, s)'
  \/ \E f \in Frames :
       /\ wire'[e] = Append(wire[e], f)
       /\ \A s \in Sights : Whole(e, s) /\ AtEnd(e, s) =>
                              Whole(e, After(s, f))' /\ AtEnd(e, After(s, f))'
  \/ ~Live(e)'
  \/ wire'[e] = <<>> /\ ~open'[e]

LEMMA StepPipeInv ==
  ASSUME IInv, IInv', PipeInv, cut => cut',
         \A d \in Ends : /\ ReaderRests(d) /\ Grown(d) /\ OutOf(d)' /\ WireMoves(d)
                         /\ open'[d] => open[d]
  PROVE  PipeInv'
<1>1. TypeOK /\ AppTypeOK'
  BY DEF IInv, TypeOK
<1>2. ASSUME NEW d \in Ends PROVE OutOf(d)' /\ HeldOf(d)'
  BY <1>1, OtherEnd, StillHeld DEF PipeInv, HeldInv
<1>3. ASSUME NEW d \in Ends PROVE ChainOf(d)'
  <2>1. ChainOf(d) /\ Grown(d) /\ WireMoves(d) /\ ReaderRests(Other(d)) /\ Other(d) \in Ends
    BY OtherEnd DEF PipeInv, ChainInv
  <2>2. Live(d)' => Live(d)
    BY <2>1, StillLive
  <2>3. \A s \in Sights : Live(d)' /\ Begins(d, s) => Begins(d, s)'
    BY <2>1, StillBegins
  <2>4. CASE wire'[d] = wire[d] /\ \A s \in Sights : AtEnd(d, s) => AtEnd(d, s)'
    BY <1>1, <2>1, <2>2, <2>3, <2>4, SameSights
  <2>5. CASE \E f \in Frames :
               /\ wire'[d] = Append(wire[d], f)
               /\ \A s \in Sights : Whole(d, s) /\ AtEnd(d, s) =>
                                      Whole(d, After(s, f))' /\ AtEnd(d, After(s, f))'
    BY <1>1, <2>1, <2>2, <2>3, <2>5, MoreSights
  <2>6. CASE ~Live(d)'
    BY <2>6 DEF ChainOf
  <2>7. CASE wire'[d] = <<>> /\ ~open'[d]
    BY <1>1, <2>1, <2>2, <2>3, <2>7, NoSights
  <2>8. QED
    BY <2>1, <2>4, <2>5, <2>6, <2>7 DEF WireMoves
<1>4. QED
  BY <1>2, <1>3 DEF PipeInv, OutInv, HeldInv, ChainInv

\* The writer of e moves, and writes no frame.
WriterMoves(e) ==
  /\ UNCHANGED <<wire, open, cut, writeErr, sent, reader>>
  /\ \A d \in Ends : d # e => WriterRests(d)
  /\ \A d \in Ends : UNCHANGED <<out[d]["reader"], out[d]["control"]>>
  /\ OutOf(e)'
  /\ \A s \in Sights : AtEnd(e, s) => AtEnd(e, s)'

LEMMA WriterMovesPipeInv ==
  ASSUME IInv, IInv', PipeInv, NEW e \in Ends, WriterMoves(e)
  PROVE  PipeInv' /\ UNCHANGED <<sent, got>>
<1>1. TypeOK
  BY DEF IInv
<1>2. ASSUME NEW d \in Ends PROVE ReaderRests(d) /\ Grown(d) /\ OutOf(d)' /\ WireMoves(d)
  <2>1. ReaderRests(d) /\ Grown(d)
    BY <1>1, SentStays DEF WriterMoves, reader, ReaderRests, Reads, GivesUp
  <2>2. OutOf(d)'
    <3>1. OutOf(d) /\ {out'[d]["reader"].op, out'[d]["control"].op} \cap {"data", "cont"} = {}
      BY DEF WriterMoves, PipeInv, OutInv, OutOf
    <3>2. QED
      BY <3>1, StillOut DEF WriterMoves
  <2>3. \A s \in Sights : AtEnd(d, s) => AtEnd(d, s)'
    BY StillAtEnd DEF WriterMoves
  <2>4. QED
    BY <2>1, <2>2, <2>3 DEF WriterMoves, WireMoves
<1>3. QED
  BY <1>2, StepPipeInv DEF WriterMoves, reader

\* Only the frame of the writer of e, its call and its writer change.
LEMMA WriterAlone ==
  ASSUME IInv, PipeInv, NEW e \in Ends,
         UNCHANGED <<wire, open, cut, sent, reader>>,
         \/ UNCHANGED writing
         \/ \E f \in Frames : Submit(e, "writer", f),
         \A d \in Ends : d # e => UNCHANGED <<call[d], writer[d]>>,
         OutOf(e)', \A s \in Sights : AtEnd(e, s) => AtEnd(e, s)'
  PROVE  WriterMoves(e)
<1>1. WritingTypeOK /\ Goroutines = {"writer", "reader", "control"}
  BY DEF IInv, TypeOK, Goroutines
<1>2. CASE UNCHANGED writing
  BY <1>2 DEF WriterMoves, writing, WriterRests
<1>3. CASE \E f \in Frames : Submit(e, "writer", f)
  <2>1. PICK f \in Frames : Submit(e, "writer", f)
    BY <1>3
  <2>2. /\ UNCHANGED <<mu, writeErr>>
        /\ \A d \in Ends, h \in Goroutines :
              d # e \/ h # "writer" => at'[d][h] = at[d][h] /\ out'[d][h] = out[d][h]
    BY <1>1, <2>1, Submitted
  <2>3. QED
    BY <1>1, <2>2 DEF WriterMoves, WriterRests
<1>4. QED
  BY <1>2, <1>3

(* The writing goroutine before its frame is written. *)

\* The units of the message are the same, whichever variable holds them.
LEMMA AtEndSame ==
  ASSUME NEW e \in Ends, UNCHANGED <<open[e], writeErr[e], sent[e], writer[e]>>,
         Flowing(e)' = Flowing(e), NEW s, AtEnd(e, s)
  PROVE  AtEnd(e, s)'
<1>1. \A j, k : Units(e, j, k)' = Units(e, j, k)
  BY DEF Units
<1>2. MidMessage(e, s) => MidMessage(e, s)'
  BY <1>1 DEF MidMessage
<1>3. BetweenMessages(e, s) => BetweenMessages(e, s)'
  BY <1>1 DEF BetweenMessages
<1>4. QED
  BY <1>2, <1>3 DEF AtEnd

\* The application has given n more.
LEMMA AtEndMore ==
  ASSUME TypeOK, NEW e \in Ends, UNCHANGED <<open[e], writeErr[e], sent[e]>>, NEW n \in Nat,
         writer'[e].open = writer[e].open, writer'[e].op = writer[e].op,
         writer'[e].count = writer[e].count + n,
         Flowing(e)' = Flowing(e) \o Units(e, writer[e].count + 1, writer[e].count + n),
         NEW s, AtEnd(e, s)
  PROVE  AtEnd(e, s)'
<1> PICK c \in Nat : c = writer[e].count
  BY DEF TypeOK, AppTypeOK, MessageWriters
<1>1. \A j, k : Units(e, j, k)' = Units(e, j, k)
  BY DEF Units
<1>2. ASSUME NEW k \in 0 .. c, Flowing(e) = Units(e, k + 1, c)
      PROVE  Flowing(e)' = Units(e, k + 1, c + n)
  <2>1. PICK l \in Nat : l = c - k
    OBVIOUS
  <2>2. k \in Nat /\ k + l = c /\ AppTypeOK
    BY <2>1 DEF TypeOK
  <2>3. Units(e, k + 1, k + l) \o Units(e, k + l + 1, k + l + n) = Units(e, k + 1, k + l + n)
    BY <2>2, UnitsJoined
  <2>4. QED
    BY <1>2, <2>2, <2>3
<1>3. MidMessage(e, s) => MidMessage(e, s)'
  <2> SUFFICES ASSUME MidMessage(e, s) PROVE MidMessage(e, s)'
    OBVIOUS
  <2>1. PICK k \in 0 .. c : s.data = Units(e, 1, k) /\ Flowing(e) = Units(e, k + 1, c)
    BY DEF MidMessage
  <2>2. k \in 0 .. c + n
    OBVIOUS
  <2>3. Flowing(e)' = Units(e, k + 1, c + n)
    BY <1>2, <2>1
  <2>4. s.data = Units(e, 1, k)' /\ Flowing(e)' = Units(e, k + 1, c + n)'
    BY <1>1, <2>1, <2>3
  <2>5. QED
    BY <2>2, <2>4 DEF MidMessage
<1>4. writer[e].open /\ BetweenMessages(e, s) => BetweenMessages(e, s)'
  <2>1. Flowing(e) = Units(e, 1, c) => Flowing(e)' = Units(e, 1, c + n)
    BY <1>2, 0 \in 0 .. c, 0 + 1 = 1
  <2>2. QED
    BY <1>1, <2>1 DEF BetweenMessages
<1>5. ~writer[e].open /\ BetweenMessages(e, s) => BetweenMessages(e, s)'
  BY DEF BetweenMessages
<1>6. QED
  BY <1>3, <1>4, <1>5 DEF AtEnd

LEMMA FlowingIdle ==
  ASSUME NEW e \in Ends, at[e]["writer"] = "none"
  PROVE  Flowing(e) = writer[e].pos
BY DEF Flowing

LEMMA FlowingFrame ==
  ASSUME NEW e \in Ends, at'[e]["writer"] # "none", call'[e].op # "Prepared"
  PROVE  Flowing(e)' = out'[e]["writer"].data
BY DEF Flowing

LEMMA CloseWriterMoves ==
  ASSUME IInv, PipeInv, NEW e \in Ends, CloseWriter(e)
  PROVE  WriterMoves(e)
<1>1. TypeOK /\ OutOf(e) /\ WritingTypeOK /\ AppTypeOK
  BY DEF IInv, TypeOK, PipeInv, OutInv
<1>2. /\ at[e]["writer"] = "none" /\ writer[e].open /\ Submit(e, "writer", LastFrame(e))
      /\ UNCHANGED <<wire, open, cut, writer, sent, reader>>
      /\ call' = [call EXCEPT ![e] = [op |-> "Flush", left |-> 0]] /\ "Flush" \in CallOps
  BY DEF CloseWriter, Idle, CallOps
<1>3. call'[e].op = "Flush" /\ \A d \in Ends : d # e => call'[d] = call[d]
  BY <1>1, <1>2, CallType
<1>4. LastFrame(e) \in Frames /\ LastFrame(e).op = writer[e].op /\ LastFrame(e).data = writer[e].pos
  BY LastFrameType DEF LastFrame, Frame
<1>5. /\ at'[e]["writer"] = "waits" /\ out'[e]["writer"] = LastFrame(e) /\ UNCHANGED writeErr
      /\ out'[e]["reader"] = out[e]["reader"] /\ out'[e]["control"] = out[e]["control"]
  BY <1>1, <1>2, <1>4, Submitted DEF Goroutines
<1>6. OutOf(e)'
  BY <1>1, <1>2, <1>3, <1>4, <1>5 DEF OutOf
<1>7. Flowing(e)' = Flowing(e)
  BY <1>2, <1>3, <1>4, <1>5, FlowingIdle, FlowingFrame
<1>8. \A s \in Sights : AtEnd(e, s) => AtEnd(e, s)'
  BY <1>2, <1>5, <1>7, AtEndSame
<1>9. QED
  BY <1>2, <1>3, <1>4, <1>6, <1>8, WriterAlone

LEMMA StartMessageMoves ==
  ASSUME IInv, PipeInv, NEW e \in Ends, NEW op \in {"NextWriter", "WriteClose", "WriteMessage"},
         NEW n \in Nat, op # "WriteMessage" => n = 0, StartMessage(e, op, n)
  PROVE  WriterMoves(e)
<1>1. TypeOK /\ OutOf(e) /\ WritingTypeOK /\ AppTypeOK
  BY DEF IInv, TypeOK, PipeInv, OutInv
<1>2. /\ at[e]["writer"] = "none"
      /\ IF writer[e].open THEN Submit(e, "writer", LastFrame(e)) ELSE UNCHANGED writing
      /\ UNCHANGED <<wire, open, cut, writer, sent, reader>>
      /\ call' = [call EXCEPT ![e] = [op |-> op, left |-> n]] /\ op \in CallOps
  BY DEF StartMessage, Idle, CallOps
<1>3. call'[e] = [op |-> op, left |-> n] /\ \A d \in Ends : d # e => call'[d] = call[d]
  BY <1>1, <1>2, CallType
<1>4. /\ LastFrame(e) \in Frames /\ LastFrame(e).op = writer[e].op /\ LastFrame(e).data = writer[e].pos
      /\ LastFrame(e).fin /\ writer[e].op # "close"
  BY <1>1, LastFrameType DEF LastFrame, Frame, AppTypeOK, MessageWriters
<1>5. CASE writer[e].open
  <2>1. /\ at'[e]["writer"] = "waits" /\ out'[e]["writer"] = LastFrame(e) /\ UNCHANGED writeErr
        /\ out'[e]["reader"] = out[e]["reader"] /\ out'[e]["control"] = out[e]["control"]
    BY <1>1, <1>2, <1>4, <1>5, Submitted DEF Goroutines
  <2>2. OutOf(e)'
    BY <1>1, <1>2, <1>3, <1>4, <2>1 DEF OutOf
  <2>3. Flowing(e)' = Flowing(e)
    BY <1>2, <1>3, <1>4, <2>1, FlowingIdle, FlowingFrame
  <2>4. \A s \in Sights : AtEnd(e, s) => AtEnd(e, s)'
    BY <1>2, <2>1, <2>3, AtEndSame
  <2>5. QED
    BY <1>2, <1>3, <1>4, <1>5, <2>2, <2>4, WriterAlone
<1>6. CASE ~writer[e].open
  <2>1. UNCHANGED writing /\ UNCHANGED <<at, out, writeErr>>
    BY <1>2, <1>6 DEF writing
  <2>2. OutOf(e)'
    BY <1>1, <1>2, <1>3, <1>6, <2>1 DEF OutOf
  <2>3. Flowing(e)' = Flowing(e)
    BY <1>2, <2>1 DEF Flowing
  <2>4. \A s \in Sights : AtEnd(e, s) => AtEnd(e, s)'
    BY <1>2, <2>1, <2>3, AtEndSame
  <2>5. QED
    BY <1>2, <1>3, <2>1, <2>2, <2>4, WriterAlone
<1>7. QED
  BY <1>5, <1>6

LEMMA WritePreparedMoves ==
  ASSUME IInv, PipeInv, NEW e \in Ends, NEW n \in Nat, WritePrepared(e, n)
  PROVE  WriterMoves(e)
<1> DEFINE f == Frame("data", TRUE, Units(e, 1, n))
<1>1. TypeOK /\ OutOf(e) /\ WritingTypeOK /\ AppTypeOK
  BY DEF IInv, TypeOK, PipeInv, OutInv
<1>2. /\ at[e]["writer"] = "none" /\ Submit(e, "writer", f)
      /\ writer[e].open => writer[e].op = "cont"
      /\ UNCHANGED <<wire, open, cut, writer, sent, reader>>
      /\ call' = [call EXCEPT ![e] = [op |-> "Prepared", left |-> 0]] /\ "Prepared" \in CallOps
  BY DEF WritePrepared, Idle, CallOps
<1>3. call'[e].op = "Prepared" /\ \A d \in Ends : d # e => call'[d] = call[d]
  BY <1>1, <1>2, CallType
<1>4. f \in Frames /\ f.op = "data" /\ f.fin
  <2>1. Units(e, 1, n) \in Seq(Unit)
    BY <1>1, UnitsType, 0 + 1 = 1, 0 + n = n
  <2>2. QED
    BY <2>1 DEF Frame, Frames
<1> HIDE DEF f
<1>5. /\ at'[e]["writer"] = "waits" /\ out'[e]["writer"] = f /\ UNCHANGED writeErr
      /\ out'[e]["reader"] = out[e]["reader"] /\ out'[e]["control"] = out[e]["control"]
  BY <1>1, <1>2, <1>4, Submitted DEF Goroutines
<1>6. OutOf(e)'
  BY <1>1, <1>2, <1>3, <1>4, <1>5 DEF OutOf
<1>7. Flowing(e)' = Flowing(e)
  BY <1>2, <1>3 DEF Flowing
<1>8. \A s \in Sights : AtEnd(e, s) => AtEnd(e, s)'
  BY <1>2, <1>5, <1>7, AtEndSame
<1>9. QED
  BY <1>2, <1>3, <1>4, <1>6, <1>8, WriterAlone

LEMMA BeginMessageMoves ==
  ASSUME IInv, IInv', PipeInv, NEW e \in Ends, BeginMessage(e)
  PROVE  WriterMoves(e)
<1> PICK n \in Nat : n = call[e].left
  BY DEF IInv, TypeOK, AppTypeOK
<1> DEFINE f == IF call[e].op = "WriteClose" THEN Bare("close") ELSE Frame("data", TRUE, Units(e, 1, n))
<1>1. TypeOK /\ OutOf(e) /\ WritingTypeOK /\ AppTypeOK
  BY DEF IInv, TypeOK, PipeInv, OutInv
<1>2. /\ call[e].op \in {"NextWriter", "WriteMessage", "WriteClose"} /\ at[e]["writer"] = "none"
      /\ UNCHANGED <<wire, open, cut, sent, reader>> /\ ~writer[e].open
      /\ call[e].op # "WriteMessage" => n = 0
  BY <1>1 DEF BeginMessage, OutOf
<1>3. CASE writeErr[e] # "none"
  <2>1. /\ UNCHANGED <<writer, writing>> /\ UNCHANGED <<at, out, writeErr>>
        /\ call' = [call EXCEPT ![e] = [op |-> "none", left |-> 0]] /\ "none" \in CallOps
    BY <1>3 DEF BeginMessage, NoCall, writing, CallOps
  <2>2. call'[e].op = "none" /\ \A d \in Ends : d # e => call'[d] = call[d]
    BY <1>1, <2>1, CallType
  <2>3. OutOf(e)'
    BY <1>1, <1>2, <2>1, <2>2 DEF OutOf
  <2>4. \A s \in Sights : AtEnd(e, s) => AtEnd(e, s)'
    BY <1>2, <1>3, <2>1 DEF AtEnd
  <2>5. QED
    BY <1>2, <2>1, <2>2, <2>3, <2>4, WriterAlone
<1>4. CASE writeErr[e] = "none"
  <2>1. /\ writer' = [writer EXCEPT ![e] = NewWriter(n)]
        /\ IF call[e].op = "NextWriter"
           THEN call' = [call EXCEPT ![e] = NoCall] /\ UNCHANGED writing
           ELSE call' = [call EXCEPT ![e] = [op |-> "Flush", left |-> 0]] /\ Submit(e, "writer", f)
    BY <1>4 DEF BeginMessage
  <2>2. Units(e, 1, n) \in Seq(Unit) /\ Len(Units(e, 1, n)) = n
    BY <1>1, UnitsType, 0 + 1 = 1, 0 + n = n
  <2>3. n = 0 => Units(e, 1, n) = <<>>
    BY <2>2, EmptySeq
  <2>4. /\ f \in Frames /\ f.fin /\ f.op \in {"data", "close"}
        /\ f.data = IF call[e].op = "WriteClose" THEN <<>> ELSE Units(e, 1, n)
    BY <2>2 DEF Bare, Frame, Frames, ControlOps
  <2> HIDE DEF f
  <2>5. /\ writer'[e] = NewWriter(n) /\ \A d \in Ends : d # e => writer'[d] = writer[d]
    BY <1>1, <2>1 DEF AppTypeOK
  <2>6. /\ writer'[e].open /\ writer'[e].op = "data" /\ writer'[e].pos = <<>> /\ writer'[e].count = n
    BY <2>5 DEF NewWriter
  <2>7. /\ OutOf(e)' /\ \A d \in Ends : d # e => call'[d] = call[d]
        /\ Flowing(e)' = Units(e, 1, n) /\ UNCHANGED writeErr
    <3>1. CASE call[e].op = "NextWriter"
      <4>1. /\ UNCHANGED <<at, out, writeErr>> /\ "none" \in CallOps
            /\ call' = [call EXCEPT ![e] = [op |-> "none", left |-> 0]]
        BY <2>1, <3>1 DEF writing, NoCall, CallOps
      <4>2. call'[e].op = "none" /\ \A d \in Ends : d # e => call'[d] = call[d]
        BY <1>1, <4>1, CallType
      <4>3. OutOf(e)'
        BY <1>1, <1>2, <4>1, <4>2 DEF OutOf
      <4>4. Flowing(e)' = Units(e, 1, n)
        BY <1>2, <2>3, <2>6, <3>1, <4>1 DEF Flowing
      <4>5. QED
        BY <4>1, <4>2, <4>3, <4>4
    <3>2. CASE call[e].op # "NextWriter"
      <4>1. /\ call' = [call EXCEPT ![e] = [op |-> "Flush", left |-> 0]] /\ "Flush" \in CallOps
            /\ Submit(e, "writer", f)
        BY <2>1, <3>2 DEF CallOps
      <4>2. call'[e].op = "Flush" /\ \A d \in Ends : d # e => call'[d] = call[d]
        BY <1>1, <4>1, CallType
      <4>3. /\ at'[e]["writer"] = "waits" /\ out'[e]["writer"] = f /\ UNCHANGED writeErr
            /\ out'[e]["reader"] = out[e]["reader"] /\ out'[e]["control"] = out[e]["control"]
        BY <1>1, <2>4, <4>1, Submitted DEF Goroutines
      <4>4. OutOf(e)'
        BY <1>1, <2>4, <2>6, <4>2, <4>3 DEF OutOf
      <4>5. Flowing(e)' = Units(e, 1, n)
        BY <1>2, <2>3, <2>4, <4>2, <4>3, FlowingFrame
      <4>6. QED
        BY <4>2, <4>3, <4>4, <4>5
    <3>3. QED
      BY <3>1, <3>2
  <2>8. \A k : Units(e, 1, k)' = Units(e, 1, k)
    BY <1>2 DEF Units
  <2>9. \A s \in Sights : AtEnd(e, s) => AtEnd(e, s)'
    BY <1>2, <2>6, <2>7, <2>8 DEF AtEnd, BetweenMessages
  <2>10. UNCHANGED writing \/ \E g \in Frames : Submit(e, "writer", g)
    BY <2>1, <2>4
  <2>11. QED
    BY <1>2, <2>5, <2>7, <2>9, <2>10, WriterAlone
<1>5. QED
  BY <1>3, <1>4

LEMMA CallWriteMoves ==
  ASSUME IInv, PipeInv, NEW e \in Ends, NEW n \in Nat, CallWrite(e, n)
  PROVE  WriterMoves(e)
<1> DEFINE w == writer[e]
           more == Units(e, w.count + 1, w.count + n)
           f == Frame(w.op, FALSE, w.pos \o more)
<1>1. TypeOK /\ OutOf(e) /\ WritingTypeOK /\ AppTypeOK
  BY DEF IInv, TypeOK, PipeInv, OutInv
<1>2. /\ at[e]["writer"] = "none" /\ UNCHANGED <<wire, open, cut, sent, reader>>
      /\ w \in MessageWriters /\ "Write" \in CallOps
  BY <1>1 DEF CallWrite, Idle, AppTypeOK, CallOps
<1>3. CASE e = Server /\ n > 2 * BufSize
  <2>1. /\ writer' = [writer EXCEPT ![e].count = @ + n]
        /\ call' = [call EXCEPT ![e] = [op |-> "Write", left |-> 0]]
        /\ Submit(e, "writer", f)
    BY <1>3 DEF CallWrite
  <2>2. w.count \in Nat /\ w.op \in {"data", "cont"} /\ w.pos \in Seq(Unit)
    BY <1>2 DEF MessageWriters
  <2>3. more \in Seq(Unit)
    BY <1>1, <2>2, UnitsType
  <2> HIDE DEF more
  <2>4. f \in Frames /\ f.op = w.op /\ f.data = w.pos \o more
    <3>1. w.pos \o more \in Seq(Unit)
      BY <2>2, <2>3
    <3>2. QED
      BY <2>2, <3>1 DEF Frame, Frames
  <2> HIDE DEF f
  <2>5. /\ call'[e].op = "Write" /\ \A d \in Ends : d # e => call'[d] = call[d]
    BY <1>1, <1>2, <2>1, CallType
  <2>6. /\ at'[e]["writer"] = "waits" /\ out'[e]["writer"] = f /\ UNCHANGED writeErr
        /\ out'[e]["reader"] = out[e]["reader"] /\ out'[e]["control"] = out[e]["control"]
    BY <1>1, <2>1, <2>4, Submitted DEF Goroutines
  <2>7. /\ writer'[e].open = w.open /\ writer'[e].op = w.op /\ writer'[e].count = w.count + n
        /\ \A d \in Ends : d # e => writer'[d] = writer[d]
    <3>1. writer'[e] = [w EXCEPT !.count = w.count + n]
      BY <2>1 DEF AppTypeOK, IInv, TypeOK
    <3>2. QED
      BY <1>1, <1>2, <2>1, <3>1 DEF AppTypeOK, MessageWriters
  <2>8. OutOf(e)'
    BY <1>1, <2>4, <2>5, <2>6, <2>7 DEF OutOf
  <2>9. Flowing(e)' = Flowing(e) \o more
    BY <1>2, <2>4, <2>5, <2>6, FlowingIdle, FlowingFrame
  <2>10. \A s \in Sights : AtEnd(e, s) => AtEnd(e, s)'
    BY <1>1, <1>2, <2>6, <2>7, <2>9, AtEndMore DEF more
  <2>11. QED
    BY <1>2, <2>1, <2>4, <2>5, <2>7, <2>8, <2>10, WriterAlone
<1>4. CASE ~(e = Server /\ n > 2 * BufSize)
  <2>1. /\ UNCHANGED <<writer, writing>> /\ UNCHANGED <<at, out, writeErr>>
        /\ call' = [call EXCEPT ![e] = [op |-> "Write", left |-> n]]
    BY <1>4 DEF CallWrite, writing
  <2>2. /\ call'[e].op = "Write" /\ \A d \in Ends : d # e => call'[d] = call[d]
    BY <1>1, <1>2, <2>1, CallType
  <2>3. OutOf(e)'
    BY <1>1, <1>2, <2>1, <2>2 DEF OutOf
  <2>4. Flowing(e)' = Flowing(e)
    BY <1>2, <2>1 DEF Flowing
  <2>5. \A s \in Sights : AtEnd(e, s) => AtEnd(e, s)'
    BY <1>2, <2>1, <2>4, AtEndSame
  <2>6. QED
    BY <1>2, <2>1, <2>2, <2>3, <2>5, WriterAlone
<1>5. QED
  BY <1>3, <1>4

LEMMA CopyMoves ==
  ASSUME IInv, PipeInv, NEW e \in Ends, Copy(e)
  PROVE  WriterMoves(e)
<1> DEFINE w == writer[e]
           room == BufSize - Len(w.pos)
           n == IF call[e].left < room THEN call[e].left ELSE room
           f == Frame(w.op, FALSE, w.pos)
<1>1. TypeOK /\ OutOf(e) /\ WritingTypeOK /\ AppTypeOK
  BY DEF IInv, TypeOK, PipeInv, OutInv
<1>2. /\ call[e].op = "Write" /\ at[e]["writer"] = "none"
      /\ UNCHANGED <<wire, open, cut, sent, reader>>
  BY DEF Copy
<1>3. /\ w \in MessageWriters /\ w.count \in Nat /\ w.op \in {"data", "cont"} /\ w.pos \in Seq(Unit)
      /\ Len(w.pos) <= BufSize /\ Len(w.pos) \in Nat /\ BufSize \in Nat /\ call[e].left \in Nat
  BY <1>1, WsConnAssumption DEF AppTypeOK, MessageWriters
<1>4. CASE room = 0
  <2>1. Submit(e, "writer", f) /\ UNCHANGED <<call, writer>>
    BY <1>4 DEF Copy
  <2>2. f \in Frames /\ f.op = w.op /\ f.data = w.pos
    BY <1>3 DEF Frame, Frames
  <2> HIDE DEF f
  <2>3. /\ at'[e]["writer"] = "waits" /\ out'[e]["writer"] = f /\ UNCHANGED writeErr
        /\ out'[e]["reader"] = out[e]["reader"] /\ out'[e]["control"] = out[e]["control"]
    BY <1>1, <2>1, <2>2, Submitted DEF Goroutines
  <2>4. OutOf(e)'
    BY <1>1, <1>2, <2>1, <2>2, <2>3 DEF OutOf
  <2>5. Flowing(e)' = Flowing(e)
    BY <1>2, <2>1, <2>2, <2>3, FlowingIdle, FlowingFrame
  <2>6. \A s \in Sights : AtEnd(e, s) => AtEnd(e, s)'
    BY <1>2, <2>1, <2>3, <2>5, AtEndSame
  <2>7. QED
    BY <1>2, <2>1, <2>2, <2>4, <2>6, WriterAlone
<1>5. CASE room # 0
  <2> DEFINE more == Units(e, w.count + 1, w.count + n)
  <2>1. /\ UNCHANGED writing /\ UNCHANGED <<at, out, writeErr>>
        /\ writer' = [writer EXCEPT ![e].pos = w.pos \o more, ![e].count = @ + n]
        /\ call' = [call EXCEPT ![e] = IF call[e].left = n THEN NoCall
                                       ELSE [op |-> "Write", left |-> call[e].left - n]]
    BY <1>5 DEF Copy, writing
  <2>2. n \in Nat
    BY <1>3
  <2> HIDE DEF n, more
  <2>3. /\ writer'[e].open = w.open /\ writer'[e].op = w.op /\ writer'[e].count = w.count + n
        /\ writer'[e].pos = w.pos \o more
        /\ \A d \in Ends : d # e => writer'[d] = writer[d]
    <3>1. writer'[e] = [w EXCEPT !.pos = w.pos \o more, !.count = w.count + n]
      BY <1>1, <2>1 DEF AppTypeOK
    <3>2. QED
      BY <1>1, <1>3, <2>1, <3>1 DEF AppTypeOK, MessageWriters
  <2>4. /\ call'[e].op \in {"Write", "none"} /\ \A d \in Ends : d # e => call'[d] = call[d]
    BY <1>1, <2>1 DEF AppTypeOK, NoCall
  <2>5. OutOf(e)'
    BY <1>1, <1>2, <2>1, <2>3, <2>4 DEF OutOf
  <2>6. Flowing(e)' = Flowing(e) \o more
    BY <1>2, <2>1, <2>3 DEF Flowing
  <2>7. \A s \in Sights : AtEnd(e, s) => AtEnd(e, s)'
    BY <1>1, <1>2, <2>1, <2>2, <2>3, <2>6, AtEndMore DEF more
  <2>8. QED
    BY <1>2, <2>1, <2>3, <2>4, <2>5, <2>7, WriterAlone
<1>6. QED
  BY <1>4, <1>5

(* write and WriteControl. *)

LEMMA AcquirePipeInv ==
  ASSUME IInv, IInv', PipeInv, NEW e \in Ends, NEW g \in Goroutines, Acquire(e, g)
  PROVE  PipeInv' /\ UNCHANGED <<sent, got>>
<1>1. TypeOK /\ WritingTypeOK /\ Goroutines = {"writer", "reader", "control"}
  BY DEF IInv, TypeOK, Goroutines
<1>2. /\ UNCHANGED <<wire, open, cut, writeErr, out, app, reader>>
      /\ at[e][g] = "waits" /\ at' = [at EXCEPT ![e][g] = "holds"]
  BY DEF Acquire
<1>3. \A d \in Ends : at'[d]["writer"] # "none" <=> at[d]["writer"] # "none"
  BY <1>1, <1>2 DEF WritingTypeOK
<1>4. ASSUME NEW d \in Ends PROVE ReaderRests(d) /\ Grown(d) /\ OutOf(d)' /\ WireMoves(d)
  <2>1. ReaderRests(d) /\ Grown(d)
    BY <1>1, <1>2, SentStays DEF app, reader, ReaderRests, Reads, GivesUp
  <2>2. OutOf(d)'
    <3>1. OutOf(d)
      BY DEF PipeInv, OutInv
    <3>2. QED
      BY <1>2, <1>3, <3>1 DEF OutOf, app
  <2>3. Flowing(d)' = Flowing(d)
    BY <1>2, <1>3 DEF Flowing, app
  <2>4. \A s \in Sights : AtEnd(d, s) => AtEnd(d, s)'
    BY <1>2, <2>3, AtEndSame DEF app
  <2>5. QED
    BY <1>2, <2>1, <2>2, <2>4 DEF WireMoves
<1>5. QED
  BY <1>2, <1>4, StepPipeInv DEF app, reader

\* What the reading goroutine and the one of WriteControl do with an answer.
LEMMA OthersReturn ==
  ASSUME IInv, PipeInv, NEW e \in Ends, NEW g \in {"reader", "control"}, at[e][g] # "none",
         Freed(e, g), NEW res, Returns(e, g, res)
  PROVE  /\ \A d \in Ends : ReaderRests(d) /\ WriterRests(d) /\ Grown(d) /\ OutOf(d)'
         /\ UNCHANGED <<sent, got>>
<1>1. TypeOK /\ ReaderTypeOK /\ Goroutines = {"writer", "reader", "control"} /\ Bare("none").op = "none"
  BY DEF IInv, TypeOK, Goroutines, Bare, Frame
<1>2. UNCHANGED <<app, readFinal, cur, unread, nth, got>>
  BY DEF Returns, ReaderReturns, reader
<1>3. \A d \in Ends : WriterRests(d)
  BY <1>1, <1>2 DEF Freed, app, WriterRests
<1>4. ASSUME NEW d \in Ends PROVE OutOf(d)'
  <2>1. OutOf(d) /\ {out'[d]["reader"].op, out'[d]["control"].op} \cap {"data", "cont"} = {}
    BY <1>1 DEF Freed, PipeInv, OutInv, OutOf
  <2>2. QED
    BY <1>3, <2>1, StillOut
<1>5. ASSUME NEW d \in Ends PROVE ReaderRests(d)
  <2>1. CASE d # e \/ g = "control"
    <3>1. reading'[d] = reading[d]
      BY <1>1, <2>1 DEF Returns, ReaderReturns, reader, ReaderTypeOK
    <3>2. out'[d]["reader"] = out[d]["reader"]
      BY <1>1, <2>1 DEF Freed
    <3>3. QED
      BY <1>2, <3>1, <3>2 DEF ReaderRests, Reads, GivesUp
  <2>2. CASE d = e /\ g = "reader"
    <3> DEFINE op == out[e]["reader"].op
    <3>1. op \in {"pong", "close", "tooBig", "protocol"} /\ reading[e] # "done"
      BY <2>2 DEF IInv, SubmitInv
    <3>2. ReaderReturns(e, res)
      BY <2>2 DEF Returns
    <3>3. reading'[e] \in {reading[e], "done"} /\ (op # "pong" => reading'[e] = "done")
      BY <1>1, <3>1, <3>2 DEF ReaderReturns, ReaderTypeOK
    <3>4. QED
      BY <1>2, <2>2, <3>1, <3>3 DEF ReaderRests, Reads, GivesUp
  <2>3. QED
    BY <2>1, <2>2
<1>6. QED
  BY <1>1, <1>2, <1>3, <1>4, <1>5, SentStays DEF app

LEMMA GiveUpPipeInv ==
  ASSUME IInv, IInv', PipeInv, NEW e \in Ends, NEW g \in Goroutines, GiveUp(e, g)
  PROVE  PipeInv' /\ UNCHANGED <<sent, got>>
<1>1. /\ g \in {"reader", "control"} /\ at[e][g] # "none" /\ Returns(e, g, "timeout")
      /\ UNCHANGED <<wire, open, cut, writeErr>>
  BY DEF GiveUp, Goroutines
<1>2. Freed(e, g)
  BY DEF GiveUp, Freed, IInv, TypeOK, WritingTypeOK
<1>3. /\ \A d \in Ends : ReaderRests(d) /\ WriterRests(d) /\ Grown(d) /\ OutOf(d)'
      /\ UNCHANGED <<sent, got>>
  BY <1>1, <1>2, OthersReturn
<1>4. \A d \in Ends : WireMoves(d)
  BY <1>1, <1>3, StillAtEnd DEF WireMoves
<1>5. QED
  BY <1>1, <1>3, <1>4, StepPipeInv

\* The writing goroutine is told that its frame has not been written.
LEMMA WriterFailed ==
  ASSUME IInv, PipeInv, NEW e \in Ends, at[e]["writer"] # "none",
         Freed(e, "writer"), NEW res, res # "ok", Returns(e, "writer", res)
  PROVE  /\ \A d \in Ends : ReaderRests(d) /\ Grown(d) /\ OutOf(d)'
         /\ \A d \in Ends : d # e => WriterRests(d)
         /\ UNCHANGED <<sent, got>>
<1>1. TypeOK /\ AppTypeOK /\ Goroutines = {"writer", "reader", "control"}
  BY DEF IInv, TypeOK, Goroutines
<1>2. WriterReturns(e, res) /\ UNCHANGED reader
  BY DEF Returns, WriterReturns
<1>3. /\ UNCHANGED sent /\ call'[e] \in {call[e], NoCall}
      /\ call'[e] = call[e] => call[e].op \in {"NextWriter", "WriteMessage", "WriteClose"}
      /\ IF call[e].op = "Prepared" THEN UNCHANGED writer ELSE ~writer'[e].open
      /\ \A d \in Ends : d # e => call'[d] = call[d] /\ writer'[d] = writer[d]
  <2>1. CASE call[e].op = "Prepared"
    BY <1>1, <1>2, <2>1 DEF WriterReturns, AfterPrepared, AppTypeOK, NoCall
  <2>2. CASE call[e].op # "Prepared"
    <3>1. /\ EndMessage(e) /\ UNCHANGED sent
          /\ call' = IF GoesOn(e, FALSE) THEN call ELSE [call EXCEPT ![e] = NoCall]
      BY <1>2, <2>2 DEF WriterReturns, AfterFlush, GoesOn
    <3>2. call[e].op # "none"
      BY DEF IInv, WriterInv
    <3>3. QED
      BY <1>1, <2>2, <3>1, <3>2 DEF EndMessage, GoesOn, AppTypeOK, NoWriter, NoCall
  <2>3. QED
    BY <2>1, <2>2
<1>4. \A d \in Ends : d # e => WriterRests(d)
  BY <1>1, <1>3 DEF Freed, WriterRests
<1>5. \A d \in Ends : out'[d]["reader"] = out[d]["reader"] /\ out'[d]["control"] = out[d]["control"]
  BY <1>1 DEF Freed
<1>6. ASSUME NEW d \in Ends PROVE OutOf(d)'
  <2>1. OutOf(d) /\ {out'[d]["reader"].op, out'[d]["control"].op} \cap {"data", "cont"} = {}
    BY <1>5 DEF PipeInv, OutInv, OutOf
  <2>2. CASE d # e
    BY <1>4, <2>1, <2>2, StillOut
  <2>3. CASE d = e
    BY <1>3, <2>1, <2>3 DEF OutOf, Freed, NoCall
  <2>4. QED
    BY <2>2, <2>3
<1>7. QED
  BY <1>1, <1>2, <1>3, <1>4, <1>5, <1>6, SentStays DEF reader, ReaderRests, Reads, GivesUp

\* What the last frame of a message, or one before it, is to the other end.
LEMMA AfterFrame ==
  ASSUME TypeOK, NEW e \in Ends, open[e], writeErr[e] = "none", writer[e].open,
         NEW f \in Frames, f.op = writer[e].op, Flowing(e) = f.data,
         NEW s \in Sights, ~s.bad, AtEnd(e, s)
  PROVE  After(s, f) = [final |-> f.fin, nth |-> Len(sent[e]) + 1,
                        data |-> Units(e, 1, writer[e].count), bad |-> FALSE]
<1> PICK c \in Nat : c = writer[e].count
  BY DEF TypeOK, AppTypeOK, MessageWriters
<1>1. writer[e].op \in {"data", "cont"} /\ AppTypeOK
  BY DEF TypeOK, AppTypeOK, MessageWriters
<1>2. CASE writer[e].op = "cont"
  <2>1. MidMessage(e, s)
    BY <1>2 DEF AtEnd
  <2>2. PICK k \in 0 .. c : s.data = Units(e, 1, k) /\ f.data = Units(e, k + 1, c)
    BY <2>1 DEF MidMessage
  <2>3. PICK l \in Nat : l = c - k
    OBVIOUS
  <2>4. k \in Nat /\ k + l = c
    BY <2>3
  <2>5. Units(e, 1, k) \o Units(e, k + 1, k + l) = Units(e, 1, k + l)
    BY <1>1, <2>4, UnitsFromFirst
  <2>6. s.data \o f.data = Units(e, 1, c)
    BY <2>2, <2>4, <2>5
  <2>7. s.final = FALSE /\ s.nth = Len(sent[e]) + 1 /\ f.op = "cont"
    BY <1>2, <2>1 DEF MidMessage, Sights
  <2>8. QED
    BY <2>6, <2>7 DEF After
<1>3. CASE writer[e].op = "data"
  <2>1. BetweenMessages(e, s)
    BY <1>3 DEF AtEnd
  <2>2. QED
    BY <1>3, <2>1 DEF After, BetweenMessages
<1>4. QED
  BY <1>1, <1>2, <1>3

LEMMA SentMore ==
  ASSUME TypeOK, NEW e \in Ends, NEW m \in Seq(Unit), sent' = [sent EXCEPT ![e] = Append(@, m)]
  PROVE  /\ Len(sent'[e]) = Len(sent[e]) + 1 /\ sent'[e][Len(sent[e]) + 1] = m
         /\ Len(sent[e]) \in Nat
         /\ \A d \in Ends : Grown(d) /\ (d # e => sent'[d] = sent[d])
         /\ UNCHANGED got => Pipe!Send(e)
<1>1. sent \in [Ends -> Seq(Seq(Unit))]
  BY DEF TypeOK, AppTypeOK
<1>2. sent'[e] = Append(sent[e], m) /\ sent[e] \in Seq(Seq(Unit))
  BY <1>1
<1>3. /\ Len(sent'[e]) = Len(sent[e]) + 1 /\ sent'[e][Len(sent[e]) + 1] = m
      /\ Len(sent[e]) \in Nat
      /\ \A i \in 1 .. Len(sent[e]) : sent'[e][i] = sent[e][i]
  BY <1>2
<1>4. \A d \in Ends : Grown(d) /\ (d # e => sent'[d] = sent[d])
  BY <1>1, <1>3 DEF Grown
<1>5. UNCHANGED got => Pipe!Send(e)
  BY <1>3 DEF Pipe!Send
<1>6. QED
  BY <1>3, <1>4, <1>5

\* The writing goroutine after its frame is on its way.
LEMMA WriterSucceeded ==
  ASSUME IInv, IInv', PipeInv, NEW e \in Ends, at[e]["writer"] # "none",
         Freed(e, "writer"), Returns(e, "writer", "ok"), open[e], writeErr[e] = "none",
         NEW f, f = out[e]["writer"], IsClose(f.op) => writeErr'[e] # "none"
  PROVE  /\ \A d \in Ends : ReaderRests(d) /\ Grown(d) /\ OutOf(d)'
         /\ \A d \in Ends : d # e => WriterRests(d)
         /\ UNCHANGED got /\ (UNCHANGED sent \/ Pipe!Send(e))
         /\ \A s \in Sights : Whole(e, s) /\ AtEnd(e, s) =>
                                Whole(e, After(s, f))' /\ AtEnd(e, After(s, f))'
<1>1. /\ TypeOK /\ AppTypeOK /\ WritingTypeOK /\ AppTypeOK' /\ OutOf(e)
      /\ Goroutines = {"writer", "reader", "control"}
  BY DEF IInv, TypeOK, Goroutines, PipeInv, OutInv
<1>2. WriterReturns(e, "ok") /\ UNCHANGED reader /\ UNCHANGED got
  BY DEF Returns, WriterReturns, reader
<1>3. f \in Frames /\ f.data \in Seq(Unit) /\ f.fin \in BOOLEAN
  BY <1>1 DEF WritingTypeOK, Frames
<1>4. /\ sent \in [Ends -> Seq(Seq(Unit))] /\ sent' \in [Ends -> Seq(Seq(Unit))]
  BY <1>1 DEF AppTypeOK
<1>5. \A s \in Sights : s.bad /\ Grown(e) /\ Whole(e, s) =>
                          Whole(e, After(s, f))' /\ AtEnd(e, After(s, f))'
  BY <1>4, WholeStays DEF After, AtEnd
<1>6. /\ \A d \in Ends : Grown(d) /\ (d # e => sent'[d] = sent[d])
      /\ UNCHANGED sent \/ Pipe!Send(e)
      /\ \A d \in Ends : d # e => call'[d] = call[d] /\ writer'[d] = writer[d]
      /\ OutOf(e)'
      /\ \A s \in Sights : Whole(e, s) /\ AtEnd(e, s) =>
                                Whole(e, After(s, f))' /\ AtEnd(e, After(s, f))'
  <2>0. {out'[e]["reader"].op, out'[e]["control"].op} \cap {"data", "cont"} = {}
    BY <1>1 DEF Freed, OutOf
  <2>1. CASE call[e].op = "Prepared"
    <3>1. /\ sent' = [sent EXCEPT ![e] = Append(@, f.data)] /\ UNCHANGED writer
          /\ call' = [call EXCEPT ![e] = NoCall]
      BY <1>2, <2>1 DEF WriterReturns, AfterPrepared
    <3>2. /\ Len(sent'[e]) = Len(sent[e]) + 1 /\ sent'[e][Len(sent[e]) + 1] = f.data
          /\ Len(sent[e]) \in Nat
          /\ \A d \in Ends : Grown(d) /\ (d # e => sent'[d] = sent[d])
          /\ Pipe!Send(e)
      BY <1>1, <1>2, <1>3, <3>1, SentMore
    <3>3. call'[e].op = "none" /\ \A d \in Ends : d # e => call'[d] = call[d]
      BY <1>1, <3>1 DEF AppTypeOK, NoCall
    <3>4. OutOf(e)'
      BY <1>1, <2>0, <3>1, <3>3 DEF OutOf, Freed
    <3>5. f.op = "data" /\ f.fin /\ (writer[e].open => writer[e].op = "cont")
      BY <1>1, <2>1 DEF OutOf
    <3>6. ASSUME NEW s \in Sights, Whole(e, s), AtEnd(e, s), ~s.bad
          PROVE  Whole(e, After(s, f))' /\ AtEnd(e, After(s, f))'
      <4>1. CASE ~s.final
        <5>1. After(s, f).bad
          BY <3>5, <3>6, <4>1 DEF After
        <5>2. QED
          BY <5>1 DEF Whole, AtEnd
      <4>2. CASE s.final
        <5>1. BetweenMessages(e, s) /\ ~writer[e].open
          BY <3>5, <3>6, <4>2 DEF AtEnd, MidMessage
        <5>2. After(s, f) = [final |-> f.fin, nth |-> Len(sent[e]) + 1, data |-> f.data, bad |-> FALSE]
          BY <3>5, <3>6, <4>2, <5>1 DEF After, BetweenMessages
        <5>3. QED
          BY <3>1, <3>2, <3>5, <5>1, <5>2 DEF Whole, AtEnd, BetweenMessages
      <4>3. QED
        BY <4>1, <4>2
    <3>7. QED
      BY <1>5, <3>1, <3>2, <3>3, <3>4, <3>6
  <2>2. CASE call[e].op # "Prepared"
    <3>1. /\ AfterFlush(e, TRUE) /\ writer[e].open
          /\ call' \in {call, [call EXCEPT ![e] = NoCall]}
      BY <1>2, <2>2 DEF WriterReturns, AfterFlush, IInv, WriterInv
    <3>2. call'[e] \in {call[e], NoCall} /\ \A d \in Ends : d # e => call'[d] = call[d]
      BY <1>1, <3>1 DEF AppTypeOK
    <3>3. writer[e].op \in {"data", "cont"} /\ writer[e].count \in Nat
      BY <1>1 DEF AppTypeOK, MessageWriters
    <3>4. f.op \in {"data", "cont"} => f.op = writer[e].op /\ Flowing(e) = f.data
      BY <1>1, <2>2 DEF OutOf, Flowing
    <3>5. CASE f.op \notin {"data", "cont"}
      <4>1. f.op = "close" /\ f.fin /\ IsClose(f.op)
        BY <1>1, <2>2, <3>3, <3>5 DEF OutOf, IsClose
      <4>2. EndMessage(e) /\ UNCHANGED sent
        BY <3>1, <4>1 DEF AfterFlush
      <4>3. ~writer'[e].open /\ \A d \in Ends : d # e => writer'[d] = writer[d]
        BY <1>1, <4>2 DEF EndMessage, NoWriter, AppTypeOK
      <4>4. OutOf(e)'
        BY <1>1, <2>0, <2>2, <3>2, <4>3 DEF OutOf, Freed, NoCall
      <4>5. \A d \in Ends : Grown(d)
        BY <1>1, <4>2, SentStays
      <4>6. \A s \in Sights : After(s, f) = s
        BY <3>5 DEF After
      <4>7. \A s \in Sights : Whole(e, s) => Whole(e, s)' /\ AtEnd(e, s)'
        BY <1>4, <4>1, <4>5, WholeStays DEF AtEnd
      <4>8. QED
        BY <3>2, <4>2, <4>3, <4>4, <4>5, <4>6, <4>7
    <3>6. CASE f.op \in {"data", "cont"} /\ f.fin
      <4>1. ~IsClose(f.op)
        BY <3>6 DEF IsClose
      <4>2. EndMessage(e) /\ sent' = [sent EXCEPT ![e] = Append(@, Units(e, 1, writer[e].count))]
        BY <3>1, <3>6, <4>1 DEF AfterFlush
      <4>3. ~writer'[e].open /\ \A d \in Ends : d # e => writer'[d] = writer[d]
        BY <1>1, <4>2 DEF EndMessage, NoWriter, AppTypeOK
      <4>4. PICK m : m = Units(e, 1, writer[e].count)
        OBVIOUS
      <4>5. m \in Seq(Unit)
        BY <1>1, <3>3, <4>4, UnitsType, 0 + 1 = 1, 0 + writer[e].count = writer[e].count
      <4>6. /\ Len(sent'[e]) = Len(sent[e]) + 1 /\ sent'[e][Len(sent[e]) + 1] = m
            /\ Len(sent[e]) \in Nat
            /\ \A d \in Ends : Grown(d) /\ (d # e => sent'[d] = sent[d])
            /\ Pipe!Send(e)
        BY <1>1, <1>2, <4>2, <4>4, <4>5, SentMore
      <4>7. OutOf(e)'
        BY <1>1, <2>0, <2>2, <3>2, <4>3 DEF OutOf, Freed, NoCall
      <4>8. ASSUME NEW s \in Sights, Whole(e, s), AtEnd(e, s), ~s.bad
            PROVE  Whole(e, After(s, f))' /\ AtEnd(e, After(s, f))'
        <5>1. After(s, f) = [final |-> f.fin, nth |-> Len(sent[e]) + 1, data |-> m, bad |-> FALSE]
          BY <1>1, <1>3, <3>1, <3>4, <3>6, <4>4, <4>8, AfterFrame
        <5>2. QED
          BY <3>6, <4>3, <4>6, <5>1 DEF Whole, AtEnd, BetweenMessages
      <4>9. QED
        BY <1>5, <3>2, <4>3, <4>6, <4>7, <4>8
    <3>7. CASE f.op \in {"data", "cont"} /\ ~f.fin
      <4>1. SetUpNextFrame(e) /\ UNCHANGED sent
        BY <3>1, <3>7 DEF AfterFlush
      <4>2. /\ writer'[e].open /\ writer'[e].op = "cont" /\ writer'[e].pos = <<>>
            /\ writer'[e].count = writer[e].count
            /\ \A d \in Ends : d # e => writer'[d] = writer[d]
        <5>1. writer'[e] = [writer[e] EXCEPT !.pos = <<>>, !.op = "cont"]
          BY <1>1, <4>1 DEF SetUpNextFrame, AppTypeOK
        <5>2. QED
          BY <1>1, <3>1, <4>1, <5>1 DEF SetUpNextFrame, AppTypeOK, MessageWriters
      <4>3. call[e].op \notin {"NextWriter", "WriteMessage", "WriteClose"}
        BY <1>1, <3>7 DEF OutOf
      <4>4. OutOf(e)'
        BY <1>1, <2>0, <2>2, <3>2, <4>2, <4>3 DEF OutOf, Freed, NoCall
      <4>5. \A d \in Ends : Grown(d)
        BY <1>1, <4>1, SentStays
      <4>6. PICK c \in Nat : c = writer[e].count
        BY <3>3
      <4>7. Flowing(e)' = Units(e, c + 1, c)
        <5>1. Flowing(e)' = <<>>
          BY <4>2 DEF Flowing, Freed
        <5>2. Units(e, c + 1, c + 0) \in Seq(Unit) /\ Len(Units(e, c + 1, c + 0)) = 0
          BY <1>1, UnitsType, 0 \in Nat
        <5>3. c + 0 = c
          OBVIOUS
        <5>4. QED
          BY <5>1, <5>2, <5>3, EmptySeq
      <4>8. \A j, k : Units(e, j, k)' = Units(e, j, k)
        BY <4>1 DEF Units
      <4>9. ASSUME NEW s \in Sights, Whole(e, s), AtEnd(e, s), ~s.bad
            PROVE  Whole(e, After(s, f))' /\ AtEnd(e, After(s, f))'
        <5>1. After(s, f) = [final |-> f.fin, nth |-> Len(sent[e]) + 1,
                             data |-> Units(e, 1, c), bad |-> FALSE]
          BY <1>1, <1>3, <3>1, <3>4, <3>7, <4>6, <4>9, AfterFrame
        <5>2. PICK t : t = After(s, f)
          OBVIOUS
        <5>3. ~t.final /\ t.nth = Len(sent'[e]) + 1 /\ t.data = Units(e, 1, c)'
          BY <3>7, <4>1, <4>8, <5>1, <5>2
        <5>4. c \in 0 .. c /\ writer'[e].count = c /\ Flowing(e)' = Units(e, c + 1, c)'
          BY <4>2, <4>6, <4>7, <4>8
        <5>5. MidMessage(e, t)'
          BY <5>3, <5>4 DEF MidMessage
        <5>6. QED
          BY <4>2, <5>2, <5>3, <5>5 DEF Whole, AtEnd
      <4>10. QED
        BY <1>5, <3>2, <4>1, <4>2, <4>4, <4>5, <4>9
    <3>8. QED
      BY <1>3, <3>5, <3>6, <3>7
  <2>3. QED
    BY <2>1, <2>2
<1>7. \A d \in Ends : d # e => WriterRests(d)
  BY <1>1, <1>6 DEF Freed, WriterRests
<1>8. \A d \in Ends : ReaderRests(d)
  BY <1>1, <1>2 DEF Freed, reader, ReaderRests, Reads, GivesUp
<1>9. ASSUME NEW d \in Ends, d # e PROVE OutOf(d)'
  <2>1. OutOf(d) /\ {out'[d]["reader"].op, out'[d]["control"].op} \cap {"data", "cont"} = {}
    BY <1>1, <1>9 DEF Freed, PipeInv, OutInv, OutOf
  <2>2. QED
    BY <1>7, <1>9, <2>1, StillOut
<1>10. QED
  BY <1>2, <1>6, <1>7, <1>8, <1>9

LEMMA FreedByRelease ==
  ASSUME IInv, IInv', NEW e \in Ends, NEW g \in Goroutines, Release(e, g)
  PROVE  Freed(e, g) /\ at[e][g] # "none"
BY Released DEF IInv, TypeOK, WritingTypeOK, Freed

\* A goroutine is told that its frame has not been written, and writing has
\* failed or been closed.
LEMMA RefusedPipeInv ==
  ASSUME IInv, IInv', PipeInv, NEW e \in Ends, NEW g \in Goroutines, at[e][g] # "none",
         Freed(e, g), NEW res, res # "ok", Returns(e, g, res), UNCHANGED <<open, cut>>,
         writeErr'[e] # "none", \A d \in Ends : d # e => writeErr'[d] = writeErr[d],
         \A d \in Ends : d # e => wire'[d] = wire[d],
         wire'[e] \in {wire[e], Append(wire[e], Bare("torn"))}
  PROVE  PipeInv' /\ UNCHANGED <<sent, got>>
<1>1. /\ \A d \in Ends : ReaderRests(d) /\ Grown(d) /\ OutOf(d)'
      /\ \A d \in Ends : d # e => WriterRests(d)
      /\ UNCHANGED <<sent, got>>
  <2>1. CASE g = "writer"
    BY <2>1, WriterFailed
  <2>2. CASE g # "writer"
    BY <2>2, OthersReturn DEF Goroutines
  <2>3. QED
    BY <2>1, <2>2
<1>2. Bare("torn") \in Frames /\ Bare("torn").op = "torn"
  BY DEF Bare, Frame, Frames
<1>3. \A s \in Sights : /\ After(s, Bare("torn")) = s /\ AtEnd(e, s)'
                        /\ Whole(e, s) => Whole(e, s)'
  <2>1. sent \in [Ends -> Seq(Seq(Unit))] /\ sent' \in [Ends -> Seq(Seq(Unit))]
    BY DEF IInv, TypeOK, AppTypeOK
  <2>2. QED
    BY <1>1, <1>2, <2>1, WholeStays DEF After, AtEnd
<1>4. WireMoves(e)
  BY <1>2, <1>3 DEF WireMoves
<1>5. ASSUME NEW d \in Ends, d # e PROVE WireMoves(d)
  BY <1>1, <1>5, StillAtEnd DEF WireMoves
<1>6. QED
  BY <1>1, <1>4, <1>5, StepPipeInv

LEMMA RefusePipeInv ==
  ASSUME IInv, IInv', PipeInv, NEW e \in Ends, NEW g \in Goroutines, Refuse(e, g)
  PROVE  PipeInv' /\ UNCHANGED <<sent, got>>
<1>1. /\ writeErr[e] # "none" /\ Release(e, g) /\ Returns(e, g, writeErr[e])
      /\ UNCHANGED <<wire, open, cut, writeErr>>
  BY DEF Refuse
<1>2. writeErr[e] # "ok"
  BY DEF IInv, TypeOK, WritingTypeOK
<1>3. Freed(e, g) /\ at[e][g] # "none"
  BY <1>1, FreedByRelease
<1>4. QED
  BY <1>1, <1>2, <1>3, RefusedPipeInv

LEMMA WriteFailsPipeInv ==
  ASSUME IInv, IInv', PipeInv, NEW e \in Ends, NEW g \in Goroutines, WriteFails(e, g)
  PROVE  PipeInv' /\ UNCHANGED <<sent, got>>
<1>1. /\ Release(e, g) /\ Returns(e, g, "failed") /\ UNCHANGED <<open, cut>>
      /\ wire' = wire \/ Carry(e, Bare("torn"))
      /\ writeErr' = [writeErr EXCEPT ![e] = "failed"]
  BY DEF WriteFails
<1>2. writeErr'[e] # "none" /\ \A d \in Ends : d # e => writeErr'[d] = writeErr[d]
  BY <1>1 DEF IInv, TypeOK, WritingTypeOK
<1>3. Freed(e, g) /\ at[e][g] # "none"
  BY <1>1, FreedByRelease
<1>4. /\ \A d \in Ends : d # e => wire'[d] = wire[d]
      /\ wire'[e] \in {wire[e], Append(wire[e], Bare("torn"))}
  BY <1>1 DEF Carry, IInv, TypeOK, NetTypeOK
<1>5. QED
  BY <1>1, <1>2, <1>3, <1>4, RefusedPipeInv

LEMMA WriteFramePipeInv ==
  ASSUME IInv, IInv', PipeInv, NEW e \in Ends, NEW g \in Goroutines, WriteFrame(e, g)
  PROVE  PipeInv' /\ UNCHANGED got /\ (UNCHANGED sent \/ Pipe!Send(e))
<1>1. /\ writeErr[e] = "none" /\ open[e] /\ Release(e, g) /\ Returns(e, g, "ok")
      /\ Carry(e, out[e][g]) /\ MarkClose(e, out[e][g]) /\ UNCHANGED <<open, cut>>
  BY DEF WriteFrame
<1>2. PICK f \in Frames : f = out[e][g]
  BY DEF IInv, TypeOK, WritingTypeOK
<1>3. Freed(e, g) /\ at[e][g] # "none"
  BY <1>1, FreedByRelease
<1>4. /\ \A d \in Ends : d # e => wire'[d] = wire[d] /\ writeErr'[d] = writeErr[d]
      /\ wire'[e] = Append(wire[e], f) \/ ~open[Other(e)]
      /\ IsClose(f.op) => writeErr'[e] # "none"
  BY <1>1, <1>2 DEF Carry, MarkClose, IInv, TypeOK, NetTypeOK, WritingTypeOK
<1>5. /\ \A d \in Ends : ReaderRests(d) /\ Grown(d) /\ OutOf(d)'
      /\ \A d \in Ends : d # e => WriterRests(d)
      /\ UNCHANGED got /\ (UNCHANGED sent \/ Pipe!Send(e))
      /\ \A s \in Sights : Whole(e, s) /\ AtEnd(e, s) =>
                             Whole(e, After(s, f))' /\ AtEnd(e, After(s, f))'
  <2>1. CASE g = "writer"
    BY <1>1, <1>2, <1>3, <1>4, <2>1, WriterSucceeded
  <2>2. CASE g # "writer"
    <3>1. g \in {"reader", "control"}
      BY <2>2 DEF Goroutines
    <3>2. /\ \A d \in Ends : ReaderRests(d) /\ WriterRests(d) /\ Grown(d) /\ OutOf(d)'
          /\ UNCHANGED <<sent, got>>
      BY <1>1, <1>3, <3>1, OthersReturn
    <3>3. f.op \notin {"data", "cont"}
      BY <1>2, <3>1 DEF PipeInv, OutInv, OutOf
    <3>4. \A s \in Sights : /\ After(s, f) = s
                            /\ Whole(e, s) => Whole(e, s)'
                            /\ AtEnd(e, s) => AtEnd(e, s)'
      <4>1. sent \in [Ends -> Seq(Seq(Unit))] /\ sent' \in [Ends -> Seq(Seq(Unit))]
        BY DEF IInv, TypeOK, AppTypeOK
      <4>2. QED
        BY <1>1, <3>2, <3>3, <4>1, WholeStays, StillAtEnd DEF After
    <3>5. QED
      BY <3>2, <3>4
  <2>3. QED
    BY <2>1, <2>2
<1>6. WireMoves(e)
  <2>1. CASE ~open[Other(e)]
    BY <1>1, <2>1 DEF WireMoves, Live
  <2>2. CASE open[Other(e)]
    BY <1>4, <1>5, <2>2 DEF WireMoves
  <2>3. QED
    BY <2>1, <2>2
<1>7. ASSUME NEW d \in Ends, d # e PROVE WireMoves(d)
  BY <1>1, <1>4, <1>5, <1>7, StillAtEnd DEF WireMoves
<1>8. QED
  BY <1>1, <1>5, <1>6, <1>7, StepPipeInv

LEMMA CallControlPipeInv ==
  ASSUME IInv, IInv', PipeInv, NEW e \in Ends, NEW op \in {"ping", "close"}, CallControl(e, op)
  PROVE  PipeInv' /\ UNCHANGED <<sent, got>>
<1>1. Submit(e, "control", Bare(op)) /\ UNCHANGED <<wire, open, cut, app, reader>>
  BY DEF CallControl
<1>2. Bare(op) \in Frames /\ Bare(op).op = op /\ Goroutines = {"writer", "reader", "control"}
  BY DEF Bare, Frame, Frames, ControlOps, Goroutines
<1>3. /\ UNCHANGED <<mu, writeErr>> /\ out'[e]["control"] = Bare(op)
      /\ \A d \in Ends, h \in Goroutines :
           d # e \/ h # "control" => at'[d][h] = at[d][h] /\ out'[d][h] = out[d][h]
  BY <1>1, <1>2, Submitted DEF IInv, TypeOK
<1>4. ASSUME NEW d \in Ends PROVE ReaderRests(d) /\ Grown(d) /\ OutOf(d)' /\ WireMoves(d)
  <2>1. ReaderRests(d) /\ Grown(d) /\ WriterRests(d)
    BY <1>1, <1>2, <1>3, SentStays DEF IInv, app, reader, ReaderRests, Reads, GivesUp, WriterRests
  <2>2. OutOf(d)'
    <3>1. OutOf(d) /\ {out'[d]["reader"].op, out'[d]["control"].op} \cap {"data", "cont"} = {}
      BY <1>2, <1>3 DEF PipeInv, OutInv, OutOf
    <3>2. QED
      BY <2>1, <3>1, StillOut
  <2>3. QED
    BY <1>1, <1>3, <2>1, <2>2, StillAtEnd DEF WireMoves
<1>5. QED
  BY <1>1, <1>4, StepPipeInv DEF app, reader
-----------------------------------------------------------------------------
(* The reading goroutine. *)

LEMMA LastGotType ==
  ASSUME TypeOK, NEW e \in Ends
  PROVE  Pipe!LastGot(e) \in Nat
<1>1. got[e] \in Seq(Nat \X Seq(Unit))
  BY DEF TypeOK, ReaderTypeOK
<1>2. CASE got[e] = <<>>
  BY <1>2 DEF Pipe!LastGot
<1>3. CASE got[e] # <<>>
  <2>1. Len(got[e]) \in 1 .. Len(got[e])
    BY <1>1, <1>3, EmptySeq
  <2>2. got[e][Len(got[e])] \in Nat \X Seq(Unit)
    BY <1>1, <2>1
  <2>3. got[e][Len(got[e])][1] \in Nat
    BY <2>2
  <2>4. QED
    BY <1>3, <2>3 DEF Pipe!LastGot
<1>4. QED
  BY <1>2, <1>3

\* A step of the reader of e: what is left to show is about what it holds and
\* about the frames that come to it.
ReaderMoves(e) ==
  /\ UNCHANGED <<open, cut, writeErr, app>> /\ wire'[e] = wire[e]
  /\ \A d \in Ends, g \in Goroutines : d # e \/ g # "reader" =>
       at'[d][g] = at[d][g] /\ out'[d][g] = out[d][g]
  /\ out'[e]["reader"].op \notin {"data", "cont"}
  /\ \A d \in Ends : d # e => UNCHANGED <<reading[d], readFinal[d], cur[d], unread[d], nth[d], got[d]>>

LEMMA ReaderMovesPipeInv ==
  ASSUME IInv, IInv', PipeInv, NEW e \in Ends, ReaderMoves(e), HeldOf(e)', ChainOf(Other(e))'
  PROVE  PipeInv' /\ UNCHANGED sent
<1>1. /\ TypeOK /\ AppTypeOK' /\ Goroutines = {"writer", "reader", "control"}
      /\ Other(e) \in Ends /\ Other(Other(e)) = e /\ Other(e) # e /\ Ends = {e, Other(e)}
  BY OtherEnd DEF IInv, TypeOK, Goroutines
<1>2. \A d \in Ends : WriterRests(d) /\ Grown(d)
  BY <1>1, SentStays DEF ReaderMoves, WriterRests, app
<1>3. ReaderRests(Other(e))
  BY <1>1 DEF ReaderMoves, ReaderRests, Reads, GivesUp
<1>4. ASSUME NEW d \in Ends PROVE OutOf(d)'
  <2>1. OutOf(d) /\ {out'[d]["reader"].op, out'[d]["control"].op} \cap {"data", "cont"} = {}
    BY <1>1 DEF ReaderMoves, PipeInv, OutInv, OutOf
  <2>2. QED
    BY <1>2, <2>1, StillOut
<1>5. HeldOf(Other(e))'
  BY <1>1, <1>2, <1>3, StillHeld DEF PipeInv, HeldInv
<1>6. ChainOf(e)'
  <2>1. ChainOf(e) /\ UNCHANGED <<open, cut, writeErr>> /\ wire'[e] = wire[e]
    BY DEF PipeInv, ChainInv, ReaderMoves
  <2>2. Live(e)' => Live(e)
    BY <1>3, <2>1, StillLive
  <2>3. \A s \in Sights : Live(e)' /\ Begins(e, s) => Begins(e, s)'
    BY <1>3, StillBegins
  <2>4. \A s \in Sights : AtEnd(e, s) => AtEnd(e, s)'
    BY <1>2, <2>1, StillAtEnd
  <2>5. QED
    BY <1>1, <1>2, <2>1, <2>2, <2>3, <2>4, SameSights
<1>7. UNCHANGED sent
  BY DEF ReaderMoves, app
<1>8. QED
  BY <1>1, <1>4, <1>5, <1>6, <1>7 DEF PipeInv, OutInv, HeldInv, ChainInv

\* A reader that is between two frames has not given up.
LEMMA Taking ==
  ASSUME IInv, NEW e \in Ends, NEW f, f = Head(Incoming(e)), Incoming(e) # <<>>, Take(e, f)
  PROVE  /\ f \in Frames /\ Reads(e) /\ reading[e] \in {"next", "read"} /\ at[e]["reader"] = "none"
         /\ Live(Other(e)) /\ UNCHANGED <<open, cut, app, cur, got>>
         /\ wire'[Other(e)] = Tail(wire[Other(e)]) /\ wire'[e] = wire[e]
<1>1. /\ Other(e) \in Ends /\ Other(Other(e)) = e /\ Other(e) # e
      /\ "reader" \in Goroutines /\ Bare("none").op = "none"
  BY OtherEnd DEF Goroutines, Bare, Frame
<1>2. wire \in [Ends -> Seq(Frames)]
  BY DEF IInv, TypeOK, NetTypeOK
<1>3. f \in Frames
  BY <1>1, <1>2, HeadTailProperties DEF Incoming
<1>4. /\ reading[e] \in {"next", "read"} /\ at[e]["reader"] = "none" /\ open[e] /\ ~cut
      /\ UNCHANGED <<open, cut, app, cur, got>>
      /\ wire' = [wire EXCEPT ![Other(e)] = Tail(@)]
  BY DEF Take
<1>5. out[e]["reader"].op = "none"
  BY <1>1, <1>4 DEF IInv, SubmitInv
<1>6. Reads(e) /\ Live(Other(e))
  BY <1>1, <1>4, <1>5 DEF Reads, GivesUp, Live
<1>7. QED
  BY <1>1, <1>2, <1>3, <1>4, <1>6

\* The frame that e takes off the wire is not one of data.
LEMMA NoDataPipeInv ==
  ASSUME IInv, IInv', PipeInv, NEW e \in Ends, NEW f, f = Head(Incoming(e)), Incoming(e) # <<>>,
         Take(e, f), f.op \notin {"data", "cont"}, NotData(e),
         UNCHANGED writing \/ \E op \in {"pong", "close"} : Submit(e, "reader", Bare(op))
  PROVE  PipeInv' /\ UNCHANGED <<sent, got>>
<1>1. /\ f \in Frames /\ Reads(e) /\ reading[e] \in {"next", "read"} /\ at[e]["reader"] = "none"
      /\ Live(Other(e)) /\ UNCHANGED <<open, cut, app, cur, got>>
      /\ wire'[Other(e)] = Tail(wire[Other(e)]) /\ wire'[e] = wire[e]
  BY Taking
<1>2. /\ TypeOK /\ AppTypeOK' /\ WritingTypeOK /\ "reader" \in Goroutines
      /\ Other(e) \in Ends /\ Other(Other(e)) = e /\ Other(e) # e
  BY OtherEnd DEF IInv, TypeOK, Goroutines
<1>3. UNCHANGED <<reading, readFinal, unread, nth>>
  BY DEF NotData
<1>4. /\ UNCHANGED writeErr /\ out'[e]["reader"].op \notin {"data", "cont"}
      /\ \A d \in Ends, g \in Goroutines : d # e \/ g # "reader" =>
           at'[d][g] = at[d][g] /\ out'[d][g] = out[d][g]
  <2>1. CASE UNCHANGED writing
    BY <2>1 DEF writing, PipeInv, OutInv, OutOf
  <2>2. CASE \E op \in {"pong", "close"} : Submit(e, "reader", Bare(op))
    <3>1. PICK op \in {"pong", "close"} : Submit(e, "reader", Bare(op))
      BY <2>2
    <3>2. Bare(op) \in Frames /\ Bare(op).op = op
      BY DEF Bare, Frame, Frames, ControlOps
    <3>3. QED
      BY <1>2, <3>1, <3>2, Submitted
  <2>3. QED
    BY <2>1, <2>2
<1>5. ReaderMoves(e)
  BY <1>1, <1>3, <1>4 DEF ReaderMoves
<1>6. ReaderRests(e) /\ Grown(Other(e)) /\ WriterRests(Other(e))
  BY <1>1, <1>2, <1>3, <1>4, SentStays DEF ReaderRests, app, WriterRests, Goroutines
<1>7. HeldOf(e)'
  BY <1>2, <1>6, StillHeld DEF PipeInv, HeldInv
<1>8. ChainOf(Other(e))'
  <2>1. \A s \in Sights : After(s, f) = s
    BY DEF After
  <2>2. \A s \in Sights : Live(Other(e))' /\ Begins(Other(e), s) => Begins(Other(e), After(s, f))'
    BY <1>2, <1>6, <2>1, StillBegins
  <2>3. \A s \in Sights : AtEnd(Other(e), s) => AtEnd(Other(e), s)'
    BY <1>1, <1>2, <1>4, <1>6, StillAtEnd
  <2>4. ChainOf(Other(e)) /\ wire[Other(e)] # <<>> /\ f = Head(wire[Other(e)])
    BY <1>2 DEF PipeInv, ChainInv, Incoming
  <2>5. QED
    BY <1>1, <1>2, <1>6, <2>2, <2>3, <2>4, FewerSights
<1>9. QED
  BY <1>1, <1>5, <1>7, <1>8, ReaderMovesPipeInv

\* The reader gives up on the frame.
LEMMA GivingUpPipeInv ==
  ASSUME IInv, IInv', PipeInv, NEW e \in Ends, NEW f, f = Head(Incoming(e)), Incoming(e) # <<>>,
         Take(e, f), NEW op \in {"tooBig", "protocol"}, Submit(e, "reader", Bare(op)),
         UNCHANGED <<reading, unread>>, nth'[e] \in {nth[e], nth[e] + 1},
         \A d \in Ends : d # e => readFinal'[d] = readFinal[d] /\ nth'[d] = nth[d]
  PROVE  PipeInv' /\ UNCHANGED <<sent, got>>
<1>1. /\ reading[e] \in {"next", "read"} /\ UNCHANGED <<open, cut, app, cur, got>>
      /\ wire'[e] = wire[e]
  BY Taking
<1>2. /\ TypeOK /\ WritingTypeOK /\ "reader" \in Goroutines
      /\ Other(e) \in Ends /\ Other(Other(e)) = e /\ Other(e) # e
  BY OtherEnd DEF IInv, TypeOK, Goroutines
<1>3. Bare(op) \in Frames /\ Bare(op).op = op
  BY DEF Bare, Frame, Frames, ControlOps
<1>4. /\ UNCHANGED writeErr /\ out'[e]["reader"].op = op
      /\ \A d \in Ends, g \in Goroutines : d # e \/ g # "reader" =>
           at'[d][g] = at[d][g] /\ out'[d][g] = out[d][g]
  BY <1>2, <1>3, Submitted
<1>5. ReaderMoves(e)
  BY <1>1, <1>4 DEF ReaderMoves
<1>6. ~Reads(e)'
  BY <1>4 DEF Reads, GivesUp
<1>7. HeldOf(e)'
  <2>1. Pipe!LastGot(e)' = Pipe!LastGot(e) /\ Pipe!LastGot(e) \in Nat /\ nth[e] \in Nat
    BY <1>1, <1>2, LastGotType DEF Pipe!LastGot, TypeOK, ReaderTypeOK
  <2>2. HeldOf(e)
    BY DEF PipeInv, HeldInv
  <2>3. Pipe!LastGot(e) <= nth[e] /\ (reading[e] = "read" => Pipe!LastGot(e) < nth[e])
    BY <2>2 DEF HeldOf
  <2>4. nth'[e] \in Nat /\ nth[e] <= nth'[e]
    BY <2>1
  <2>5. Pipe!LastGot(e) <= nth'[e] /\ (reading[e] = "read" => Pipe!LastGot(e) < nth'[e])
    BY <2>1, <2>3, <2>4
  <2>6. QED
    BY <1>1, <1>6, <2>1, <2>2, <2>5 DEF HeldOf
<1>8. ChainOf(Other(e))'
  BY <1>2, <1>6 DEF ChainOf, Live
<1>9. QED
  BY <1>1, <1>5, <1>7, <1>8, ReaderMovesPipeInv

\* The reader is in the sight that its variables say, and a frame takes it to
\* the next one.
LEMMA NextSight ==
  ASSUME TypeOK, PipeInv, NEW e \in Ends, Live(e), wire[e] # <<>>, NEW f, f = Head(wire[e])
  PROVE  \E s \in Sights : Begins(e, s) /\ Whole(e, After(s, f))
<1> PICK n \in Nat : n = Len(wire[e])
  BY DEF TypeOK, NetTypeOK
<1>1. PICK st \in [1 .. n + 1 -> Sights] : Chain(e, st)
  BY DEF PipeInv, ChainInv, ChainOf
<1>2. wire[e] \in Seq(Frames) /\ n >= 1 /\ wire[e][1] = f
  BY EmptySeq, HeadTailProperties DEF TypeOK, NetTypeOK
<1>3. st[1] \in Sights /\ Begins(e, st[1]) /\ st[1 + 1] = After(st[1], f) /\ Whole(e, st[1 + 1])
  BY <1>1, <1>2 DEF Chain
<1>4. QED
  BY <1>3

\* The reader takes a frame of data in its turn.
LEMMA ReadDataPipeInv ==
  ASSUME IInv, IInv', PipeInv, NEW e \in Ends, NEW f, f = Head(Incoming(e)), Incoming(e) # <<>>,
         ReadData(e, f)
  PROVE  PipeInv' /\ UNCHANGED <<sent, got>>
<1>1. /\ Take(e, f) /\ f.op \in {"data", "cont"} /\ InOrder(e, f) /\ UNCHANGED writing
      /\ readFinal' = [readFinal EXCEPT ![e] = f.fin]
      /\ nth' = [nth EXCEPT ![e] = IF f.op = "data" THEN @ + 1 ELSE @]
  BY DEF ReadData, Data
<1>2. /\ f \in Frames /\ Reads(e) /\ reading[e] \in {"next", "read"}
      /\ Live(Other(e)) /\ UNCHANGED <<open, cut, app, cur, got>>
      /\ wire'[Other(e)] = Tail(wire[Other(e)]) /\ wire'[e] = wire[e]
  BY <1>1, Taking
<1>3. /\ TypeOK /\ AppTypeOK /\ AppTypeOK' /\ WritingTypeOK /\ "reader" \in Goroutines /\ HeldOf(e)
      /\ Other(e) \in Ends /\ Other(Other(e)) = e /\ Other(e) # e
  BY OtherEnd DEF IInv, TypeOK, Goroutines, PipeInv, HeldInv
<1>4. /\ readFinal[e] \in BOOLEAN /\ nth[e] \in Nat /\ cur[e] \in Seq(Unit) /\ unread[e] \in Seq(Unit)
      /\ f.data \in Seq(Unit) /\ f.fin \in BOOLEAN
  BY <1>2, <1>3 DEF TypeOK, ReaderTypeOK, Frames
<1>5. /\ readFinal'[e] = f.fin /\ nth'[e] = IF f.op = "data" THEN nth[e] + 1 ELSE nth[e]
      /\ \A d \in Ends : d # e => readFinal'[d] = readFinal[d] /\ nth'[d] = nth[d]
  BY <1>1, <1>3 DEF TypeOK, ReaderTypeOK
<1>6. IF reading[e] = "next" /\ f.op = "cont"
      THEN UNCHANGED <<reading, unread>>
      ELSE /\ reading'[e] = "held" /\ unread'[e] = f.data
           /\ \A d \in Ends : d # e => reading'[d] = reading[d] /\ unread'[d] = unread[d]
  BY <1>3 DEF ReadData, TypeOK, ReaderTypeOK
<1>7. ReaderMoves(e)
  BY <1>1, <1>2, <1>3, <1>5, <1>6 DEF ReaderMoves, writing, PipeInv, OutInv, OutOf
<1>8. f.op = "data" => readFinal[e] /\ cur[e] = <<>>
  BY <1>1, <1>2, <1>3 DEF InOrder, HeldOf
<1>9. f.op = "cont" => readFinal[e] = FALSE
  BY <1>1, <1>4 DEF InOrder
<1>10. ASSUME NEW s \in Sights, Begins(Other(e), s), NEW t, t = After(s, f)
       PROVE  /\ t.bad = FALSE /\ t.final = f.fin /\ t.nth = nth'[e]
              /\ reading'[e] = "held" => t.data = cur[e] \o f.data
  <2>1. s.bad = FALSE /\ s.final = readFinal[e] /\ s.nth = nth[e] /\ s.final \in BOOLEAN
    BY <1>3, <1>4, <1>10 DEF Begins, Sights
  <2>2. CASE f.op = "data"
    <3>1. t = [final |-> f.fin, nth |-> nth[e] + 1, data |-> f.data, bad |-> FALSE]
      BY <1>4, <1>8, <1>10, <2>1, <2>2 DEF After
    <3>2. cur[e] \o f.data = f.data
      BY <1>4, <1>8, <2>2, ConcatEmptySeq
    <3>3. QED
      BY <1>5, <2>2, <3>1, <3>2
  <2>3. CASE f.op = "cont"
    <3>1. t = [final |-> f.fin, nth |-> nth[e], data |-> s.data \o f.data, bad |-> FALSE]
      BY <1>4, <1>9, <1>10, <2>1, <2>3 DEF After
    <3>2. reading'[e] = "held" => s.data = cur[e]
      <4>1. SUFFICES ASSUME reading'[e] = "held" PROVE s.data = cur[e]
        OBVIOUS
      <4>2. reading[e] = "read"
        BY <1>2, <1>6, <2>3, <4>1
      <4>3. s.data = cur[e] \o unread[e] /\ unread[e] = <<>>
        BY <1>3, <1>10, <4>2 DEF Begins, HeldOf
      <4>4. QED
        BY <1>4, <4>3, ConcatEmptySeq
    <3>3. QED
      BY <1>5, <2>3, <3>1, <3>2
  <2>4. QED
    BY <1>1, <2>2, <2>3
<1>11. HeldOf(e)'
  <2>1. Pipe!LastGot(e)' = Pipe!LastGot(e) /\ Pipe!LastGot(e) \in Nat
    BY <1>2, <1>3, LastGotType DEF Pipe!LastGot
  <2>2. CASE reading[e] = "next" /\ f.op = "cont"
    <3>1. UNCHANGED <<reading, unread>> /\ nth'[e] = nth[e]
      BY <1>5, <1>6, <2>2
    <3>2. QED
      BY <1>2, <1>3, <2>1, <2>2, <3>1 DEF HeldOf
  <2>3. CASE ~(reading[e] = "next" /\ f.op = "cont")
    <3>1. reading'[e] = "held" /\ unread'[e] = f.data
      BY <1>6, <2>3
    <3>2. Pipe!LastGot(e) < nth'[e]
      BY <1>1, <1>2, <1>3, <1>4, <1>5, <2>1, <2>3 DEF HeldOf
    <3>3. f.fin => /\ nth'[e] \in 1 .. Len(sent[Other(e)])
                   /\ cur[e] \o f.data = sent[Other(e)][nth'[e]]
      <4>1. wire[Other(e)] # <<>> /\ f = Head(wire[Other(e)])
        BY DEF Incoming
      <4>2. PICK s \in Sights : Begins(Other(e), s) /\ Whole(Other(e), After(s, f))
        BY <1>2, <1>3, <4>1, NextSight
      <4>3. PICK t : t = After(s, f)
        OBVIOUS
      <4>4. /\ t.bad = FALSE /\ t.final = f.fin /\ t.nth = nth'[e]
            /\ t.data = cur[e] \o f.data
        BY <1>10, <3>1, <4>2, <4>3
      <4>5. nth'[e] \in Nat /\ nth'[e] > 0 /\ Len(sent[Other(e)]) \in Nat
        <5>1. sent[Other(e)] \in Seq(Seq(Unit))
          BY <1>3 DEF AppTypeOK
        <5>2. nth'[e] \in Nat
          BY <1>4, <1>5
        <5>3. QED
          BY <2>1, <3>2, <5>1, <5>2
      <4>6. f.fin => t.nth <= Len(sent[Other(e)]) /\ t.data = sent[Other(e)][t.nth]
        <5>1. Whole(Other(e), t)
          BY <4>2, <4>3
        <5>2. QED
          BY <4>4, <4>5, <5>1 DEF Whole
      <4>7. f.fin => nth'[e] <= Len(sent[Other(e)]) /\ cur[e] \o f.data = sent[Other(e)][nth'[e]]
        BY <4>4, <4>6
      <4>8. nth'[e] <= Len(sent[Other(e)]) => nth'[e] \in 1 .. Len(sent[Other(e)])
        BY <4>5
      <4>9. QED
        BY <4>7, <4>8
    <3>4. UNCHANGED <<sent, cur>>
      BY <1>2 DEF app
    <3>5. readFinal'[e] => /\ nth'[e] \in 1 .. Len(sent'[Other(e)])
                           /\ cur'[e] \o unread'[e] = sent'[Other(e)][nth'[e]]
      BY <1>5, <3>1, <3>3, <3>4
    <3>6. Pipe!LastGot(e)' < nth'[e] /\ Pipe!LastGot(e)' <= nth'[e]
      BY <1>4, <1>5, <2>1, <3>2
    <3>7. QED
      BY <3>1, <3>5, <3>6 DEF HeldOf
  <2>4. QED
    BY <2>2, <2>3
<1>12. ChainOf(Other(e))'
  <2>1. WriterRests(Other(e)) /\ Grown(Other(e)) /\ UNCHANGED <<open, writeErr>>
    BY <1>1, <1>2, <1>3, SentStays DEF writing, app, WriterRests
  <2>2. ASSUME NEW s \in Sights, Begins(Other(e), s)
        PROVE  Begins(Other(e), After(s, f))'
    <3>1. PICK t : t = After(s, f)
      OBVIOUS
    <3>2. ~t.bad /\ t.final = readFinal'[e] /\ t.nth = nth'[e]
      BY <1>5, <1>10, <2>2, <3>1
    <3>3. reading'[e] \in {"held", "read"} => t.data = cur'[e] \o unread'[e]
      BY <1>2, <1>6, <1>10, <2>2, <3>1
    <3>4. Begins(Other(e), t)'
      BY <1>3, <3>2, <3>3 DEF Begins
    <3>5. QED
      BY <3>1, <3>4
  <2>3. \A s \in Sights : AtEnd(Other(e), s) => AtEnd(Other(e), s)'
    BY <1>3, <2>1, StillAtEnd
  <2>4. ChainOf(Other(e)) /\ wire[Other(e)] # <<>> /\ f = Head(wire[Other(e)])
    BY <1>3 DEF PipeInv, ChainInv, Incoming
  <2>5. QED
    BY <1>2, <1>3, <2>1, <2>2, <2>3, <2>4, FewerSights
<1>13. QED
  BY <1>2, <1>7, <1>11, <1>12, ReaderMovesPipeInv

LEMMA ReadFramePipeInv ==
  ASSUME IInv, IInv', PipeInv, NEW e \in Ends, NEW f, f = Head(Incoming(e)), Incoming(e) # <<>>,
         ReadFrame(e, f)
  PROVE  PipeInv' /\ UNCHANGED <<sent, got>>
<1>1. ASSUME NEW op \in ControlOps, f.op = op PROVE f.op \notin {"data", "cont"}
  BY <1>1 DEF ControlOps
<1>2. /\ nth \in [Ends -> Nat] /\ readFinal \in [Ends -> BOOLEAN]
  BY DEF IInv, TypeOK, ReaderTypeOK
<1>3. CASE ReadPong(e, f)
  BY <1>3, NoDataPipeInv DEF ReadPong
<1>4. CASE ReadPing(e, f)
  BY <1>4, NoDataPipeInv DEF ReadPing
<1>5. CASE ReadClose(e, f)
  BY <1>5, NoDataPipeInv DEF ReadClose, IsClose
<1>6. CASE ReadBad(e, f)
  <2>1. /\ Take(e, f) /\ Submit(e, "reader", Bare("protocol"))
        /\ UNCHANGED <<reading, unread, nth>>
        /\ \A d \in Ends : d # e => readFinal'[d] = readFinal[d]
    BY <1>2, <1>6 DEF ReadBad
  <2>2. QED
    BY <2>1, GivingUpPipeInv
<1>7. CASE ReadTooLong(e, f)
  <2>1. /\ Take(e, f) /\ Submit(e, "reader", Bare("tooBig")) /\ UNCHANGED <<reading, unread>>
        /\ nth'[e] \in {nth[e], nth[e] + 1}
        /\ \A d \in Ends : d # e => readFinal'[d] = readFinal[d] /\ nth'[d] = nth[d]
    BY <1>2, <1>7 DEF ReadTooLong, Data
  <2>2. QED
    BY <2>1, GivingUpPipeInv
<1>8. CASE ReadData(e, f)
  BY <1>8, ReadDataPipeInv
<1>9. QED
  BY <1>3, <1>4, <1>5, <1>6, <1>7, <1>8 DEF ReadFrame

\* The reader goes on in the frame it holds, or leaves the message, and the
\* frames that come to it stay.
LEMMA GoingOnPipeInv ==
  ASSUME IInv, IInv', PipeInv, NEW e \in Ends, ReaderMoves(e), UNCHANGED <<wire, out, readFinal, nth>>,
         reading[e] # "done",
         reading'[e] = "read" => reading[e] = "held" /\ cur'[e] \o unread'[e] = cur[e] \o unread[e],
         reading'[e] \in {"next", "read"}, HeldOf(e)'
  PROVE  PipeInv' /\ UNCHANGED sent
<1>1. /\ TypeOK /\ AppTypeOK' /\ Goroutines = {"writer", "reader", "control"}
      /\ Other(e) \in Ends /\ Other(Other(e)) = e /\ Other(e) # e
  BY OtherEnd DEF IInv, TypeOK, Goroutines
<1>2. /\ ChainOf(Other(e)) /\ UNCHANGED <<open, cut, writeErr>> /\ wire'[Other(e)] = wire[Other(e)]
  BY <1>1 DEF ReaderMoves, PipeInv, ChainInv
<1>3. WriterRests(Other(e)) /\ Grown(Other(e))
  BY <1>1, SentStays DEF ReaderMoves, WriterRests, app
<1>4. Live(Other(e))' => Live(Other(e))
  BY <1>1, <1>2 DEF Live, Reads, GivesUp
<1>5. \A s \in Sights : Begins(Other(e), s) => Begins(Other(e), s)'
  BY <1>1 DEF Begins
<1>6. \A s \in Sights : AtEnd(Other(e), s) => AtEnd(Other(e), s)'
  BY <1>1, <1>2, <1>3, StillAtEnd
<1>7. ChainOf(Other(e))'
  BY <1>1, <1>2, <1>3, <1>4, <1>5, <1>6, SameSights
<1>8. QED
  BY <1>7, ReaderMovesPipeInv

LEMMA LastGotOfMore ==
  ASSUME TypeOK, NEW e \in Ends, NEW n \in Nat, NEW m \in Seq(Unit),
         got' = [got EXCEPT ![e] = Append(@, <<n, m>>)]
  PROVE  Pipe!LastGot(e)' = n
<1>1. got \in [Ends -> Seq(Nat \X Seq(Unit))] /\ <<n, m>> \in Nat \X Seq(Unit)
  BY DEF TypeOK, ReaderTypeOK
<1>2. got'[e] = Append(got[e], <<n, m>>) /\ got[e] \in Seq(Nat \X Seq(Unit))
  BY <1>1
<1>3. Len(got'[e]) = Len(got[e]) + 1 /\ got'[e][Len(got[e]) + 1] = <<n, m>> /\ got'[e] # <<>>
  BY <1>1, <1>2, AppendProperties
<1>4. QED
  BY <1>3 DEF Pipe!LastGot

LEMMA ReadPayloadPipeInv ==
  ASSUME IInv, IInv', PipeInv, NEW e \in Ends, ReadPayload(e)
  PROVE  PipeInv' /\ UNCHANGED sent /\ (UNCHANGED got \/ Pipe!Deliver(e))
<1> PICK all : all = cur[e] \o unread[e]
  OBVIOUS
<1>1. /\ reading[e] = "held" /\ unread' = [unread EXCEPT ![e] = <<>>]
      /\ UNCHANGED <<wire, open, cut, writing, app, readFinal, nth>>
      /\ UNCHANGED <<at, out, writeErr>>
  BY DEF ReadPayload, writing
<1>2. /\ TypeOK /\ AppTypeOK /\ HeldOf(e)
      /\ cur \in [Ends -> Seq(Unit)] /\ unread \in [Ends -> Seq(Unit)] /\ nth \in [Ends -> Nat]
      /\ reading \in [Ends -> {"next", "read", "held", "done"}] /\ got \in [Ends -> Seq(Nat \X Seq(Unit))]
  BY DEF IInv, TypeOK, ReaderTypeOK, PipeInv, HeldInv
<1>3. all \in Seq(Unit) /\ all \o <<>> = all
  <2>1. all \in Seq(Unit)
    BY <1>2
  <2>2. QED
    BY <2>1, ConcatEmptySeq
<1>4. unread'[e] = <<>> /\ \A d \in Ends : d # e => unread'[d] = unread[d]
  BY <1>1, <1>2
<1>5. \A g \in Goroutines : out'[e][g] = out[e][g]
  BY <1>1
<1>6. out[e]["reader"].op \notin {"data", "cont"}
  BY DEF PipeInv, OutInv, OutOf
<1>7. Pipe!LastGot(e) \in Nat /\ Pipe!LastGot(e) < nth[e] /\ nth[e] \in Nat
  BY <1>1, <1>2, LastGotType DEF HeldOf
<1>8. CASE readFinal[e]
  <2>1. /\ got' = [got EXCEPT ![e] = Append(@, <<nth[e], all>>)]
        /\ reading' = [reading EXCEPT ![e] = "next"] /\ cur' = [cur EXCEPT ![e] = <<>>]
    BY <1>8 DEF ReadPayload, NextReader
  <2>2. reading'[e] = "next" /\ cur'[e] = <<>>
    BY <1>2, <2>1
  <2>3. ReaderMoves(e)
    BY <1>1, <1>2, <1>4, <1>6, <2>1 DEF ReaderMoves
  <2>4. Pipe!LastGot(e)' = nth[e]
    BY <1>2, <1>3, <1>7, <2>1, LastGotOfMore
  <2>5. HeldOf(e)'
    BY <1>1, <1>4, <1>7, <2>2, <2>4 DEF HeldOf
  <2>6. PipeInv' /\ UNCHANGED sent
    BY <1>1, <2>2, <2>3, <2>5, GoingOnPipeInv
  <2>7. nth[e] \in 1 .. Len(sent[Other(e)]) /\ all = sent[Other(e)][nth[e]]
    BY <1>1, <1>2, <1>8 DEF HeldOf
  <2>8. nth[e] \in Pipe!LastGot(e) + 1 .. Len(sent[Other(e)])
    <3>1. Len(sent[Other(e)]) \in Nat
      BY <1>2, OtherEnd DEF AppTypeOK
    <3>2. QED
      BY <1>7, <2>7, <3>1
  <2>9. Pipe!Deliver(e)
    BY <2>1, <2>6, <2>7, <2>8 DEF Pipe!Deliver
  <2>10. QED
    BY <2>6, <2>9
<1>9. CASE ~readFinal[e]
  <2>1. /\ cur' = [cur EXCEPT ![e] = all] /\ reading' = [reading EXCEPT ![e] = "read"]
        /\ UNCHANGED got
    BY <1>9 DEF ReadPayload
  <2>2. reading'[e] = "read" /\ cur'[e] = all
    BY <1>2, <2>1
  <2>3. ReaderMoves(e)
    BY <1>1, <1>2, <1>4, <1>6, <2>1 DEF ReaderMoves
  <2>4. Pipe!LastGot(e)' = Pipe!LastGot(e)
    BY <2>1 DEF Pipe!LastGot
  <2>5. HeldOf(e)'
    BY <1>1, <1>4, <1>7, <1>9, <2>2, <2>4 DEF HeldOf
  <2>6. cur'[e] \o unread'[e] = cur[e] \o unread[e]
    BY <1>3, <1>4, <2>2
  <2>7. QED
    BY <1>1, <2>1, <2>2, <2>3, <2>5, <2>6, GoingOnPipeInv
<1>10. QED
  BY <1>8, <1>9

LEMMA AbandonPipeInv ==
  ASSUME IInv, IInv', PipeInv, NEW e \in Ends, Abandon(e)
  PROVE  PipeInv' /\ UNCHANGED <<sent, got>>
<1>1. /\ reading[e] \in {"held", "read"} /\ unread' = [unread EXCEPT ![e] = <<>>]
      /\ reading' = [reading EXCEPT ![e] = "next"] /\ cur' = [cur EXCEPT ![e] = <<>>]
      /\ UNCHANGED <<wire, open, cut, writing, app, readFinal, nth, got>>
      /\ UNCHANGED <<at, out, writeErr>>
  BY DEF Abandon, NextReader, writing
<1>2. /\ TypeOK /\ HeldOf(e)
      /\ cur \in [Ends -> Seq(Unit)] /\ unread \in [Ends -> Seq(Unit)]
      /\ reading \in [Ends -> {"next", "read", "held", "done"}]
  BY DEF IInv, TypeOK, ReaderTypeOK, PipeInv, HeldInv
<1>3. /\ reading'[e] = "next" /\ cur'[e] = <<>> /\ unread'[e] = <<>>
      /\ \A d \in Ends : d # e => reading'[d] = reading[d] /\ cur'[d] = cur[d] /\ unread'[d] = unread[d]
  BY <1>1, <1>2
<1>4. out[e]["reader"].op \notin {"data", "cont"}
  BY DEF PipeInv, OutInv, OutOf
<1>5. ReaderMoves(e)
  BY <1>1, <1>3, <1>4 DEF ReaderMoves
<1>6. Pipe!LastGot(e)' = Pipe!LastGot(e) /\ Pipe!LastGot(e) <= nth[e]
  BY <1>1, <1>2 DEF Pipe!LastGot, HeldOf
<1>7. HeldOf(e)'
  BY <1>1, <1>3, <1>6 DEF HeldOf
<1>8. QED
  BY <1>1, <1>3, <1>5, <1>7, GoingOnPipeInv

LEMMA ReadFailsPipeInv ==
  ASSUME IInv, IInv', PipeInv, NEW e \in Ends, ReadFails(e)
  PROVE  PipeInv' /\ UNCHANGED <<sent, got>>
<1>1. /\ UNCHANGED <<wire, open, cut, writing, app, readFinal, cur, unread, nth, got>>
      /\ UNCHANGED <<at, out, writeErr>> /\ reading' = [reading EXCEPT ![e] = "done"]
  BY DEF ReadFails, writing
<1>2. TypeOK /\ \A d \in Ends : reading'[d] \in {reading[d], "done"}
  <2>1. TypeOK
    BY DEF IInv
  <2>2. reading \in [Ends -> {"next", "read", "held", "done"}]
    BY <2>1 DEF TypeOK, ReaderTypeOK
  <2>3. QED
    BY <1>1, <2>1, <2>2
<1>3. ASSUME NEW d \in Ends PROVE ReaderRests(d) /\ Grown(d) /\ OutOf(d)' /\ WireMoves(d)
  <2>1. ReaderRests(d) /\ WriterRests(d) /\ Grown(d)
    BY <1>1, <1>2, SentStays DEF ReaderRests, Reads, GivesUp, WriterRests, app
  <2>2. OutOf(d)'
    <3>1. OutOf(d) /\ {out'[d]["reader"].op, out'[d]["control"].op} \cap {"data", "cont"} = {}
      BY <1>1 DEF PipeInv, OutInv, OutOf
    <3>2. QED
      BY <2>1, <3>1, StillOut
  <2>3. QED
    BY <1>1, <2>1, <2>2, StillAtEnd DEF WireMoves
<1>4. QED
  BY <1>1, <1>3, StepPipeInv DEF app
-----------------------------------------------------------------------------
(* The end of the connection. *)

LEMMA EndPipeInv ==
  ASSUME IInv, IInv', PipeInv, UNCHANGED <<writing, app, reader>>, cut => cut',
         \A d \in Ends : WireMoves(d) /\ (open'[d] => open[d])
  PROVE  PipeInv' /\ UNCHANGED <<sent, got>>
<1>1. TypeOK
  BY DEF IInv
<1>2. ASSUME NEW d \in Ends PROVE ReaderRests(d) /\ Grown(d) /\ OutOf(d)'
  <2>1. ReaderRests(d) /\ WriterRests(d) /\ Grown(d)
    BY <1>1, SentStays DEF reader, writing, app, ReaderRests, Reads, GivesUp, WriterRests
  <2>2. OutOf(d) /\ {out'[d]["reader"].op, out'[d]["control"].op} \cap {"data", "cont"} = {}
    BY DEF PipeInv, OutInv, OutOf, writing
  <2>3. QED
    BY <2>1, <2>2, StillOut
<1>3. QED
  BY <1>2, StepPipeInv DEF app, reader

LEMMA ClosePipeInv ==
  ASSUME IInv, IInv', PipeInv, NEW e \in Ends, Close(e)
  PROVE  PipeInv' /\ UNCHANGED <<sent, got>>
<1>1. /\ open' = [open EXCEPT ![e] = FALSE] /\ UNCHANGED <<cut, writing, app, reader>>
      /\ wire' \in {[wire EXCEPT ![Other(e)] = <<>>],
                    IF Incoming(e) = <<>> THEN wire ELSE [f \in Ends |-> <<>>]}
  BY DEF Close
<1>2. /\ Other(e) \in Ends /\ Other(Other(e)) = e /\ Other(e) # e /\ Ends = {e, Other(e)}
      /\ wire \in [Ends -> Seq(Frames)] /\ open \in [Ends -> BOOLEAN]
  BY OtherEnd DEF IInv, TypeOK, NetTypeOK
<1>3. ~open'[e] /\ \A d \in Ends : open'[d] => open[d]
  BY <1>1, <1>2
<1>4. WireMoves(Other(e))
  BY <1>2, <1>3 DEF WireMoves, Live
<1>5. WireMoves(e)
  <2>1. wire'[e] \in {wire[e], <<>>}
    BY <1>1, <1>2
  <2>2. \A s \in Sights : AtEnd(e, s)'
    BY <1>3 DEF AtEnd
  <2>3. QED
    BY <1>3, <2>1, <2>2 DEF WireMoves
<1>6. QED
  BY <1>1, <1>2, <1>3, <1>4, <1>5, EndPipeInv

LEMMA BreakPipeInv ==
  ASSUME IInv, IInv', PipeInv, Break
  PROVE  PipeInv' /\ UNCHANGED <<sent, got>>
BY EndPipeInv DEF Break, WireMoves, Live
-----------------------------------------------------------------------------
LEMMA InitPipeInv == Init => PipeInv
<1> SUFFICES ASSUME Init PROVE PipeInv
  OBVIOUS
<1>1. ASSUME NEW e \in Ends PROVE OutOf(e)
  BY <1>1 DEF Init, OutOf, Goroutines, Bare, Frame, NoCall
<1>2. ASSUME NEW e \in Ends PROVE HeldOf(e)
  BY <1>2 DEF Init, HeldOf, Pipe!LastGot
<1>3. ASSUME NEW e \in Ends PROVE ChainOf(e)
  <2>1. Other(e) \in Ends
    BY OtherEnd
  <2>2. /\ wire[e] = <<>> /\ Len(wire[e]) = 0 /\ sent[e] = <<>> /\ Len(sent[e]) = 0
        /\ writer[e].open = FALSE /\ readFinal[Other(e)] = TRUE /\ nth[Other(e)] = 0
        /\ reading[Other(e)] = "next"
    BY <2>1 DEF Init, NoWriter
  <2> DEFINE s == [final |-> TRUE, nth |-> 0, data |-> <<>>, bad |-> FALSE]
  <2>3. PICK st \in [1 .. 1 -> Sights] : st[1] = s
    <3>1. <<>> \in Seq(Unit)
      OBVIOUS
    <3>2. s \in Sights
      BY <3>1 DEF Sights
    <3>3. [i \in 1 .. 1 |-> s] \in [1 .. 1 -> Sights] /\ [i \in 1 .. 1 |-> s][1] = s
      BY <3>2
    <3>4. QED
      BY <3>3
  <2>4. st[1].final = TRUE /\ st[1].nth = 0 /\ st[1].bad = FALSE
    BY <2>3
  <2>5. Begins(e, st[1])
    BY <2>2, <2>4 DEF Begins
  <2>6. Whole(e, st[1])
    BY <2>4 DEF Whole
  <2>7. BetweenMessages(e, st[1])
    BY <2>2, <2>4 DEF BetweenMessages
  <2>8. Begins(e, st[1]) /\ Whole(e, st[1]) /\ AtEnd(e, st[1])
    BY <2>2, <2>5, <2>6, <2>7 DEF AtEnd
  <2> HIDE DEF s
  <2>9. Chain(e, st)
    BY <2>2, <2>8 DEF Chain
  <2>10. QED
    BY <2>2, <2>9 DEF ChainOf
<1>4. QED
  BY <1>1, <1>2, <1>3 DEF PipeInv, OutInv, HeldInv, ChainInv

LEMMA WritePipeInv ==
  ASSUME IInv, IInv', PipeInv, NEW e \in Ends, NEW g \in Goroutines, Write(e, g)
  PROVE  PipeInv' /\ UNCHANGED got /\ (UNCHANGED sent \/ Pipe!Send(e))
BY AcquirePipeInv, GiveUpPipeInv, RefusePipeInv, WriteFramePipeInv, WriteFailsPipeInv DEF Write

\* Each step keeps the invariant and is a step of MessagePipe or none of its.
LEMMA NextPipeInv ==
  ASSUME IInv, IInv', PipeInv, [Next]_vars
  PROVE  PipeInv' /\ [Pipe!PipeNext]_<<sent, got>>
<1>1. CASE UNCHANGED vars
  <2>1. /\ UNCHANGED <<wire, open, cut, writing, app, reader>>
        /\ \A d \in Ends : UNCHANGED <<at[d]["writer"], out[d]["writer"], call[d], writer[d], sent[d]>>
    BY <1>1 DEF vars, writing, app
  <2>2. ASSUME NEW d \in Ends PROVE WireMoves(d)
    BY <2>1, StillAtEnd DEF WireMoves, WriterRests, writing
  <2>3. QED
    BY <2>1, <2>2, EndPipeInv
<1>2. CASE Break
  BY <1>2, BreakPipeInv
<1>3. ASSUME NEW e \in Ends, Calls(e) PROVE PipeInv' /\ UNCHANGED <<sent, got>>
  <2>1. CASE StartMessage(e, "NextWriter", 0) \/ StartMessage(e, "WriteClose", 0)
    BY <2>1, StartMessageMoves, WriterMovesPipeInv
  <2>2. ASSUME NEW n \in Lengths \cap (1 .. load.size),
               StartMessage(e, "WriteMessage", n) \/ WritePrepared(e, n) \/ CallWrite(e, n)
        PROVE  PipeInv' /\ UNCHANGED <<sent, got>>
    <3>1. n \in Nat
      BY WsConnAssumption
    <3>2. QED
      BY <2>2, <3>1, StartMessageMoves, WritePreparedMoves, CallWriteMoves, WriterMovesPipeInv
  <2>3. CASE CloseWriter(e)
    BY <2>3, CloseWriterMoves, WriterMovesPipeInv
  <2>4. ASSUME NEW op \in {"ping", "close"} \cap load.ops, CallControl(e, op)
        PROVE  PipeInv' /\ UNCHANGED <<sent, got>>
    BY <2>4, CallControlPipeInv
  <2>5. QED
    BY <1>3, <2>1, <2>2, <2>3, <2>4 DEF Calls
<1>4. ASSUME NEW e \in Ends, Step(e) PROVE PipeInv' /\ [Pipe!PipeNext]_<<sent, got>>
  <2>1. CASE BeginMessage(e) \/ Copy(e)
    BY <2>1, BeginMessageMoves, CopyMoves, WriterMovesPipeInv
  <2>2. ASSUME NEW g \in Goroutines, Write(e, g) PROVE PipeInv' /\ [Pipe!PipeNext]_<<sent, got>>
    BY <2>2, WritePipeInv DEF Pipe!PipeNext
  <2>3. CASE Incoming(e) # <<>> /\ ReadFrame(e, Head(Incoming(e)))
    BY <2>3, ReadFramePipeInv
  <2>4. CASE ReadPayload(e)
    BY <2>4, ReadPayloadPipeInv DEF Pipe!PipeNext
  <2>5. CASE ReadFails(e)
    BY <2>5, ReadFailsPipeInv
  <2>6. CASE Close(e)
    BY <2>6, ClosePipeInv
  <2>7. QED
    BY <1>4, <2>1, <2>2, <2>3, <2>4, <2>5, <2>6
       DEF Step, WriterStep, ReaderStep, ControlStep, Read, Goroutines
<1>5. ASSUME NEW e \in Ends, Abandon(e) \/ Close(e) PROVE PipeInv' /\ UNCHANGED <<sent, got>>
  BY <1>5, AbandonPipeInv, ClosePipeInv
<1>6. QED
  BY <1>1, <1>2, <1>3, <1>4, <1>5 DEF Next

\* The invariant of the sights holds in every state.
THEOREM SightsHold == Spec => []PipeInv
<1>1. Init => PipeInv
  BY InitPipeInv
<1>2. IInv /\ IInv' /\ PipeInv /\ [Next]_vars => PipeInv'
  BY NextPipeInv
<1>3. QED
  BY Invariance, <1>1, <1>2, PTL DEF Spec

\* The connection is a MessagePipe (conn.go: flushFrame, write, advanceFrame,
\* messageReader.Read; prepared.go): whatever the goroutines of the two ends do,
\* and wherever the connection breaks, what an application gets are messages the
\* other one has completed, whole, in their order and each at most once.
THEOREM ImplementsPipe == Spec => IsPipe
<1>1. Init => Pipe!PipeInit
  BY DEF Init, Pipe!PipeInit
<1>2. IInv /\ IInv' /\ PipeInv /\ [Next]_vars => [Pipe!PipeNext]_<<sent, got>>
  BY NextPipeInv
<1>3. QED
  BY Invariance, SightsHold, <1>1, <1>2, PTL DEF Spec, IsPipe, Pipe!PipeSpec
=============================================================================
