------------------------------- MODULE WsConn -------------------------------
(***************************************************************************)
(* websocket/conn.go: the two ends of a connection.  At each end one       *)
(* goroutine writes messages, one reads them and answers control frames,   *)
(* and a third calls WriteControl, which is what doc.go allows at the same *)
(* time.  c.mu lets one of them write at a time, and c.writeErr stops all  *)
(* of them for good.                                                       *)
(*                                                                         *)
(* A message is a sequence of units <<number, position>>, so that a unit   *)
(* that is lost, doubled or put into another message shows.  Masks and     *)
(* compression are left out, as is c.isWriting, which only reports writers *)
(* doc.go forbids.                                                         *)
(***************************************************************************)
EXTENDS Integers, Sequences

CONSTANTS Ends,         \* the two ends of the connection
          Server,       \* the one of them that is the server
          Buffers,      \* the buffers of c.writePool, which both ends share
          Nobody,       \* no buffer
          BufSize,      \* units in a buffer
          WireSize,     \* frames the network holds in each direction
          ReadLimit,    \* c.readLimit, in units
          Lengths,      \* bound: units that one Write or WriteMessage is given
          Loads         \* bounds: what the applications do, see load

ASSUME WsConnAssumption == /\ Server \in Ends
                           /\ \E client \in Ends \ {Server} : Ends = {Server, client}
                           /\ Nobody \notin Buffers
                           /\ {BufSize, WireSize, ReadLimit} \cup Lengths \subseteq Nat \ {0}

Other(e) == CHOOSE f \in Ends : f # e
Goroutines == {"writer", "reader", "control"}

VARIABLES
  wire,        \* wire[e]: the frames on their way from e to the other end
  open,        \* open[e]: e has not closed its net.Conn
  cut,         \* the network has failed
  mu,          \* c.mu: who holds it
  writeErr,    \* c.writeErr: "none", "closeSent" or "failed"
  at,          \* at[e][g]: a write of a frame "waits" for mu, "holds" it, or there is "none"
  out,         \* out[e][g]: that frame
  call,        \* call[e]: what the application's writing goroutine is in
  writer,      \* writer[e]: the open messageWriter
  buf,         \* c.writeBuf
  pool,        \* c.writePool
  reading,     \* reading[e]: where the reader is
  readFinal, readLength, readErr,
  cur,         \* cur[e]: what has been read of the current message
  unread,      \* unread[e]: the payload of the current frame
  nth,         \* nth[e]: the messages whose first frame has been read
  size,        \* history: units of that message in the frames seen so far
  begun,       \* begun[e]: the messages begun
  controls,    \* controls[e]: the calls of WriteControl
  load,        \* bounds: messages and calls of WriteControl of each end, the calls
               \* that write messages, the units of a message, and whether the
               \* connection may fail or be closed at any time
  sent, got    \* history: as in MessagePipe

writing == <<mu, writeErr, at, out>>
app == <<call, writer, buf, pool, begun, sent>>
reader == <<reading, readFinal, readLength, readErr, cur, unread, nth, size, got>>
vars == <<wire, open, cut, writing, app, reader, controls, load>>

Frame(op, fin, data) == [op |-> op, fin |-> fin, data |-> data]
Bare(op) == Frame(op, TRUE, <<>>)
ControlOps == {"ping", "pong", "close", "tooBig", "protocol"}
IsClose(op) == op \in {"close", "tooBig", "protocol"}

\* The units from..to of the message that e is writing, or writes next.
Units(e, from, to) == [k \in 1 .. to - from + 1 |-> <<Len(sent[e]) + 1, from + k - 1>>]

NoCall == [op |-> "none", left |-> 0]
NoWriter == [open |-> FALSE, op |-> "data", pos |-> <<>>, count |-> 0]
NewWriter(n) == [open |-> TRUE, op |-> "data", pos |-> <<>>, count |-> n]

Init == /\ wire = [e \in Ends |-> <<>>]
        /\ open = [e \in Ends |-> TRUE] /\ cut = FALSE
        /\ mu = [e \in Ends |-> "free"] /\ writeErr = [e \in Ends |-> "none"]
        /\ at = [e \in Ends |-> [g \in Goroutines |-> "none"]]
        /\ out = [e \in Ends |-> [g \in Goroutines |-> Bare("none")]]
        /\ call = [e \in Ends |-> NoCall]
        /\ writer = [e \in Ends |-> NoWriter]
        /\ buf = [e \in Ends |-> Nobody] /\ pool = {}
        /\ reading = [e \in Ends |-> "next"]
        /\ readFinal = [e \in Ends |-> TRUE]
        /\ readLength = [e \in Ends |-> 0]
        /\ readErr = [e \in Ends |-> "none"]
        /\ cur = [e \in Ends |-> <<>>] /\ unread = [e \in Ends |-> <<>>]
        /\ nth = [e \in Ends |-> 0] /\ size = [e \in Ends |-> 0]
        /\ begun = [e \in Ends |-> 0] /\ controls = [e \in Ends |-> 0]
        /\ sent = [e \in Ends |-> <<>>] /\ got = [e \in Ends |-> <<>>]
        /\ load \in Loads

-----------------------------------------------------------------------------
(* What the callers of write and WriteControl do with the answer. *)

\* endMessage: the writer is closed, and its buffer goes back to the pool.
\* Mutant: the buffer stays with the writer.
PutAndKeep(e) == pool' = pool \cup {buf[e]} /\ UNCHANGED buf
PutBuffer(e) == /\ pool' = pool \cup {buf[e]}
                /\ buf' = [buf EXCEPT ![e] = Nobody]

EndMessage(e) == /\ writer' = [writer EXCEPT ![e] = NoWriter]
                 /\ PutBuffer(e)

\* flushFrame after c.write: the message ends with its last frame or with an
\* error; otherwise the next frame is a continuation.
\* A call goes on: the one that closed another's writer, and a Write that has
\* more to copy.
GoesOn(e, ok) == \/ call[e].op \in {"NextWriter", "WriteMessage", "WriteClose"}
                 \/ call[e].op = "Write" /\ call[e].left > 0 /\ ok

SetUpNextFrame(e) == writer' = [writer EXCEPT ![e].pos = <<>>, ![e].op = "cont"]

AfterFlush(e, ok) ==
  LET fin == out[e]["writer"].fin IN
  /\ IF ok /\ ~fin
     THEN SetUpNextFrame(e) /\ UNCHANGED <<buf, pool>>
     ELSE EndMessage(e)
  /\ sent' = IF ok /\ fin /\ ~IsClose(out[e]["writer"].op)
             THEN [sent EXCEPT ![e] = Append(@, Units(e, 1, writer[e].count))]
             ELSE sent
  /\ call' = IF GoesOn(e, ok) THEN call ELSE [call EXCEPT ![e] = NoCall]

\* WritePreparedMessage has no messageWriter.
AfterPrepared(e, ok) ==
  /\ sent' = IF ok THEN [sent EXCEPT ![e] = Append(@, out[e]["writer"].data)] ELSE sent
  /\ call' = [call EXCEPT ![e] = NoCall]
  /\ UNCHANGED <<writer, buf, pool>>

WriterReturns(e, res) ==
  /\ IF call[e].op = "Prepared" THEN AfterPrepared(e, res = "ok") ELSE AfterFlush(e, res = "ok")
  /\ UNCHANGED <<begun, reader>>

\* The default ping handler goes on unless writing has failed; the reader ends
\* with the error it wrote a close frame for, whatever became of the frame.
ReaderReturns(e, res) ==
  LET op == out[e]["reader"].op
      err == IF op = "pong" THEN IF res = "failed" THEN "failed" ELSE "none" ELSE op IN
  /\ readErr' = [readErr EXCEPT ![e] = err]
  /\ reading' = IF err = "none" THEN reading ELSE [reading EXCEPT ![e] = "done"]
  /\ UNCHANGED <<app, readFinal, readLength, cur, unread, nth, size, got>>

Returns(e, g, res) == CASE g = "writer" -> WriterReturns(e, res)
                        [] g = "reader" -> ReaderReturns(e, res)
                        [] g = "control" -> UNCHANGED <<app, reader>>

-----------------------------------------------------------------------------
(* write and WriteControl: the mutex, the error that stays, the network. *)

Submit(e, g, f) == /\ at[e][g] = "none"
                   /\ at' = [at EXCEPT ![e][g] = "waits"]
                   /\ out' = [out EXCEPT ![e][g] = f]
                   /\ UNCHANGED <<mu, writeErr>>

Acquire(e, g) == /\ at[e][g] = "waits" /\ mu[e] = "free"
                 /\ mu' = [mu EXCEPT ![e] = g]
                 /\ at' = [at EXCEPT ![e][g] = "holds"]
                 /\ UNCHANGED <<wire, open, cut, writeErr, out, app, reader, controls, load>>

\* WriteControl at its deadline.
\* Mutant: there is no deadline.
GiveUpNever(e, g) == FALSE
GiveUp(e, g) == /\ g # "writer" /\ at[e][g] = "waits"
                /\ at' = [at EXCEPT ![e][g] = "none"]
                /\ out' = [out EXCEPT ![e][g] = Bare("none")]
                /\ Returns(e, g, "timeout")
                /\ UNCHANGED <<wire, open, cut, mu, writeErr, controls, load>>

Release(e, g) == /\ at[e][g] = "holds"
                 /\ mu' = [mu EXCEPT ![e] = "free"]
                 /\ at' = [at EXCEPT ![e][g] = "none"]
                 /\ out' = [out EXCEPT ![e][g] = Bare("none")]

Refuse(e, g) == /\ writeErr[e] # "none"
                /\ Release(e, g)
                /\ Returns(e, g, writeErr[e])
                /\ UNCHANGED <<wire, open, cut, writeErr, controls, load>>

\* Bytes for an end that has closed are thrown away.
Carry(e, f) == wire' = IF open[Other(e)] THEN [wire EXCEPT ![e] = Append(@, f)] ELSE wire

\* Mutant: a close frame leaves no error.
MarkNothing(e, f) == UNCHANGED writeErr
MarkClose(e, f) == writeErr' = IF IsClose(f.op) THEN [writeErr EXCEPT ![e] = "closeSent"]
                                                ELSE writeErr

WriteFrame(e, g) == /\ writeErr[e] = "none" /\ open[e] /\ ~cut
                    /\ open[Other(e)] => Len(wire[e]) < WireSize
                    /\ Release(e, g)
                    /\ Carry(e, out[e][g])
                    /\ MarkClose(e, out[e][g])
                    /\ Returns(e, g, "ok")
                    /\ UNCHANGED <<open, cut, controls, load>>

\* conn.Write fails: the connection has gone, or the deadline WriteControl has
\* set passes.  Part of the frame may be on its way.
WriteFails(e, g) == /\ writeErr[e] = "none"
                    /\ \/ ~open[e] \/ ~open[Other(e)] \/ cut
                       \/ g # "writer"
                    /\ Release(e, g)
                    /\ writeErr' = [writeErr EXCEPT ![e] = "failed"]
                    /\ IF open[e] /\ ~cut THEN UNCHANGED wire \/ Carry(e, Bare("torn"))
                                          ELSE UNCHANGED wire
                    /\ Returns(e, g, "failed")
                    /\ UNCHANGED <<open, cut, controls, load>>

Write(e, g) == Acquire(e, g) \/ GiveUp(e, g) \/ Refuse(e, g) \/ WriteFrame(e, g) \/ WriteFails(e, g)

-----------------------------------------------------------------------------
(* The writing goroutine: NextWriter, Write, Close, WriteMessage,           *)
(* WritePreparedMessage.                                                    *)

\* Mutant: what is still in the buffer is lost.
LastFrameEmpty(e) == Frame(writer[e].op, TRUE, <<>>)
LastFrame(e) == Frame(writer[e].op, TRUE, writer[e].pos)

Idle(e) == call[e] = NoCall /\ at[e]["writer"] = "none"

\* The first thing beginMessage does is to close a writer that is still open.
StartMessage(e, op, n) ==
  /\ Idle(e) /\ begun[e] < load.messages[e] /\ op \in load.ops
  /\ begun' = [begun EXCEPT ![e] = @ + 1]
  /\ call' = [call EXCEPT ![e] = [op |-> op, left |-> n]]
  /\ IF writer[e].open THEN Submit(e, "writer", LastFrame(e)) ELSE UNCHANGED writing
  /\ UNCHANGED <<wire, open, cut, writer, buf, pool, sent, reader, controls, load>>

GetBuffer(e) == \E b \in Buffers :
                  /\ b \in pool \/ \A f \in Ends : buf[f] # b
                  /\ buf' = [buf EXCEPT ![e] = b]
                  /\ pool' = pool \ {b}

\* The rest of beginMessage, with what NextWriter and WriteMessage do next.
BeginMessage(e) ==
  /\ call[e].op \in {"NextWriter", "WriteMessage", "WriteClose"}
  /\ at[e]["writer"] = "none"
  /\ IF writeErr[e] # "none"
     THEN /\ call' = [call EXCEPT ![e] = NoCall]
          /\ UNCHANGED <<writer, buf, pool, writing>>
     ELSE /\ GetBuffer(e)
          /\ writer' = [writer EXCEPT ![e] = NewWriter(call[e].left)]
          /\ IF call[e].op = "NextWriter"
             THEN call' = [call EXCEPT ![e] = NoCall] /\ UNCHANGED writing
             ELSE /\ call' = [call EXCEPT ![e] = [op |-> "Flush", left |-> 0]]
                  /\ Submit(e, "writer", IF call[e].op = "WriteClose" THEN Bare("close")
                                         ELSE Frame("data", TRUE, Units(e, 1, call[e].left)))
  /\ UNCHANGED <<wire, open, cut, begun, sent, reader, controls, load>>

\* messageWriter.Write: a server does not buffer what is twice a buffer.
CallWrite(e, n) ==
  /\ Idle(e) /\ writer[e].open /\ writer[e].count + n <= load.size
  /\ IF e = Server /\ n > 2 * BufSize
     THEN LET w == writer[e] IN
          /\ writer' = [writer EXCEPT ![e].count = @ + n]
          /\ call' = [call EXCEPT ![e] = [op |-> "Write", left |-> 0]]
          /\ Submit(e, "writer", Frame(w.op, FALSE, w.pos \o Units(e, w.count + 1, w.count + n)))
     ELSE /\ call' = [call EXCEPT ![e] = [op |-> "Write", left |-> n]]
          /\ UNCHANGED <<writer, writing>>
  /\ UNCHANGED <<wire, open, cut, buf, pool, begun, sent, reader, controls, load>>

\* One turn of its loop: ncopy flushes a full buffer, then some units are copied.
Copy(e) ==
  LET w == writer[e]
      room == BufSize - Len(w.pos)
      n == IF call[e].left < room THEN call[e].left ELSE room IN
  /\ call[e].op = "Write" /\ call[e].left > 0 /\ at[e]["writer"] = "none"
  /\ IF room = 0
     THEN Submit(e, "writer", Frame(w.op, FALSE, w.pos)) /\ UNCHANGED <<call, writer>>
     ELSE /\ writer' = [writer EXCEPT ![e].pos = w.pos \o Units(e, w.count + 1, w.count + n),
                                      ![e].count = @ + n]
          /\ call' = [call EXCEPT ![e] = IF @.left = n THEN NoCall
                                            ELSE [op |-> "Write", left |-> @.left - n]]
          /\ UNCHANGED writing
  /\ UNCHANGED <<wire, open, cut, buf, pool, begun, sent, reader, controls, load>>

CloseWriter(e) == /\ Idle(e) /\ writer[e].open
                  /\ call' = [call EXCEPT ![e] = [op |-> "Flush", left |-> 0]]
                  /\ Submit(e, "writer", LastFrame(e))
                  /\ UNCHANGED <<wire, open, cut, writer, buf, pool, begun, sent, reader, controls, load>>

\* It closes no writer, so that a careless application can put its frame into
\* the middle of a message.
WritePrepared(e, n) == /\ Idle(e) /\ begun[e] < load.messages[e] /\ "Prepared" \in load.ops
                       /\ writer[e].open => "careless" \in load.ops /\ writer[e].op = "cont"
                       /\ begun' = [begun EXCEPT ![e] = @ + 1]
                       /\ call' = [call EXCEPT ![e] = [op |-> "Prepared", left |-> 0]]
                       /\ Submit(e, "writer", Frame("data", TRUE, Units(e, 1, n)))
                       /\ UNCHANGED <<wire, open, cut, writer, buf, pool, sent, reader, controls, load>>

\* The third goroutine.
CallControl(e, op) == /\ controls[e] < load.controls[e]
                      /\ controls' = [controls EXCEPT ![e] = @ + 1]
                      /\ Submit(e, "control", Bare(op))
                      /\ UNCHANGED <<wire, open, cut, app, reader, load>>

-----------------------------------------------------------------------------
(* The reading goroutine: NextReader and messageReader.Read, which call     *)
(* advanceFrame, and its control frames.                                    *)

Incoming(e) == wire[Other(e)]

\* advanceFrame has read a whole frame f; what has not been read of the one
\* before it is skipped.
Take(e, f) == /\ reading[e] \in {"next", "read"} /\ at[e]["reader"] = "none"
              /\ open[e] /\ ~cut
              /\ f.op # "torn"
              /\ wire' = [wire EXCEPT ![Other(e)] = Tail(@)]
              /\ UNCHANGED <<open, cut, app, readErr, cur, got, controls, load>>

NotData(e) == UNCHANGED <<reading, readFinal, readLength, unread, nth, size>>

ReadPong(e, f) == /\ f.op = "pong" /\ Take(e, f)
                  /\ NotData(e) /\ UNCHANGED writing

\* handlePing and handleClose answer.
ReadPing(e, f) == /\ f.op = "ping" /\ Take(e, f)
                  /\ Submit(e, "reader", Bare("pong"))
                  /\ NotData(e)

\* Mutant: a close frame gets no answer.
ReadCloseOnly(e, f) == /\ IsClose(f.op) /\ Take(e, f)
                       /\ NotData(e) /\ UNCHANGED writing
ReadClose(e, f) == /\ IsClose(f.op) /\ Take(e, f)
                   /\ Submit(e, "reader", Bare("close"))
                   /\ NotData(e)

\* A data frame must begin a message when the last one has ended, and only then.
InOrder(e, f) == (f.op = "data") = readFinal[e]

ReadBad(e, f) == /\ f.op \in {"data", "cont"} /\ ~InOrder(e, f) /\ Take(e, f)
                 /\ readFinal' = [readFinal EXCEPT ![e] = f.fin]
                 /\ Submit(e, "reader", Bare("protocol"))
                 /\ UNCHANGED <<reading, readLength, unread, nth, size>>

Length(e, f) == readLength[e] + Len(f.data)

Data(e, f) == /\ f.op \in {"data", "cont"} /\ InOrder(e, f) /\ Take(e, f)
              /\ readFinal' = [readFinal EXCEPT ![e] = f.fin]
              /\ readLength' = [readLength EXCEPT ![e] = Length(e, f)]
              /\ nth' = [nth EXCEPT ![e] = IF f.op = "data" THEN @ + 1 ELSE @]
              /\ size' = [size EXCEPT ![e] = Len(f.data) + IF f.op = "data" THEN 0 ELSE @]

ReadTooLong(e, f) == /\ Length(e, f) > ReadLimit /\ Data(e, f)
                     /\ Submit(e, "reader", Bare("tooBig"))
                     /\ UNCHANGED <<reading, unread>>

\* NextReader goes on to the next frame when this one continues a message the
\* application has left.
ReadData(e, f) == /\ Length(e, f) <= ReadLimit /\ Data(e, f)
                  /\ IF reading[e] = "next" /\ f.op = "cont"
                     THEN UNCHANGED <<reading, unread>>
                     ELSE /\ reading' = [reading EXCEPT ![e] = "held"]
                          /\ unread' = [unread EXCEPT ![e] = f.data]
                  /\ UNCHANGED writing

\* Mutant: the length goes on counting.
NextReaderCounting(e) == /\ reading' = [reading EXCEPT ![e] = "next"]
                         /\ cur' = [cur EXCEPT ![e] = <<>>]
                         /\ UNCHANGED readLength
NextReader(e) == /\ reading' = [reading EXCEPT ![e] = "next"]
                 /\ readLength' = [readLength EXCEPT ![e] = 0]
                 /\ cur' = [cur EXCEPT ![e] = <<>>]

\* The application reads the payload; at the end of the message it calls
\* NextReader for the next one.
ReadPayload(e) ==
  LET all == cur[e] \o unread[e] IN
  /\ reading[e] = "held"
  /\ unread' = [unread EXCEPT ![e] = <<>>]
  /\ IF readFinal[e]
     THEN /\ got' = [got EXCEPT ![e] = Append(@, <<nth[e], all>>)]
          /\ NextReader(e)
     ELSE /\ cur' = [cur EXCEPT ![e] = all]
          /\ reading' = [reading EXCEPT ![e] = "read"]
          /\ UNCHANGED <<got, readLength>>
  /\ UNCHANGED <<wire, open, cut, writing, app, readFinal, readErr, nth, size, controls, load>>

\* It calls NextReader before it has read to the end.
Abandon(e) == /\ "Abandon" \in load.ops /\ reading[e] \in {"held", "read"} /\ at[e]["reader"] = "none"
              /\ NextReader(e)
              /\ unread' = [unread EXCEPT ![e] = <<>>]
              /\ UNCHANGED <<wire, open, cut, writing, app, readFinal, readErr, nth, size, got, controls, load>>

\* The connection has gone, or ends in the middle of a frame.
ReadFails(e) == /\ reading[e] \in {"next", "read"} /\ at[e]["reader"] = "none"
                /\ \/ ~open[e] \/ cut
                   \/ ~open[Other(e)] /\ (Incoming(e) # <<>> => Head(Incoming(e)).op = "torn")
                /\ readErr' = [readErr EXCEPT ![e] = "failed"]
                /\ reading' = [reading EXCEPT ![e] = "done"]
                /\ UNCHANGED <<wire, open, cut, writing, app, readFinal, readLength, cur, unread,
                               nth, size, got, controls, load>>

\* The application calls Close when reading has ended, or at any other time.
\* What it has not read is lost, and may take with it what it has sent.
Close(e) == /\ open[e]
            /\ reading[e] = "done" \/ load.breaks
            /\ open' = [open EXCEPT ![e] = FALSE]
            /\ wire' \in {[wire EXCEPT ![Other(e)] = <<>>],
                        IF Incoming(e) = <<>> THEN wire ELSE [f \in Ends |-> <<>>]}
            /\ UNCHANGED <<cut, writing, app, reader, controls, load>>

Break == /\ load.breaks /\ ~cut
         /\ cut' = TRUE
         /\ wire' = [e \in Ends |-> <<>>]
         /\ UNCHANGED <<open, writing, app, reader, controls, load>>

-----------------------------------------------------------------------------
ReadFrame(e, f) == \/ ReadPong(e, f) \/ ReadPing(e, f) \/ ReadClose(e, f)
                   \/ ReadBad(e, f) \/ ReadTooLong(e, f) \/ ReadData(e, f)

Read(e) == \/ Incoming(e) # <<>> /\ ReadFrame(e, Head(Incoming(e)))
           \/ ReadPayload(e) \/ ReadFails(e)

Calls(e) == \/ StartMessage(e, "NextWriter", 0) \/ StartMessage(e, "WriteClose", 0)
            \/ \E n \in Lengths \cap (1 .. load.size) :
                 \/ (e = Server /\ StartMessage(e, "WriteMessage", n))
                 \/ WritePrepared(e, n) \/ CallWrite(e, n)
            \/ CloseWriter(e)
            \/ \E op \in {"ping", "close"} \cap load.ops : CallControl(e, op)

\* What the three goroutines of an end do next when they can go on.
WriterStep(e) == BeginMessage(e) \/ Copy(e) \/ Write(e, "writer")
ReaderStep(e) == Read(e) \/ Write(e, "reader") \/ (reading[e] = "done" /\ Close(e))
ControlStep(e) == Write(e, "control")

Step(e) == WriterStep(e) \/ ReaderStep(e) \/ ControlStep(e)

Next == Break \/ \E e \in Ends : Calls(e) \/ Step(e) \/ Abandon(e) \/ Close(e)

\* A goroutine that can go on does, a deadline passes, and an application that
\* is told of the end closes its side; it need not call anything else.
Fairness == \A e \in Ends : /\ WF_vars(WriterStep(e))
                            /\ WF_vars(ReaderStep(e))
                            /\ WF_vars(ControlStep(e))

Spec == Init /\ [][Next]_vars
FairSpec == Spec /\ Fairness

-----------------------------------------------------------------------------
Unit == Nat \X Nat
Frames == [op : {"none", "data", "cont", "torn"} \cup ControlOps, fin : BOOLEAN, data : Seq(Unit)]
CallOps == {"none", "NextWriter", "WriteMessage", "WriteClose", "Flush", "Write", "Prepared"}

MessageWriters == [open : BOOLEAN, op : {"data", "cont"}, pos : Seq(Unit), count : Nat]

NetTypeOK == /\ wire \in [Ends -> Seq(Frames)]
             /\ open \in [Ends -> BOOLEAN] /\ cut \in BOOLEAN
WritingTypeOK == /\ mu \in [Ends -> Goroutines \cup {"free"}]
                 /\ at \in [Ends -> [Goroutines -> {"none", "waits", "holds"}]]
                 /\ \A e \in Ends, g \in Goroutines : at[e][g] = "holds" <=> mu[e] = g
                 /\ out \in [Ends -> [Goroutines -> Frames]]
                 /\ writeErr \in [Ends -> {"none", "closeSent", "failed"}]
AppTypeOK == /\ call \in [Ends -> [op : CallOps, left : Nat]]
             /\ writer \in [Ends -> MessageWriters]
             /\ \A e \in Ends : Len(writer[e].pos) <= BufSize
             /\ buf \in [Ends -> Buffers \cup {Nobody}] /\ pool \subseteq Buffers
             /\ sent \in [Ends -> Seq(Seq(Unit))]
ReaderTypeOK == /\ reading \in [Ends -> {"next", "read", "held", "done"}]
                /\ readFinal \in [Ends -> BOOLEAN]
                /\ readErr \in [Ends -> {"none", "failed", "close", "protocol", "tooBig"}]
                /\ {readLength, nth, size} \subseteq [Ends -> Nat]
                /\ {cur, unread} \subseteq [Ends -> Seq(Unit)]
                /\ got \in [Ends -> Seq(Nat \X Seq(Unit))]

\* c.mu has one holder at each end, which is in the middle of a write; no more
\* than a buffer waits to be flushed; and the variables have their types (the
\* fields of Conn and messageWriter).
TypeOK == NetTypeOK /\ WritingTypeOK /\ AppTypeOK /\ ReaderTypeOK

\* Whichever goroutine writes a close frame, or only a part of a frame, no
\* frame follows it (write, WriteControl: c.writeErr is set before c.mu is free
\* again): a close frame or a torn one is the last on its way, and when the
\* close frame has been read nothing is left.
LastFrameIsLast ==
  \A e \in Ends :
    /\ \A i \in 1 .. Len(wire[e]) - 1 : ~IsClose(wire[e][i].op) /\ wire[e][i].op # "torn"
    /\ readErr[Other(e)] = "close" => wire[e] = <<>>

\* A write buffer of the shared pool is in use on one connection at most and
\* not in the pool at the same time (beginMessage, endMessage).
BufferOwned == \A e \in Ends : buf[e] # Nobody =>
                 /\ buf[e] \notin pool
                 /\ \A f \in Ends \ {e} : buf[f] # buf[e]

\* The connection is a MessagePipe: what a reader gets are messages the other
\* end has completed, whole and in their order.
Pipe == INSTANCE MessagePipe
IsPipe == Pipe!PipeSpec

\* The reader of e is done with the nth message: it has read it, left it, or
\* was told that reading has failed.
Passed(e, n) == \/ nth[e] > n
                \/ nth[e] = n /\ reading[e] = "next"
                \/ readErr[e] # "none"

\* Every message that was sent gets to the other application, or that one is
\* told of the end: writers and readers at both ends, with control frames to
\* answer and a network that is full, never wait for one another for ever
\* (WriteControl: its deadline).
Behind(e) == ~Passed(e, Len(sent[Other(e)]))
MessagesArrive == \A e \in Ends : Behind(e) ~> ~Behind(e)

\* An end that has sent a close frame gets an answer to it, or learns that the
\* connection has gone (SetCloseHandler: the default handler answers).
CloseAnswered == \A e \in Ends : writeErr[e] = "closeSent" ~> readErr[e] # "none"

\* Reading fails with ErrReadLimit only for a message that is larger than the
\* limit (SetReadLimit): the frames of a message are counted together, and those
\* of the one before are forgotten, if the application has read it to its end.
LimitIsPerMessage ==
  "Abandon" \notin load.ops => \A e \in Ends : readErr[e] = "tooBig" => size[e] > ReadLimit
============================================================================
