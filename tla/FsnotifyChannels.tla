-------------------------- MODULE FsnotifyChannels --------------------------
(***************************************************************************)
(* fsnotify/backend_windows.go: how the goroutines of a Watcher talk.      *)
(*                                                                         *)
(* One reader goroutine (readEvents) takes packets off the I/O completion  *)
(* port.  An I/O packet makes it send events and errors to the consumer; a *)
(* wake-up packet makes it look at the channels input and done, on which   *)
(* Add, Remove and Close leave their requests, and answer the caller.      *)
(*                                                                         *)
(* What the watches are is left to other modules: here an I/O packet or a  *)
(* request simply produces some sequence of events and errors.             *)
(***************************************************************************)
EXTENDS Naturals, Sequences, FiniteSets

CONSTANTS Callers,    \* goroutines that call Add, Remove and Close
          Consumer,   \* the goroutine that receives from Events and Errors; in this
                      \* program it is a caller as well, the only one of Add and Remove
          Nil,        \* no goroutine
          Ops,        \* which of "add", "remove", "close" are called
          EvCap,      \* the buffer of Events: defaultBufferSize
          MaxBatch,   \* bound: events and errors caused by one packet
          MaxIO,      \* bound: I/O packets in a behaviour
          MaxCalls    \* bound: calls made by each caller

ASSUME ChannelsAssumption ==
  /\ IsFiniteSet(Callers) /\ Nil \notin Callers \cup {Consumer}
  /\ Ops \subseteq {"add", "remove", "close"}
  /\ EvCap \in Nat /\ MaxBatch \in Nat /\ MaxIO \in Nat /\ MaxCalls \in Nat

VARIABLES
  pc,       \* where each goroutine but the reader is
  calls,    \* the calls each caller has begun
  closed,   \* w.closed
  input,    \* w.input, a channel of capacity 1: the callers whose request it holds
  done,     \* w.done, a channel of capacity 1: the callers of Close it holds
  wakes,    \* wake-up packets in the completion port
  portOpen, \* the completion port has not been closed
  io,       \* I/O packets the kernel may still deliver
  events,   \* the buffer of w.Events
  rd        \* the reader: where it is, what it still has to send, and to whom
            \* it will reply

vars == <<pc, calls, closed, input, done, wakes, portOpen, io, events, rd>>

Goroutines == Callers \cup {Consumer}
Sent == {"event", "error"}
Batches == UNION {[1..n -> Sent] : n \in 0..MaxBatch}

Init == /\ pc = [p \in Goroutines |-> "idle"]
        /\ calls = [p \in Callers |-> 0]
        /\ closed = FALSE
        /\ input = <<>> /\ done = <<>>
        /\ wakes = 0 /\ portOpen = TRUE
        /\ io = MaxIO
        /\ events = <<>>
        /\ rd = [pc |-> "get", out |-> <<>>, next |-> "get", to |-> Nil]

-----------------------------------------------------------------------------
(* Add, Remove and Close, up to the point where they wait for an answer. *)

\* Each of the three first reads w.closed; the calls go on without the mutex.
Call(p, op) ==
  /\ op \in Ops /\ pc[p] = "idle" /\ calls[p] < MaxCalls
  /\ calls' = [calls EXCEPT ![p] = @ + 1]
  /\ pc' = [pc EXCEPT ![p] = IF closed THEN "idle"
                             ELSE IF op = "close" THEN "setClosed"
                             ELSE "sendInput"]
  /\ UNCHANGED <<closed, input, done, wakes, portOpen, io, events, rd>>

\* w.input <- in
SendInput(p) == /\ pc[p] = "sendInput" /\ input = <<>>
                /\ input' = <<p>>
                /\ pc' = [pc EXCEPT ![p] = "wake"]
                /\ UNCHANGED <<calls, closed, done, wakes, portOpen, io, events, rd>>

SetClosed(p) == /\ pc[p] = "setClosed"
                /\ closed' = TRUE
                /\ pc' = [pc EXCEPT ![p] = "sendDone"]
                /\ UNCHANGED <<calls, input, done, wakes, portOpen, io, events, rd>>

\* w.done <- ch
SendDone(p) == /\ pc[p] = "sendDone" /\ done = <<>>
               /\ done' = <<p>>
               /\ pc' = [pc EXCEPT ![p] = "wakeDone"]
               /\ UNCHANGED <<calls, closed, input, wakes, portOpen, io, events, rd>>

\* Mutant: Add returns as soon as it has woken the reader.
WakeupAndReturn(p) == /\ pc[p] \in {"wake", "wakeDone"}
                      /\ pc' = [pc EXCEPT ![p] = IF @ = "wake" THEN "idle"
                                                                 ELSE "awaitDone"]
                      /\ wakes' = wakes + 1
                      /\ UNCHANGED <<calls, closed, input, done, portOpen, io, events, rd>>

\* Mutant: the request is left in the channel without waking the reader.
NoWakeup(p) == /\ pc[p] \in {"wake", "wakeDone"}
               /\ pc' = [pc EXCEPT ![p] = IF @ = "wake" THEN "await"
                                                          ELSE "awaitDone"]
               /\ UNCHANGED <<calls, closed, input, done, wakes, portOpen, io, events, rd>>

\* wakeupReader: posting to a closed port fails, and the caller returns.
Wakeup(p) == /\ pc[p] \in {"wake", "wakeDone"}
             /\ pc' = [pc EXCEPT ![p] = IF ~portOpen THEN "idle"
                                          ELSE IF @ = "wake" THEN "await"
                                          ELSE "awaitDone"]
             /\ wakes' = IF portOpen THEN wakes + 1 ELSE wakes
             /\ UNCHANGED <<calls, closed, input, done, portOpen, io, events, rd>>

-----------------------------------------------------------------------------
(* The reader goroutine. *)

\* An I/O packet: the notifications in it, and the outcome of the startRead
\* that follows, become events and errors.
GetIO == /\ rd.pc = "get" /\ io > 0
         /\ io' = io - 1
         /\ \E out \in Batches :
              rd' = [rd EXCEPT !.pc = "send", !.out = out, !.next = "get"]
         /\ UNCHANGED <<pc, calls, closed, input, done, wakes, portOpen, events>>

\* A wake-up packet with a request in w.input: addWatch or remWatch runs, which
\* may report failures and that the directory is gone, before the caller gets
\* the result.
GetInput == /\ rd.pc = "get" /\ wakes > 0 /\ input # <<>>
            /\ wakes' = wakes - 1
            /\ input' = <<>>
            /\ \E out \in Batches :
                 rd' = [pc |-> "send", out |-> out, next |-> "reply", to |-> Head(input)]
            /\ UNCHANGED <<pc, calls, closed, done, portOpen, io, events>>

\* A wake-up packet with a Close in w.done: the watches go, which may fail ...
GetDone == /\ rd.pc = "get" /\ wakes > 0 /\ done # <<>>
           /\ wakes' = wakes - 1
           /\ done' = <<>>
           /\ \E out \in Batches :
                /\ \A i \in DOMAIN out : out[i] = "error"
                /\ rd' = [pc |-> "send", out |-> out, next |-> "close", to |-> Head(done)]
           /\ UNCHANGED <<pc, calls, closed, input, portOpen, io, events>>

\* A wake-up packet whose request another wake-up has already served.
GetNothing == /\ rd.pc = "get" /\ wakes > 0 /\ input = <<>> /\ done = <<>>
              /\ wakes' = wakes - 1
              /\ UNCHANGED <<pc, calls, closed, input, done, portOpen, io, events, rd>>

\* sendEvent, the branch w.Events <- event.
SendEvent == /\ rd.pc = "send" /\ rd.out # <<>> /\ Head(rd.out) = "event"
             /\ Len(events) < EvCap
             /\ events' = Append(events, "event")
             /\ rd' = [rd EXCEPT !.out = Tail(@)]
             /\ UNCHANGED <<pc, calls, closed, input, done, wakes, portOpen, io>>

\* sendEvent, the branch ch := <-w.done, which drops the event ...
TakeDone == /\ rd.pc = "send" /\ rd.out # <<>> /\ Head(rd.out) = "event"
            /\ done # <<>>
            /\ done' = <<>>
            /\ rd' = [rd EXCEPT !.pc = "putBack", !.out = <<Head(done)>> \o Tail(@)]
            /\ UNCHANGED <<pc, calls, closed, input, wakes, portOpen, io, events>>

\* ... and w.done <- ch, which puts the request of Close back.
PutBackDone == /\ rd.pc = "putBack" /\ done = <<>>
               /\ done' = <<Head(rd.out)>>
               /\ rd' = [rd EXCEPT !.pc = "send", !.out = Tail(@)]
               /\ UNCHANGED <<pc, calls, closed, input, wakes, portOpen, io, events>>

\* sendError, the branch <-w.done: the request of Close is not put back.
SwallowDone == /\ rd.pc = "send" /\ rd.out # <<>> /\ Head(rd.out) = "error"
               /\ done # <<>>
               /\ done' = <<>>
               /\ rd' = [rd EXCEPT !.out = Tail(@)]
               /\ UNCHANGED <<pc, calls, closed, input, wakes, portOpen, io, events>>

Sends == SendEvent \/ TakeDone \/ PutBackDone \/ SwallowDone

\* Everything is sent: answer the caller, or get the next packet.
AllSent(next) == rd.pc = "send" /\ rd.out = <<>> /\ rd.next = next

SendsDone == /\ AllSent("get")
             /\ rd' = [rd EXCEPT !.pc = "get"]
             /\ UNCHANGED <<pc, calls, closed, input, done, wakes, portOpen, io, events>>

\* in.reply <- err meets <-in.reply
Reply == /\ AllSent("reply") /\ pc[rd.to] = "await"
         /\ pc' = [pc EXCEPT ![rd.to] = "idle"]
         /\ rd' = [rd EXCEPT !.pc = "get", !.next = "get", !.to = Nil]
         /\ UNCHANGED <<calls, closed, input, done, wakes, portOpen, io, events>>

\* ... then the port is closed, and so are both channels.
ClosePort == /\ AllSent("close")
             /\ portOpen' = FALSE
             /\ rd' = [rd EXCEPT !.pc = "replyDone", !.next = "get"]
             /\ UNCHANGED <<pc, calls, closed, input, done, wakes, io, events>>

\* ch <- err meets <-ch, and the reader returns.
ReplyDone == /\ rd.pc = "replyDone" /\ pc[rd.to] = "awaitDone"
             /\ pc' = [pc EXCEPT ![rd.to] = "idle"]
             /\ rd' = [rd EXCEPT !.pc = "exit", !.to = Nil]
             /\ UNCHANGED <<calls, closed, input, done, wakes, portOpen, io, events>>

-----------------------------------------------------------------------------
(* The consumer.  Between two receives it may call Add or Remove itself, as the watch *)
(* loop does, and then receives nothing before it has its answer.                     *)

ReceiveEvent == /\ pc[Consumer] = "idle" /\ events # <<>>
                /\ events' = Tail(events)
                /\ UNCHANGED <<pc, calls, closed, input, done, wakes, portOpen, io, rd>>

\* Mutant: the consumer has no case for w.Errors.
NeverReceiveError == /\ pc[Consumer] = "idle" /\ FALSE
                     /\ UNCHANGED vars

\* w.Errors has no buffer: the receive meets the reader in sendError.
ReceiveError == /\ pc[Consumer] = "idle"
                /\ rd.pc = "send" /\ rd.out # <<>> /\ Head(rd.out) = "error"
                /\ rd' = [rd EXCEPT !.out = Tail(@)]
                /\ UNCHANGED <<pc, calls, closed, input, done, wakes, portOpen, io, events>>

Reader == \/ GetIO \/ GetInput \/ GetDone \/ GetNothing
          \/ Sends \/ SendsDone \/ Reply \/ ClosePort \/ ReplyDone
Proceed(p) == SendInput(p) \/ SetClosed(p) \/ SendDone(p) \/ Wakeup(p)
Receive == ReceiveEvent \/ ReceiveError

Next == \/ \E p \in Callers, op \in Ops : Call(p, op)
        \/ \E p \in Callers : Proceed(p)
        \/ Reader
        \/ Receive

\* Every goroutine that can run does, and a select that is offered a channel
\* again and again takes it; nobody has to call Add, Remove or Close, and the
\* kernel need not report any change.
Fairness ==
  /\ \A p \in Callers : /\ WF_vars(SetClosed(p) \/ Wakeup(p))
                        /\ SF_vars(SendInput(p))
                        /\ SF_vars(SendDone(p))
  /\ WF_vars(Reader)
  /\ SF_vars(GetInput) /\ SF_vars(GetDone)
  /\ SF_vars(ReceiveEvent) /\ SF_vars(ReceiveError)

Spec == Init /\ [][Next]_vars /\ Fairness
-----------------------------------------------------------------------------
PcValues == {"idle", "sendInput", "wake", "await",
             "setClosed", "sendDone", "wakeDone", "awaitDone"}

\* Types of the state, and the capacities of the channels.
TypeOK ==
  /\ pc \in [Goroutines -> PcValues]
  /\ calls \in [Callers -> 0..MaxCalls]
  /\ closed \in BOOLEAN /\ portOpen \in BOOLEAN
  /\ input \in {<<>>} \cup {<<p>> : p \in Callers}
  /\ done \in {<<>>} \cup {<<p>> : p \in Callers}
  /\ wakes \in Nat /\ io \in 0..MaxIO
  /\ events \in Seq(Sent) /\ Len(events) <= EvCap
  /\ rd \in [pc : {"get", "send", "putBack", "replyDone", "exit"},
             out : Seq(Sent \cup Callers), next : {"get", "reply", "close"},
             to : Callers \cup {Nil}]
  /\ rd.pc = "putBack" => rd.out # <<>> /\ Head(rd.out) \in Callers

\* The callers that have left a request and not yet posted its wake-up.
Posting == {p \in Callers : pc[p] \in {"wake", "wakeDone"}}

\* No wake-up is lost: the reader takes one request per wake-up packet, and not
\* always the request that posted it, yet there is always a packet, or a caller
\* about to post one, for every request in a channel (backend_windows.go:135-139,
\* 494-527).
WakeupsSuffice ==
  portOpen => Len(input) + Len(done) <= wakes + Cardinality(Posting)

\* The reader never answers a caller that has stopped listening: it would block
\* on in.reply for ever and no notification would be read again.
ReplyHasReceiver == rd.next = "reply" => pc[rd.to] \in {"wake", "await"}

\* The deadlock of this program: the consumer is in an Add or Remove of its own, and
\* the reader, which would have to serve it, has something to send that only the
\* consumer takes - an error, or an event when the buffer is full (watch.go:88-119,
\* backend_windows.go:63-89).
Deadlocked == /\ pc[Consumer] \in {"sendInput", "wake", "await"}
              /\ rd.pc = "send" /\ rd.out # <<>>
              /\ Head(rd.out) = "error" \/ Len(events) = EvCap

\* Whatever the kernel reports meanwhile, and though the consumer calls as well, every
\* Add and Remove returns, unless somebody calls Close, or in that deadlock: it is the
\* only one (backend_windows.go:135-192, 494-527).
CallsReturn == \A p \in Callers :
  pc[p] = "sendInput" ~> (pc[p] = "idle" \/ closed \/ Deadlocked)

\* What the reader has to send gets to the consumer, and what is in the buffer is taken
\* out of it: when no more changes and calls come, nothing is left on either side,
\* unless somebody calls Close, or in that deadlock (backend_windows.go:63-89,
\* watch.go:88-119).
EventsArrive == (rd.out # <<>> \/ events # <<>>)
                  ~> ((rd.out = <<>> /\ events = <<>>) \/ closed \/ Deadlocked)
=============================================================================
