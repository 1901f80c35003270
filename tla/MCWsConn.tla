------------------------------ MODULE MCWsConn ------------------------------
(* Instances of WsConn for TLC: a server and a client. *)
EXTENDS WsConn

CONSTANT Client

TwoEnds == {Server, Client}

Load(sm, cm, sc, cc, ops, max, b) ==
  [messages |-> [e \in TwoEnds |-> IF e = Server THEN sm ELSE cm],
   controls |-> [e \in TwoEnds |-> IF e = Server THEN sc ELSE cc],
   ops |-> ops, size |-> max, breaks |-> b]

\* Messages one after the other, some of them left unread.
InTurn == Load(2, 0, 0, 0, {"NextWriter", "Abandon"}, 3, FALSE)

\* Messages and pings both ways on a network that is full, which is where both
\* ends may come to wait for each other.
BothWays == Load(2, 2, 1, 1, {"Prepared", "ping"}, 1, FALSE)

\* Both ends need a buffer of the pool.
Pooled == Load(1, 1, 0, 0, {"NextWriter"}, 1, FALSE)

\* Control frames between the frames of a message, and from both ends.
Between == Load(1, 0, 0, 1, {"NextWriter", "ping", "close"}, 3, FALSE)
Controls == Load(1, 0, 1, 1, {"WriteMessage", "WriteClose", "ping", "close"}, 3, FALSE)

\* A connection that fails, or is closed, at any moment.
Failing == Load(1, 0, 0, 1, {"WriteMessage", "ping", "close"}, 3, TRUE)

\* An application that mixes messages.
Mixing == Load(2, 0, 0, 0, {"NextWriter", "Prepared", "careless"}, 2, FALSE)

AllLoads == {Mixing, InTurn, BothWays, Pooled, Between, Controls, Failing}
============================================================================
