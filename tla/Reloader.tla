------------------------------ MODULE Reloader ------------------------------
(***************************************************************************)
(* reload/reloader.go: how a regeneration makes the browser tabs reload.   *)
(*                                                                         *)
(* A page carries a script that opens a websocket; the handler of that     *)
(* connection (ServeWS) waits on a condition variable until a callback of  *)
(* the debouncer broadcasts, then sends "reload" and closes.  When the     *)
(* connection ends otherwise the script retries until it is connected      *)
(* again, and reloads then.                                                *)
(*                                                                         *)
(* The target folder is a generation number: OnReload makes the next one.  *)
(***************************************************************************)
EXTENDS Naturals, FiniteSets

CONSTANTS Tabs,         \* browser tabs that show a page
          Conns,        \* bound: the handlers there can be at a time
          Callbacks,    \* bound: the callbacks of the debouncer
          NoConn,       \* a tab without a connection, a free mutex
          MaxRestarts   \* bound: how often the server is stopped

ASSUME ReloaderAssumption == NoConn \notin Conns /\ MaxRestarts \in Nat

VARIABLES
  up,        \* the server runs
  gen,       \* the generation of the target folder
  cb,        \* cb[k]: where a callback is
  handler,   \* handler[c]: where ServeWS is for a connection
  mu,        \* reload.cond.L: the handler that holds it
  waiters,   \* the notify list of reload.cond
  sent,      \* the connections on which "reload" is on its way
  tab,       \* tab[t]: what the script does, and its connection
  shown,     \* shown[t]: the generation of the page
  restarts,
  due        \* history: due[t] is the generation the tab has been told to show

vars == <<up, gen, cb, handler, mu, waiters, sent, tab, shown, restarts, due>>
server == <<handler, mu, waiters>>

Idle == [on |-> "dial", retry |-> FALSE, conn |-> NoConn]

Init == /\ up = TRUE /\ gen = 1
        /\ cb = [k \in Callbacks |-> "idle"]
        /\ handler = [c \in Conns |-> "none"]
        /\ mu = NoConn /\ waiters = {} /\ sent = {}
        /\ tab = [t \in Tabs |-> Idle]
        /\ shown = [t \in Tabs |-> 1]
        /\ restarts = 0
        /\ due = [t \in Tabs |-> 0]

-----------------------------------------------------------------------------
(* The callback: OnReload, then Broadcast. *)

OnReload(k) == /\ up /\ cb[k] = "idle"
               /\ cb' = [cb EXCEPT ![k] = "broadcast"]
               /\ gen' = gen + 1
               /\ UNCHANGED <<up, server, sent, tab, shown, restarts, due>>

\* The tabs this broadcast makes reload: those whose handler waits, and those
\* that will reload anyway once they are connected again.
Told(t) == \/ tab[t].on = "open" /\ tab[t].conn \in waiters
           \/ tab[t].on = "timer"
           \/ tab[t].on = "dial" /\ tab[t].retry

Broadcast(k) == /\ up /\ cb[k] = "broadcast"
                /\ cb' = [cb EXCEPT ![k] = "done"]
                /\ waiters' = {}
                /\ due' = [t \in Tabs |-> IF Told(t) THEN gen ELSE due[t]]
                /\ UNCHANGED <<up, gen, handler, mu, sent, tab, shown, restarts>>

-----------------------------------------------------------------------------
(* ServeWS, after Upgrade. *)

Step(c, from, to) == /\ up /\ handler[c] = from
                     /\ handler' = [handler EXCEPT ![c] = to]
                     /\ UNCHANGED <<up, gen, cb, tab, shown, restarts, due>>

\* Wait: L.Lock
Lock(c) == /\ Step(c, "upgraded", "locked")
           /\ mu = NoConn /\ mu' = c
           /\ UNCHANGED <<waiters, sent>>

\* cond.Wait: the handler enters the list, then unlocks L and sleeps ...
Sleep(c) == /\ Step(c, "locked", "asleep")
            /\ waiters' = waiters \cup {c} /\ mu' = NoConn
            /\ UNCHANGED sent

\* ... until a broadcast has taken it off the list; it locks L again ...
Wake(c) == /\ c \notin waiters /\ Step(c, "asleep", "awake")
           /\ mu = NoConn /\ mu' = c
           /\ UNCHANGED <<waiters, sent>>

\* Mutant: the handler closes the connection without a message.
SkipMessage(c) == /\ Step(c, "awake", "close")
                  /\ mu' = NoConn
                  /\ UNCHANGED <<waiters, sent>>

\* Mutant: Wait returns with L locked.
KeepLock(c) == Step(c, "awake", "write") /\ UNCHANGED <<mu, waiters, sent>>

\* ... and Wait unlocks it.
Unlock(c) == /\ Step(c, "awake", "write")
             /\ mu' = NoConn
             /\ UNCHANGED <<waiters, sent>>

\* WriteMessage; its error, when the tab is gone, is ignored.
WriteMessage(c) == /\ Step(c, "write", "close")
                   /\ sent' = IF \E t \in Tabs : tab[t].conn = c THEN sent \cup {c} ELSE sent
                   /\ UNCHANGED <<mu, waiters>>

Close(c) == /\ Step(c, "close", "none")
            /\ UNCHANGED <<mu, waiters, sent>>

ServeWS(c) == \/ Lock(c) \/ Sleep(c) \/ Wake(c) \/ Unlock(c)
              \/ WriteMessage(c) \/ Close(c)

-----------------------------------------------------------------------------
(* InjectedScript, in a tab. *)

Become(t, s) == /\ tab' = [tab EXCEPT ![t] = s]
                /\ sent' = sent \ {tab[t].conn}
                /\ UNCHANGED <<up, gen, cb, mu, waiters, restarts, due>>
Loading == [on |-> "load", retry |-> FALSE, conn |-> NoConn]

\* The page comes with its script, which calls listen(false); when the server
\* is down the browser shows a page of its own, without the script.
Load(t) == /\ tab[t].on = "load"
           /\ Become(t, IF up THEN Idle ELSE [Idle EXCEPT !.on = "failed"])
           /\ shown' = IF up THEN [shown EXCEPT ![t] = gen] ELSE shown
           /\ UNCHANGED handler

\* listen: the connection is upgraded and onopen called; on a retry that reloads.
Free(c) == handler[c] = "none" /\ \A t \in Tabs : tab[t].conn # c

Connect(t) == /\ up /\ tab[t].on = "dial"
              /\ \E c \in Conns :
                   /\ Free(c)
                   /\ handler' = [handler EXCEPT ![c] = "upgraded"]
                   /\ Become(t, IF tab[t].retry THEN Loading
                                ELSE [tab[t] EXCEPT !.on = "open", !.conn = c])
              /\ UNCHANGED shown

ConnectFails(t) == /\ ~up /\ tab[t].on = "dial"
                   /\ Become(t, [Idle EXCEPT !.on = "timer"])
                   /\ UNCHANGED <<handler, shown>>

OnMessage(t) == /\ tab[t].on = "open" /\ tab[t].conn \in sent
                /\ Become(t, Loading)
                /\ UNCHANGED <<handler, shown>>

\* onclose = retry: the connection ended without a message.
OnClose(t) == /\ tab[t].on = "open" /\ handler[tab[t].conn] = "none"
              /\ tab[t].conn \notin sent
              /\ Become(t, [Idle EXCEPT !.on = "timer"])
              /\ UNCHANGED <<handler, shown>>

\* Mutant: a retry listens like the first time.
RetryPlainly(t) == /\ tab[t].on = "timer"
                   /\ Become(t, Idle)
                   /\ UNCHANGED <<handler, shown>>

Retry(t) == /\ tab[t].on = "timer"
            /\ Become(t, [Idle EXCEPT !.retry = TRUE])
            /\ UNCHANGED <<handler, shown>>

Script(t) == \/ Load(t) \/ Connect(t) \/ ConnectFails(t)
             \/ OnMessage(t) \/ OnClose(t) \/ Retry(t)

-----------------------------------------------------------------------------
(* The server is stopped and started; what it sent before still arrives.  *)

Stop == /\ up /\ restarts < MaxRestarts
        /\ up' = FALSE /\ restarts' = restarts + 1
        /\ handler' = [c \in Conns |-> "none"]
        /\ mu' = NoConn /\ waiters' = {}
        /\ cb' = [k \in Callbacks |-> IF cb[k] = "broadcast" THEN "done" ELSE cb[k]]
        /\ UNCHANGED <<gen, sent, tab, shown, due>>

\* main generates the target folder anew before it serves.
Restart == /\ ~up
           /\ up' = TRUE /\ gen' = gen + 1
           /\ due' = [t \in Tabs |-> IF tab[t].on = "open" \/ Told(t) THEN gen + 1 ELSE due[t]]
           /\ UNCHANGED <<cb, server, sent, tab, shown, restarts>>

Next == \/ \E k \in Callbacks : OnReload(k) \/ Broadcast(k)
        \/ \E c \in Conns : ServeWS(c)
        \/ \E t \in Tabs : Script(t)
        \/ Stop \/ Restart

\* Goroutines and scripts run; a sync.Mutex does not starve its waiters.
\* Nobody has to edit a file or restart the server.
Spec == /\ Init /\ [][Next]_vars
        /\ \A k \in Callbacks : WF_vars(Broadcast(k))
        /\ \A c \in Conns : /\ SF_vars(Lock(c)) /\ SF_vars(Wake(c))
                            /\ WF_vars(ServeWS(c))
        /\ \A t \in Tabs : WF_vars(Script(t))
-----------------------------------------------------------------------------
Tried == [on : {"load", "dial", "open", "timer", "failed"}, retry : BOOLEAN,
          conn : Conns \cup {NoConn}]

\* Types; the mutex has one holder, and who is on the list sleeps.
TypeOK ==
  /\ up \in BOOLEAN /\ gen \in Nat
  /\ cb \in [Callbacks -> {"idle", "broadcast", "done"}]
  /\ handler \in [Conns -> {"none", "upgraded", "locked", "asleep", "awake",
                            "write", "close"}]
  /\ \A c \in Conns : handler[c] \in {"locked", "awake"} <=> mu = c
  /\ waiters \subseteq {c \in Conns : handler[c] = "asleep"}
  /\ sent \subseteq Conns
  /\ tab \in [Tabs -> Tried] /\ shown \in [Tabs -> 0..gen]
  /\ due \in [Tabs -> 0..gen] /\ restarts \in 0..MaxRestarts

\* As long as the server is not stopped, a connection ends only after "reload"
\* has been sent on it: the script takes any other end for a lost server, and
\* would reload once more (reloader.go:129-133, 151-159).
NoSilentClose ==
  \A t \in Tabs : /\ restarts = 0 /\ tab[t].on = "open"
                  /\ handler[tab[t].conn] \in {"close", "none"}
                  => tab[t].conn \in sent

\* A tab whose handler waits when a callback broadcasts, and one that is
\* connecting again after it lost the server, gets a page at least as new as
\* what the callback has generated (reloader.go:122-162, watch.go:79-85) -
\* unless the server goes down, which may leave the tab without its script.
ToldTabsReload ==
  \A t \in Tabs : shown[t] < due[t] ~> (shown[t] >= due[t] \/ tab[t].on = "failed" \/ ~up)

\* A handler that a broadcast has woken ends, whether or not the tab is still
\* there, so that handlers do not pile up (reloader.go:129-139).
WokenHandlersEnd ==
  \A c \in Conns : (handler[c] = "asleep" /\ c \notin waiters) ~> handler[c] = "none"
=============================================================================
