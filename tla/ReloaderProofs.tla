--------------------------- MODULE ReloaderProofs ---------------------------
(***************************************************************************)
(* Proofs about reload/reloader.go and the writer that it wraps: about     *)
(* Reloader, for any sets of tabs, connections and callbacks, and about    *)
(* WrapWriter, for bodies and scripts of every length.                     *)
(***************************************************************************)
EXTENDS Reloader, WrapWriter, TLAPS

\* A connection belongs to one tab, and only an open tab has one.
ConnInv == /\ \A t \in Tabs : tab[t].on = "open" <=> tab[t].conn # NoConn
           /\ \A t, u \in Tabs : tab[t].conn = tab[u].conn /\ tab[t].conn # NoConn => t = u

IInv == TypeOK /\ ConnInv /\ NoSilentClose
-----------------------------------------------------------------------------
LEMMA InitIInv == Init => IInv
<1> SUFFICES ASSUME Init PROVE IInv
  OBVIOUS
<1> USE ReloaderAssumption DEF Init, Idle
<1>1. shown \in [Tabs -> 0..gen] /\ due \in [Tabs -> 0..gen] /\ tab \in [Tabs -> Tried]
  BY DEF Tried
<1>2. TypeOK
  <2>1. cb \in [Callbacks -> {"idle", "broadcast", "done"}]
    OBVIOUS
  <2>2. handler \in [Conns -> {"none", "upgraded", "locked", "asleep", "awake",
                               "write", "close"}]
    OBVIOUS
  <2>3. \A c \in Conns : handler[c] \in {"locked", "awake"} <=> mu = c
    OBVIOUS
  <2>4. up \in BOOLEAN /\ gen \in Nat /\ waiters = {} /\ sent = {} /\ restarts \in 0..MaxRestarts
    OBVIOUS
  <2> HIDE DEF Init
  <2>5. QED
    BY <1>1, <2>1, <2>2, <2>3, <2>4 DEF TypeOK
<1>3. \A t \in Tabs : tab[t].on = "dial" /\ tab[t].conn = NoConn
  OBVIOUS
<1>4. QED
  BY <1>2, <1>3 DEF IInv, ConnInv, NoSilentClose

\* The callbacks.
LEMMA CallbackIInv ==
  ASSUME IInv, NEW k \in Callbacks, OnReload(k) \/ Broadcast(k)
  PROVE  IInv'
<1> USE ReloaderAssumption DEF IInv, TypeOK
<1>1. CASE OnReload(k)
  <2>1. gen' \in Nat /\ shown' \in [Tabs -> 0..gen'] /\ due' \in [Tabs -> 0..gen']
    BY <1>1 DEF OnReload
  <2>2. TypeOK'
    BY <1>1, <2>1 DEF OnReload, server
  <2>3. QED
    BY <1>1, <2>2 DEF OnReload, server, ConnInv, NoSilentClose
<1>2. CASE Broadcast(k)
  <2>1. due' \in [Tabs -> 0..gen]
    BY <1>2 DEF Broadcast
  <2>2. TypeOK'
    BY <1>2, <2>1 DEF Broadcast
  <2>3. QED
    BY <1>2, <2>2 DEF Broadcast, ConnInv, NoSilentClose
<1>3. QED
  BY <1>1, <1>2

\* The handler of a connection.
LEMMA HandlerIInv ==
  ASSUME IInv, NEW c \in Conns, ServeWS(c)
  PROVE  IInv'
<1> USE ReloaderAssumption DEF IInv, TypeOK, Step
<1>1. CASE Lock(c)
  BY <1>1 DEF Lock, ConnInv, NoSilentClose
<1>2. CASE Sleep(c)
  BY <1>2 DEF Sleep, ConnInv, NoSilentClose
<1>3. CASE Wake(c)
  BY <1>3 DEF Wake, ConnInv, NoSilentClose
<1>4. CASE Unlock(c)
  BY <1>4 DEF Unlock, ConnInv, NoSilentClose
<1>5. CASE WriteMessage(c)
  <2>1. TypeOK'
    BY <1>5 DEF WriteMessage
  <2>2. \A t \in Tabs : tab[t].conn = c => c \in sent'
    BY <1>5 DEF WriteMessage
  <2>3. sent \subseteq sent'
    BY <1>5 DEF WriteMessage
  <2>4. \A d \in Conns : handler'[d] = IF d = c THEN "close" ELSE handler[d]
    BY <1>5 DEF WriteMessage
  <2>5. QED
    BY <1>5, <2>1, <2>2, <2>3, <2>4 DEF WriteMessage, ConnInv, NoSilentClose, Tried
<1>6. CASE Close(c)
  <2>1. TypeOK'
    BY <1>6 DEF Close
  <2>2. \A d \in Conns : handler'[d] = IF d = c THEN "none" ELSE handler[d]
    BY <1>6 DEF Close
  <2>3. handler[c] = "close"
    BY <1>6 DEF Close
  <2>4. QED
    BY <1>6, <2>1, <2>2, <2>3 DEF Close, ConnInv, NoSilentClose, Tried
<1>7. QED
  BY <1>1, <1>2, <1>3, <1>4, <1>5, <1>6 DEF ServeWS

\* A tab that gives up its connection disturbs no other tab.
LEMMA BecomeIInv ==
  ASSUME IInv, NEW t \in Tabs, NEW s \in Tried, Become(t, s),
         s.on # "open", s.conn = NoConn, UNCHANGED handler
  PROVE  /\ ConnInv' /\ NoSilentClose'
         /\ tab' \in [Tabs -> Tried] /\ sent' \subseteq Conns
<1> USE ReloaderAssumption DEF IInv, TypeOK
<1>1. /\ \A u \in Tabs : tab'[u] = IF u = t THEN s ELSE tab[u]
      /\ tab' \in [Tabs -> Tried] /\ sent' \subseteq Conns
      /\ sent' = sent \ {tab[t].conn} /\ restarts' = restarts
  BY DEF Become
<1>2. ConnInv'
  BY <1>1 DEF ConnInv
<1>3. \A u \in Tabs : u # t /\ tab[u].on = "open" => tab[u].conn # tab[t].conn
  BY DEF ConnInv
<1>4. NoSilentClose'
  BY <1>1, <1>3 DEF NoSilentClose
<1>5. QED
  BY <1>1, <1>2, <1>4

LEMMA ScriptIInv ==
  ASSUME IInv, NEW t \in Tabs, Script(t)
  PROVE  IInv'
<1> USE ReloaderAssumption DEF IInv
<1>1. /\ Loading \in Tried /\ Idle \in Tried
      /\ [Idle EXCEPT !.on = "timer"] \in Tried
      /\ [Idle EXCEPT !.on = "failed"] \in Tried
      /\ [Idle EXCEPT !.retry = TRUE] \in Tried
  BY DEF Loading, Idle, Tried
<1>2. ASSUME NEW s \in Tried, Become(t, s), s.on # "open", s.conn = NoConn,
             UNCHANGED handler, shown' \in [Tabs -> 0..gen]
      PROVE  IInv'
  <2>1. ConnInv' /\ NoSilentClose' /\ tab' \in [Tabs -> Tried] /\ sent' \subseteq Conns
    BY <1>2, BecomeIInv
  <2>2. QED
    BY <1>2, <2>1 DEF Become, TypeOK
<1>3. CASE Load(t)
  <2>1. shown' \in [Tabs -> 0..gen]
    BY <1>3 DEF Load, TypeOK
  <2>2. CASE up
    BY <1>1, <1>2, <1>3, <2>1, <2>2 DEF Load, Idle
  <2>3. CASE ~up
    BY <1>1, <1>2, <1>3, <2>1, <2>3 DEF Load, Idle
  <2>4. QED
    BY <2>2, <2>3
<1>4. CASE Connect(t)
  <2>1. PICK c \in Conns :
          /\ Free(c)
          /\ handler' = [handler EXCEPT ![c] = "upgraded"]
          /\ Become(t, IF tab[t].retry THEN Loading
                       ELSE [tab[t] EXCEPT !.on = "open", !.conn = c])
    BY <1>4 DEF Connect
  <2> DEFINE s == IF tab[t].retry THEN Loading
                  ELSE [tab[t] EXCEPT !.on = "open", !.conn = c]
  <2>2. c # NoConn /\ s \in Tried /\ IF s.on = "open" THEN s.conn = c ELSE s.conn = NoConn
    <3>1. CASE tab[t].retry
      <4>1. s = Loading
        BY <3>1
      <4> HIDE DEF s
      <4>2. QED
        BY <1>1, <4>1 DEF Loading
    <3>2. CASE ~tab[t].retry
      <4>1. tab[t] \in Tried
        BY DEF TypeOK
      <4>2. s = [on |-> "open", retry |-> tab[t].retry, conn |-> c]
        BY <3>2, <4>1 DEF Tried
      <4>3. tab[t].retry \in BOOLEAN
        BY <4>1 DEF Tried
      <4> HIDE DEF s
      <4>4. QED
        BY <4>2, <4>3 DEF Tried
    <3>3. c # NoConn
      OBVIOUS
    <3> HIDE DEF s
    <3>4. QED
      BY <3>1, <3>2, <3>3
  <2>3. tab[t].conn = NoConn /\ sent' = sent
    BY <1>4, <2>1 DEF Connect, Become, ConnInv, TypeOK
  <2>4. /\ handler[c] = "none" /\ \A u \in Tabs : tab[u].conn # c
        /\ \A d \in Conns : handler'[d] = IF d = c THEN "upgraded" ELSE handler[d]
    BY <2>1 DEF Free, TypeOK
  <2> HIDE DEF s
  <2>5. tab' = [tab EXCEPT ![t] = s]
    BY <2>1 DEF Become, s
  <2>6. \A u \in Tabs : tab'[u] = IF u = t THEN s ELSE tab[u]
    BY <2>5 DEF TypeOK
  <2>7. UNCHANGED <<up, gen, cb, mu, waiters, restarts, due, shown>>
    BY <1>4, <2>1 DEF Connect, Become
  <2>8. TypeOK'
    BY <2>1, <2>2, <2>3, <2>4, <2>5, <2>7 DEF TypeOK
  <2>9. ConnInv'
    BY <2>2, <2>4, <2>6 DEF ConnInv
  <2>10. NoSilentClose'
    <3>1. SUFFICES ASSUME NEW u \in Tabs, restarts = 0, tab'[u].on = "open",
                          handler'[tab'[u].conn] \in {"close", "none"}
                   PROVE  tab'[u].conn \in sent
      BY <2>3, <2>7 DEF NoSilentClose
    <3>2. CASE u = t
      BY <2>2, <2>4, <2>6, <3>1, <3>2
    <3>3. CASE u # t
      <4>1. tab'[u] = tab[u] /\ tab[u] \in Tried /\ tab[u].conn # c
        BY <2>4, <2>6, <3>3 DEF TypeOK
      <4>2. tab[u].conn \in Conns
        BY <3>1, <4>1 DEF ConnInv, Tried
      <4>3. handler'[tab[u].conn] = handler[tab[u].conn]
        BY <2>4, <4>1, <4>2
      <4>4. QED
        BY <3>1, <4>1, <4>3 DEF NoSilentClose
    <3>4. QED
      BY <3>2, <3>3
  <2>11. QED
    BY <2>8, <2>9, <2>10
<1>5. CASE ConnectFails(t) \/ OnMessage(t) \/ OnClose(t) \/ Retry(t)
  <2>1. PICK s \in {Loading, [Idle EXCEPT !.on = "timer"], [Idle EXCEPT !.retry = TRUE]} :
          Become(t, s) /\ UNCHANGED <<handler, shown>>
    BY <1>5 DEF ConnectFails, OnMessage, OnClose, Retry
  <2>2. s \in Tried /\ s.on # "open" /\ s.conn = NoConn
    <3>1. /\ Loading.on = "load" /\ Loading.conn = NoConn
          /\ [Idle EXCEPT !.on = "timer"].on = "timer"
          /\ [Idle EXCEPT !.on = "timer"].conn = NoConn
          /\ [Idle EXCEPT !.retry = TRUE].on = "dial"
          /\ [Idle EXCEPT !.retry = TRUE].conn = NoConn
      BY DEF Loading, Idle
    <3>2. CASE s = Loading
      BY <1>1, <3>1, <3>2
    <3>3. CASE s = [Idle EXCEPT !.on = "timer"]
      BY <1>1, <3>1, <3>3
    <3>4. CASE s = [Idle EXCEPT !.retry = TRUE]
      BY <1>1, <3>1, <3>4
    <3>5. QED
      BY <2>1, <3>2, <3>3, <3>4
  <2>3. QED
    BY <1>2, <2>1, <2>2 DEF TypeOK
<1>6. QED
  BY <1>3, <1>4, <1>5 DEF Script

LEMMA ServerIInv ==
  ASSUME IInv, Stop \/ Restart \/ UNCHANGED vars
  PROVE  IInv'
<1> USE ReloaderAssumption DEF IInv
<1>1. CASE Stop
  <2>1. TypeOK' /\ restarts' # 0
    <3>1. restarts' \in 0..MaxRestarts /\ restarts' # 0
      BY <1>1 DEF Stop, TypeOK
    <3>2. cb' \in [Callbacks -> {"idle", "broadcast", "done"}]
      BY <1>1 DEF Stop, TypeOK
    <3>3. /\ handler' \in [Conns -> {"none", "upgraded", "locked", "asleep", "awake",
                                     "write", "close"}]
          /\ \A c \in Conns : handler'[c] \in {"locked", "awake"} <=> mu' = c
      BY <1>1 DEF Stop
    <3>4. /\ up' = FALSE /\ waiters' = {}
          /\ UNCHANGED <<gen, sent, tab, shown, due>>
      BY <1>1 DEF Stop
    <3>5. QED
      BY <3>1, <3>2, <3>3, <3>4 DEF TypeOK
  <2>2. QED
    BY <1>1, <2>1 DEF Stop, ConnInv, NoSilentClose
<1>2. CASE Restart
  <2>1. gen' \in Nat /\ shown' \in [Tabs -> 0..gen'] /\ due' \in [Tabs -> 0..gen']
    BY <1>2 DEF Restart, TypeOK
  <2>2. TypeOK'
    BY <1>2, <2>1 DEF Restart, TypeOK, server
  <2>3. QED
    BY <1>2, <2>2 DEF Restart, server, ConnInv, NoSilentClose
<1>3. CASE UNCHANGED vars
  BY <1>3 DEF vars, server, TypeOK, ConnInv, NoSilentClose
<1>4. QED
  BY <1>1, <1>2, <1>3

LEMMA StepIInv == IInv /\ [Next]_vars => IInv'
  BY CallbackIInv, HandlerIInv, ScriptIInv, ServerIInv DEF Next

LEMMA Invariance == Spec => []IInv
  BY InitIInv, StepIInv, PTL DEF Spec

\* The state always has its type: the mutex of the condition variable has one
\* holder, and a handler on its list sleeps.
THEOREM TypeCorrect == Spec => []TypeOK
<1>1. IInv => TypeOK
  BY DEF IInv
<1>2. QED
  BY <1>1, Invariance, PTL

\* No tab loses its connection without a message, as long as the server runs.
THEOREM NoSilentCloseHolds == Spec => []NoSilentClose
<1>1. IInv => NoSilentClose
  BY DEF IInv
<1>2. QED
  BY <1>1, Invariance, PTL
-----------------------------------------------------------------------------
(* The response that is wrapped. *)

\* The Content-Length that counts the script, too.
Grown == IF response.length # None /\ IsHtml THEN response.length + ScriptSize
         ELSE response.length

\* The handler is honest: it never writes more than it has declared, and as
\* much when it has returned.
BodyInv == /\ FileServer /\ response.length # None => response.type # None
           /\ pc # "done" => Left >= 0 /\ written <= MaxBody
           /\ pc = "append" /\ response.length # None => Left = 0

\* http.FileServer calls WriteHeader once, which grows the header once and
\* sends it.
FileServerInv ==
  FileServer =>
    /\ IF calls = 0 THEN ~wroteHeader /\ header = response.length /\ written = 0
       ELSE wroteHeader /\ header = Grown /\ wire = Grown
    /\ pc # "handler" => calls > 0

\* The length of anything but HTML is never touched.
OtherInv == response.type = "other" =>
              header = response.length /\ wire \in {Unsent, response.length}

WrapInv == WrapTypeOK /\ BodyInv /\ FileServerInv /\ OtherInv /\ LengthMatches /\ OthersUntouched
-----------------------------------------------------------------------------
LEMMA WrapInitInv == WrapInit => WrapInv
<1> SUFFICES ASSUME WrapInit PROVE WrapInv
  OBVIOUS
<1> USE WrapAssumption DEF WrapInit, Responses
<1>1. response.length \in {None} \cup 0..MaxBody
  OBVIOUS
<1>2. WrapTypeOK
  <2>1. header \in Nat \cup {None}
    BY <1>1
  <2>2. written \in 0..(MaxBody + ScriptSize) /\ calls \in 0..MaxHeaders
    OBVIOUS
  <2>3. QED
    BY <2>1, <2>2 DEF WrapTypeOK
<1>3. BodyInv
  BY <1>1 DEF BodyInv, FileServer, Left
<1>4. QED
  BY <1>1, <1>2, <1>3 DEF WrapInv, FileServerInv, OtherInv, LengthMatches, OthersUntouched,
                         FileServer

\* The header that goes out, and what it leaves alone.
LEMMA SendHeaderInv ==
  ASSUME WrapInv, pc = "handler", SendHeader, UNCHANGED response,
         FileServer => calls = 0
  PROVE  /\ header' \in Nat \cup {None} /\ wire' \in Nat \cup {None}
         /\ wroteHeader' /\ code' \in {0, 200}
         /\ FileServer => header' = Grown /\ wire' = Grown
         /\ OtherInv'
<1> USE WrapAssumption DEF WrapInv, WrapTypeOK
<1>1. Grow \in Nat \cup {None} /\ (header = response.length => Grow = Grown)
  BY DEF Grow, Grown
<1>2. response.type = "other" => Grow = header
  BY DEF Grow, IsHtml
<1>3. wroteHeader => wire \in Nat \cup {None}
  OBVIOUS
<1>4. QED
  BY <1>1, <1>2, <1>3 DEF SendHeader, FileServerInv, OtherInv, IsHtml

LEMMA WrapHandlerInv ==
  ASSUME WrapInv, WriteHeader \/ Flush \/ Return \/ (\E n \in 1..MaxBody : Write(n))
  PROVE  WrapInv'
<1> USE WrapAssumption DEF WrapInv
<1>1. CASE WriteHeader
  <2>1. /\ header' \in Nat \cup {None} /\ wire' \in Nat \cup {None}
        /\ wroteHeader' /\ code' \in {0, 200}
        /\ FileServer => header' = Grown /\ wire' = Grown
        /\ OtherInv'
    BY <1>1, SendHeaderInv DEF WriteHeader
  <2>2. WrapTypeOK'
    BY <1>1, <2>1 DEF WriteHeader, WrapTypeOK, SendHeader
  <2>3. BodyInv' /\ LengthMatches' /\ OthersUntouched'
    BY <1>1 DEF WriteHeader, BodyInv, FileServer, Left, LengthMatches, OthersUntouched
  <2>4. FileServerInv'
    BY <1>1, <2>1 DEF WriteHeader, FileServerInv, FileServer, Grown, IsHtml, WrapTypeOK
  <2>5. QED
    BY <2>1, <2>2, <2>3, <2>4
<1>2. CASE Flush
  <2>1. WrapTypeOK'
    BY <1>2 DEF Flush, WrapTypeOK
  <2>2. BodyInv' /\ LengthMatches' /\ OthersUntouched' /\ FileServerInv'
    BY <1>2 DEF Flush, BodyInv, FileServerInv, FileServer, Left, LengthMatches, OthersUntouched
  <2>3. OtherInv'
    BY <1>2 DEF Flush, OtherInv
  <2>4. QED
    BY <2>1, <2>2, <2>3
<1>3. CASE Return
  <2>1. WrapTypeOK'
    BY <1>3 DEF Return, WrapTypeOK
  <2>2. QED
    BY <1>3, <2>1 DEF Return, BodyInv, FileServerInv, OtherInv, FileServer, Left, Grown, IsHtml,
                      LengthMatches, OthersUntouched
<1>4. ASSUME NEW n \in 1..MaxBody, Write(n)
      PROVE  WrapInv'
  <2>1. /\ pc = "handler" /\ n <= Left /\ written' = written + n
        /\ UNCHANGED <<response, calls, pc>>
        /\ FileServer => calls > 0
    BY <1>4 DEF Write
  <2>2. /\ written + n \in 0..MaxBody /\ BodyInv'
    BY <2>1 DEF BodyInv, Left, FileServer, WrapTypeOK, Responses
  <2>3. CASE wroteHeader
    <3>1. UNCHANGED <<header, wroteHeader, code, wire>>
      BY <1>4, <2>3 DEF Write
    <3>2. WrapTypeOK'
      BY <2>1, <2>2, <3>1 DEF WrapTypeOK
    <3>3. QED
      BY <2>1, <2>2, <2>3, <3>1, <3>2 DEF FileServerInv, OtherInv, FileServer, Grown, IsHtml,
                                LengthMatches, OthersUntouched, WrapTypeOK
  <2>4. CASE ~wroteHeader
    <3>1. SendHeader /\ ~FileServer
      BY <1>4, <2>1, <2>4 DEF Write, FileServerInv, WrapTypeOK
    <3>2. /\ header' \in Nat \cup {None} /\ wire' \in Nat \cup {None}
          /\ wroteHeader' /\ code' \in {0, 200} /\ OtherInv'
      BY <2>1, <3>1, SendHeaderInv
    <3>3. WrapTypeOK'
      BY <2>1, <2>2, <3>1, <3>2 DEF WrapTypeOK, SendHeader
    <3>4. QED
      BY <2>1, <2>2, <3>1, <3>2, <3>3 DEF FileServerInv, FileServer, LengthMatches, OthersUntouched
  <2>5. QED
    BY <2>3, <2>4
<1>5. QED
  BY <1>1, <1>2, <1>3, <1>4

\* The script is appended when the length on the wire counts it.
LEMMA AppendScriptInv ==
  ASSUME WrapInv, AppendScript
  PROVE  WrapInv'
<1> USE WrapAssumption DEF WrapInv, AppendScript
<1>1. WrapTypeOK'
  BY DEF WrapTypeOK, BodyInv
<1>2. written' = IF Looks = "html" THEN written + ScriptSize ELSE written
  OBVIOUS
<1>3. LengthMatches'
  <2> SUFFICES ASSUME FileServer, wire' # None
               PROVE  written' = wire'
    BY DEF LengthMatches, FileServer
  <2>1. wire = Grown /\ wire # Unsent /\ wire' = Grown
    BY DEF FileServerInv, WrapTypeOK, Grown, Responses
  <2>2. response.length # None /\ response.length \in Nat /\ written = response.length
    BY <2>1 DEF Grown, BodyInv, Left, WrapTypeOK, Responses
  <2>3. response.type # None /\ (Looks = "html" <=> IsHtml)
    BY <2>2 DEF BodyInv, Looks, IsHtml
  <2>4. QED
    BY <1>2, <2>1, <2>2, <2>3 DEF Grown
<1>4. OthersUntouched' /\ OtherInv'
  <2> SUFFICES ASSUME response.type = "other"
               PROVE  /\ header' = response.length /\ wire' = response.length
                      /\ wire' # None => written' = wire'
    BY DEF OthersUntouched, OtherInv
  <2>1. header' = response.length /\ wire' = response.length
    BY DEF OtherInv
  <2>2. response.length # None => written = response.length
    BY DEF BodyInv, Left, WrapTypeOK, Responses
  <2>3. Looks = "other" \/ response.type = None
    BY DEF Looks
  <2>4. QED
    BY <1>2, <2>1, <2>2, <2>3
<1>5. BodyInv' /\ FileServerInv'
  BY DEF BodyInv, FileServerInv, FileServer, Grown, IsHtml, WrapTypeOK
<1>6. QED
  BY <1>1, <1>3, <1>4, <1>5

LEMMA WrapNextInv == WrapInv /\ [WrapNext]_wrapVars => WrapInv'
<1> SUFFICES ASSUME WrapInv, [WrapNext]_wrapVars PROVE WrapInv'
  OBVIOUS
<1>1. CASE UNCHANGED wrapVars
  BY <1>1 DEF wrapVars, WrapInv, WrapTypeOK, BodyInv, FileServerInv, OtherInv, LengthMatches, OthersUntouched,
              FileServer, Left, Grown, IsHtml
<1>2. CASE WrapNext
  BY <1>2, WrapHandlerInv, AppendScriptInv DEF WrapNext
<1>3. QED
  BY <1>1, <1>2
-----------------------------------------------------------------------------
\* The inductive invariant, of which every theorem takes its part.
THEOREM WrapInvariance == WrapSpec => []WrapInv
BY WrapInitInv, WrapNextInv, PTL DEF WrapSpec

\* The types, and that the wrapper knows whether the header is out for as long
\* as the handler runs.
THEOREM WrapTypeCorrect == WrapSpec => []WrapTypeOK
<1>1. WrapInv => WrapTypeOK
  BY DEF WrapInv
<1>2. QED
  BY <1>1, WrapInvariance, PTL

\* What http.FileServer serves has as many bytes as its Content-Length says,
\* the script included.
THEOREM LengthsMatch == WrapSpec => []LengthMatches
<1>1. WrapInv => LengthMatches
  BY DEF WrapInv
<1>2. QED
  BY <1>1, WrapInvariance, PTL

\* A response of another type than HTML is left as its handler made it.
THEOREM OthersAreUntouched == WrapSpec => []OthersUntouched
<1>1. WrapInv => OthersUntouched
  BY DEF WrapInv
<1>2. QED
  BY <1>1, WrapInvariance, PTL
=============================================================================
