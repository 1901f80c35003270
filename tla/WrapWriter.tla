----------------------------- MODULE WrapWriter -----------------------------
(***************************************************************************)
(* reload/wrapper.go and the middleware of reload/reloader.go: one request *)
(* whose response is wrapped so that the reload script can be appended.    *)
(*                                                                         *)
(* The wrapped handler is honest: when it declares a Content-Length it     *)
(* writes as many bytes.  The middleware then decides by the Content-Type, *)
(* or by the bytes it has seen go by, whether to append the script.        *)
(***************************************************************************)
EXTENDS Naturals

CONSTANTS MaxBody,     \* bound: the bytes a handler writes
          ScriptSize,  \* len(scriptToInject)
          MaxHeaders,  \* bound: calls of WriteHeader
          None,        \* a header that is not set
          Unsent       \* no header has gone out

ASSUME WrapAssumption ==
  /\ MaxBody \in Nat /\ ScriptSize \in Nat \ {0} /\ MaxHeaders \in Nat
  /\ None # Unsent /\ {None, Unsent} \cap Nat = {} /\ None \notin {"html", "other"}

VARIABLES
  response,     \* the length (or None), type (or None) and look of the body, and
                \* whether the handler is http.FileServer: that gives a length
                \* only with a type, calls WriteHeader once before the body, and
                \* never calls Flush
  header,       \* the Content-Length header as it stands
  wroteHeader,  \* b.wroteHeader
  code,         \* b.code
  wire,         \* the Content-Length that has gone out
  written,      \* the body bytes that have gone out
  calls,        \* the calls of WriteHeader
  pc            \* "handler", "append" or "done"

wrapVars == <<response, header, wroteHeader, code, wire, written, calls, pc>>

Responses == [length : {None} \cup 0..MaxBody, type : {"html", "other", None},
              look : {"html", "other"}, fileServer : BOOLEAN]
FileServer == response.fileServer

WrapInit == /\ response \in {r \in Responses :
                               r.fileServer /\ r.length # None => r.type # None}
            /\ header = response.length
            /\ wroteHeader = FALSE /\ code = 0 /\ wire = Unsent
            /\ written = 0 /\ calls = 0
            /\ pc = "handler"

-----------------------------------------------------------------------------
\* WriteHeader grows the length, and sends the header if that has not been done.
IsHtml == response.type = "html"

\* Mutant: the length is grown for every type.
GrowAny == IF header # None THEN header + ScriptSize ELSE header

\* Mutant: the length is taken to be right.
GrowNever == header

Grow == IF header # None /\ IsHtml THEN header + ScriptSize ELSE header

SendHeader == /\ header' = Grow
              /\ wroteHeader' = TRUE
              /\ code' = IF wroteHeader THEN code ELSE 200
              /\ wire' = IF wroteHeader THEN wire ELSE Grow

WriteHeader == /\ pc = "handler" /\ calls < MaxHeaders
               /\ FileServer => calls = 0 /\ written = 0
               /\ calls' = calls + 1
               /\ SendHeader
               /\ UNCHANGED <<response, written, pc>>

\* maybeWriteHeader, then the bytes.  ReadFrom, too, copies them through Write,
\* because a tee is set.
Left == (IF response.length = None THEN MaxBody ELSE response.length) - written
Write(n) == /\ pc = "handler" /\ n <= Left
            /\ FileServer => calls > 0
            /\ IF wroteHeader THEN UNCHANGED <<header, wroteHeader, code, wire>>
                              ELSE SendHeader
            /\ written' = written + n
            /\ UNCHANGED <<response, calls, pc>>

\* Flush takes the header as sent, and the server sends it as it stands.
Flush == /\ pc = "handler" /\ ~FileServer
         /\ wroteHeader' = TRUE
         /\ wire' = IF wroteHeader THEN wire ELSE header
         /\ UNCHANGED <<response, header, code, written, calls, pc>>

Return == /\ pc = "handler"
          /\ response.length # None => Left = 0
          /\ FileServer => calls > 0
          /\ pc' = "append"
          /\ UNCHANGED <<response, header, wroteHeader, code, wire, written, calls>>

\* Handle, after next.ServeHTTP: the type is the declared one or what the first
\* bytes look like, and the script goes to the server's own writer.
Looks == IF response.type # None THEN response.type
         ELSE IF written > 0 THEN response.look ELSE "other"

AppendScript == /\ pc = "append"
                /\ written' = IF Looks = "html" THEN written + ScriptSize ELSE written
                /\ wire' = IF wire = Unsent THEN header ELSE wire
                /\ pc' = "done"
                /\ UNCHANGED <<response, header, wroteHeader, code, calls>>

WrapNext == \/ WriteHeader \/ Flush \/ Return \/ AppendScript
            \/ \E n \in 1..MaxBody : Write(n)

WrapSpec == WrapInit /\ [][WrapNext]_wrapVars
-----------------------------------------------------------------------------
\* Types; while the handler runs, its wrapper knows whether the header is out.
WrapTypeOK == /\ response \in Responses
              /\ header \in Nat \cup {None} /\ wire \in Nat \cup {None, Unsent}
              /\ wroteHeader \in BOOLEAN /\ code \in {0, 200}
              /\ written \in 0..(MaxBody + ScriptSize) /\ calls \in 0..MaxHeaders
              /\ pc \in {"handler", "append", "done"}
              /\ pc # "done" => (wroteHeader <=> wire # Unsent)

\* What http.FileServer serves - here the only handler that is wrapped
\* (windows.go:17, 34) - goes out with as many bytes as its Content-Length says,
\* the script included (wrapper.go:79-92, reloader.go:111-115).
LengthMatches == pc = "done" /\ FileServer /\ wire # None => written = wire

\* A response declared to be something else than HTML is left as its handler
\* made it, in whatever order that writes, flushes and sends headers.
OthersUntouched ==
  pc = "done" /\ response.type = "other" =>
    wire = response.length /\ (wire # None => written = wire)
=============================================================================
