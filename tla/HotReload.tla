------------------------------ MODULE HotReload ------------------------------
(***************************************************************************)
(* The whole path of a change, from the editor to the browser: the watch   *)
(* loop turns an event into a callback, the debouncer (LastCallWins, which *)
(* Debouncer implements) runs the last callback of a burst, the callback   *)
(* calls OnReload and broadcasts, and the tab loads the page again.        *)
(*                                                                         *)
(* Each part is reduced to what the others see of it: WatchLoop, Regenerate*)
(* and Reloader have their detail and its failures.                        *)
(***************************************************************************)
EXTENDS LastCallWins, Naturals, Sequences

CONSTANTS Files,      \* the markdown files
          Initial,    \* those there are at the start
          MaxEdits    \* bound: edits in a behaviour; each is one callback at most

\* What a callback is made with: path, and update.
Event == [file : Files, update : BOOLEAN]

ASSUME HotReloadAssumption == /\ Nil \notin Callbacks \cup Event
                              /\ Initial \subseteq Files /\ MaxEdits \in Nat

VARIABLES
  src, out,   \* the version of each source and of its output, 0 for none
  edits,      \* the edits so far
  queue,      \* events on their way to the watch loop
  what,       \* what[c]: the path and update that callback c was made with
  run,        \* run[c]: where callback c is, and the files it has yet to write
  tab,        \* "waiting" for a message, to "load" the page, or to "connect"
  page,       \* what the tab shows: the outputs there were when it loaded
  \* History, for the properties only.
  crowded,    \* changes came faster than they were dealt with
  unseen      \* a change that no callback submitted after it has broadcast

vars == <<submitted, pending, started, src, out, edits, queue, what, run, tab, page,
          crowded, unseen>>
files == <<src, out, edits>>

Fresh == [f \in Files |-> IF f \in Initial THEN 1 ELSE 0]

Init == /\ LCWInit
        /\ src = Fresh /\ out = Fresh /\ page = Fresh
        /\ edits = 0 /\ queue = <<>>
        /\ what = [c \in Callbacks |-> Nil]
        /\ run = [c \in Callbacks |-> [pc |-> "idle", todo |-> {}]]
        /\ tab = "waiting"
        /\ crowded = FALSE /\ unseen = FALSE

-----------------------------------------------------------------------------
(* The editor, and the event of the change. *)

Edit(f, v, event) == /\ edits < MaxEdits
                     /\ edits' = edits + 1
                     /\ src' = [src EXCEPT ![f] = v]
                     /\ queue' = Append(queue, event)
                     /\ unseen' = TRUE
                     /\ UNCHANGED <<submitted, pending, started, out, what, run, tab, page,
                                    crowded>>

Save(f) == src[f] # 0 /\ Edit(f, edits + 2, [file |-> f, update |-> TRUE])
Create(f) == src[f] = 0 /\ Edit(f, edits + 2, [file |-> f, update |-> FALSE])
Remove(f) == src[f] # 0 /\ Edit(f, 0, [file |-> f, update |-> FALSE])

-----------------------------------------------------------------------------
(* The watch loop hands a callback to the debouncer. *)

Debounce == /\ queue # <<>>
            /\ queue' = Tail(queue)
            /\ \E c \in Callbacks : /\ Submit(c)
                                    /\ what' = [what EXCEPT ![c] = Head(queue)]
            /\ crowded' = (crowded \/ pending # Nil)
            /\ UNCHANGED <<files, run, tab, page, unseen>>

-----------------------------------------------------------------------------
(* A callback, in a goroutine of its own. *)

Running(c) == run[c].pc = "write"

\* Mutant: only the file of the event is regenerated, whatever happened to it.
BeginWithFile(c) ==
  /\ Start(c)
  /\ run' = [run EXCEPT ![c] = [pc |-> "write", todo |-> {what[c].file}]]
  /\ crowded' = (crowded \/ \E d \in Callbacks : Running(d))
  /\ UNCHANGED <<files, queue, what, tab, page, unseen>>

\* OnReload: an update writes one file; anything else empties the target
\* folder and writes them all.
Begin(c) ==
  /\ Start(c)
  /\ run' = [run EXCEPT ![c] = [pc |-> "write",
                                todo |-> IF what[c].update THEN {what[c].file} ELSE Files]]
  /\ out' = IF what[c].update THEN out ELSE [f \in Files |-> 0]
  /\ crowded' = (crowded \/ \E d \in Callbacks : Running(d))
  /\ UNCHANGED <<src, edits, queue, what, tab, page, unseen>>

\* A file that cannot be read is not written.
Regenerate(c) ==
  /\ run[c].pc = "write"
  /\ \E f \in run[c].todo :
       /\ run' = [run EXCEPT ![c].todo = @ \ {f}]
       /\ out' = IF src[f] = 0 THEN out ELSE [out EXCEPT ![f] = src[f]]
  /\ UNCHANGED <<submitted, pending, started, src, edits, queue, what, tab, page,
                 crowded, unseen>>

\* Mutant: OnReload's early return for an update skips the broadcast too.
BroadcastUnlessUpdate(c) ==
  /\ run[c].pc = "write" /\ run[c].todo = {}
  /\ run' = [run EXCEPT ![c].pc = "done"]
  /\ IF what[c].update
       THEN UNCHANGED <<tab, unseen>>
       ELSE /\ tab' = IF tab = "waiting" THEN "load" ELSE tab
            /\ unseen' = (unseen /\ (queue # <<>> \/ pending # Nil))
  /\ UNCHANGED <<submitted, pending, started, files, queue, what, page, crowded>>

\* Broadcast: the tab reloads if its handler waits.  The change is dealt with
\* unless a later one is still on its way.
Broadcast(c) ==
  /\ run[c].pc = "write" /\ run[c].todo = {}
  /\ run' = [run EXCEPT ![c].pc = "done"]
  /\ tab' = IF tab = "waiting" THEN "load" ELSE tab
  /\ crowded' = (crowded \/ tab # "waiting")
  /\ unseen' = (unseen /\ (queue # <<>> \/ pending # Nil
                           \/ \E d \in Callbacks \ {c} : Running(d)))
  /\ UNCHANGED <<submitted, pending, started, files, queue, what, page>>

-----------------------------------------------------------------------------
(* The tab. *)

Load == /\ tab = "load"
        /\ tab' = "connect"
        /\ page' = out
        /\ UNCHANGED <<submitted, pending, started, files, queue, what, run, crowded, unseen>>

Connect == /\ tab = "connect"
           /\ tab' = "waiting"
           /\ UNCHANGED <<submitted, pending, started, files, queue, what, run, page,
                          crowded, unseen>>

Callback(c) == Begin(c) \/ Regenerate(c) \/ Broadcast(c)
Browser == Load \/ Connect
Editor == \E f \in Files : Save(f) \/ Create(f) \/ Remove(f)

Next == Editor \/ Debounce \/ (\E c \in Callbacks : Callback(c)) \/ Browser

\* Goroutines run, timers expire, the browser acts; nobody has to edit.
Spec == /\ Init /\ [][Next]_vars
        /\ WF_vars(Debounce) /\ WF_vars(Browser)
        /\ \A c \in Callbacks : WF_vars(Callback(c))
-----------------------------------------------------------------------------
Versions == [Files -> Nat]

\* Types; a callback runs once the debouncer has started it.
TypeOK ==
  /\ src \in Versions /\ out \in Versions /\ page \in Versions
  /\ edits \in 0..MaxEdits /\ queue \in Seq(Event)
  /\ submitted \subseteq Callbacks /\ pending \in submitted \cup {Nil}
  /\ started \subseteq submitted
  /\ run \in [Callbacks -> [pc : {"idle", "write", "done"}, todo : SUBSET Files]]
  /\ what \in [Callbacks -> Event \cup {Nil}]
  /\ \A c \in Callbacks : /\ run[c].pc # "idle" <=> c \in started
                          /\ what[c] # Nil <=> c \in submitted
  /\ tab \in {"waiting", "load", "connect"}
  /\ crowded \in BOOLEAN /\ unseen \in BOOLEAN

\* Nothing is left to do for the changes so far.
Quiet == /\ queue = <<>> /\ pending = Nil /\ tab = "waiting"
         /\ \A c \in Callbacks : ~Running(c)

\* Changes that come one at a time - each callback is started before the next
\* event is handled, ends before the next one starts, and broadcasts to a tab
\* that waits - are all in the target folder and on the page in the end
\* (watch.go:79-123, windows.go:24-33, reloader.go:122-162).
SpacedChangesShown == Quiet /\ ~crowded => out = src /\ page = src

\* However changes come, a callback submitted after the last of them
\* broadcasts, after its files are written: no burst passes without a reload
\* message (watch.go:79-85, 97-121).
ChangesBroadcast == unseen ~> ~unseen

\* "OnReload will be called after a file changes" (reloader.go:19), with the
\* path of that file: in the end the outputs are those of the sources.
EveryChangeRegenerated == Quiet => out = src
=============================================================================
