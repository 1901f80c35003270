----------------------------- MODULE WatchLoop -----------------------------
(***************************************************************************)
(* reload/watch.go, WatchDirectories: the walk that registers a watch for  *)
(* every directory, and the loop that turns the events of those watches    *)
(* into calls of the debouncer.                                            *)
(*                                                                         *)
(* An entry stands for a path.  The watcher is seen through what it        *)
(* promises: it reports each change of a child of a watched directory, in  *)
(* order, and its watches follow a directory that is renamed.              *)
(***************************************************************************)
EXTENDS Naturals, Sequences, FiniteSets

CONSTANTS Entries,     \* the paths under the watched root, the root included
          Dirs,        \* those that are, or would be, directories
          Root,        \* the one member of reload.directories
          Parent,      \* Parent[e]: the directory e is in, for e # Root
          Ignored,     \* the paths whose name ends in "~"
          Initial,     \* the paths that exist when the server starts
          Changes,     \* which of "create", "write", "delete", "move" happen
          Overflows,   \* whether the kernel may drop what it had to report
          MaxChanges   \* bound: changes of the tree in a behaviour

\* With a directory, S has what is in it of the given paths.
Closed(S, paths) == \A e \in paths \ {Root} : Parent[e] \in S => e \in S

ASSUME WatchAssumption ==
  /\ Root \in Dirs /\ Dirs \subseteq Entries
  /\ Parent \in [Entries \ {Root} -> Dirs]
  /\ \A S \in SUBSET Entries : Root \in S /\ Closed(S, Entries) => S = Entries
  /\ Ignored \subseteq Entries \ {Root}
  /\ Root \in Initial /\ Initial \subseteq Entries
  /\ \A e \in Initial \ {Root} : Parent[e] \in Initial
  /\ Changes \subseteq {"create", "write", "delete", "move"}
  /\ Overflows \in BOOLEAN /\ MaxChanges \in Nat

VARIABLES
  tree,     \* the paths that exist
  watched,  \* the directories that have a watch
  queue,    \* the events (and errors) on their way to the loop
  loop,     \* where WatchDirectories is, and what is left of its setup:
            \* directories to read and directories to add
  changes,  \* the changes so far
  \* History, for the properties only.
  stale,    \* a reported change that no later call of the debouncer covers
  lost,     \* the kernel has dropped a change
  settled   \* the directories there from the start, never removed nor renamed

vars == <<tree, watched, queue, loop, changes, stale, lost, settled>>

Children(d) == {e \in tree \ {Root} : Parent[e] = d}
Subdirs(d) == Children(d) \cap Dirs

\* The paths at and below e that exist, the smallest closed set that has e.
Below(e) == {x \in tree : e \in tree /\ \A S \in SUBSET tree :
                            e \in S /\ Closed(S, tree) => x \in S}

Init == /\ tree = Initial
        /\ watched = {}
        /\ queue = <<>>
        /\ loop = [pc |-> "walk", read |-> {Root}, add |-> {}]
        /\ changes = 0
        /\ stale = FALSE /\ lost = FALSE
        /\ settled = Initial \cap Dirs

-----------------------------------------------------------------------------
(* Setup: recursiveWalk, then Add for each directory found. *)

\* WalkDir reads the directories one after another ...
Read == /\ loop.pc = "walk"
        /\ \E d \in loop.read :
             /\ d \in tree
             /\ loop' = [loop EXCEPT !.read = (@ \ {d}) \cup Subdirs(d), !.add = @ \cup {d}]
        /\ UNCHANGED <<tree, watched, queue, changes, stale, lost, settled>>

\* ... and gives up when one it has listed is gone: no directory is watched.
ReadFails == /\ loop.pc = "walk" /\ loop.read \ tree # {}
             /\ loop' = [loop EXCEPT !.pc = "returned"]
             /\ UNCHANGED <<tree, watched, queue, changes, stale, lost, settled>>

WalkDone == /\ loop.pc = "walk" /\ loop.read = {}
            /\ loop' = [loop EXCEPT !.pc = "add"]
            /\ UNCHANGED <<tree, watched, queue, changes, stale, lost, settled>>

\* Mutant: setup ends at the first directory that cannot be added.
AddOrStop == /\ loop.pc = "add"
             /\ \E d \in loop.add :
                  /\ loop' = [loop EXCEPT !.add = IF d \in tree THEN @ \ {d} ELSE {}]
                  /\ watched' = watched \cup ({d} \cap tree)
             /\ UNCHANGED <<tree, queue, changes, stale, lost, settled>>

\* The error of Add is ignored.
AddOne == /\ loop.pc = "add"
          /\ \E d \in loop.add :
               /\ loop' = [loop EXCEPT !.add = @ \ {d}]
               /\ watched' = watched \cup ({d} \cap tree)
          /\ UNCHANGED <<tree, queue, changes, stale, lost, settled>>

AddDone == /\ loop.pc = "add" /\ loop.add = {}
           /\ loop' = [loop EXCEPT !.pc = "select"]
           /\ UNCHANGED <<tree, watched, queue, changes, stale, lost, settled>>

-----------------------------------------------------------------------------
(* The loop: one event at a time. *)

Take(op) == /\ loop.pc = "select" /\ queue # <<>> /\ Head(queue).op = op
            /\ queue' = Tail(queue)
            /\ UNCHANGED <<tree, loop, changes, lost, settled>>

Name == Head(queue).name

\* A debouncer call: its callback will run after every change so far.
Debounce == stale' = FALSE
NoDebounce == UNCHANGED stale

\* case err := <-w.Errors
Error == Take("error") /\ NoDebounce /\ UNCHANGED watched

\* A name that ends in "~".
Ignore == /\ \E op \in {"create", "write", "gone"} : Take(op)
          /\ Name \in Ignored
          /\ NoDebounce /\ UNCHANGED watched

\* Create: w.Add(filepath.Dir(e.Name)); when that fails the event is dropped.
Created == /\ Take("create") /\ Name \notin Ignored
           /\ LET dir == Parent[Name] IN
              IF dir \in tree
                THEN watched' = watched \cup {dir} /\ Debounce
                ELSE NoDebounce /\ UNCHANGED watched

Written == /\ Take("write") /\ Name \notin Ignored
           /\ Debounce /\ UNCHANGED watched

\* Mutant: the event is dropped unless there was something left to walk.
GoneOnlyIfThere == /\ Take("gone") /\ Name \notin Ignored
                   /\ watched' = watched \ Below(Name)
                   /\ IF Name \in tree THEN Debounce ELSE NoDebounce

\* Rename and Remove: the directories found under the old path lose their watch.
Gone == /\ Take("gone") /\ Name \notin Ignored
        /\ watched' = watched \ Below(Name)
        /\ Debounce

Handle == Error \/ Ignore \/ Created \/ Written \/ Gone
Loop == Read \/ ReadFails \/ WalkDone \/ AddOne \/ AddDone \/ Handle

-----------------------------------------------------------------------------
(* The tree changes, and the watcher reports it. *)

\* What the watches of the given directories report; with a full buffer the
\* kernel reports an error instead, and the change is lost.
Report(evs) ==
  /\ \/ /\ queue' = queue \o evs
        /\ stale' = (stale \/ \E i \in DOMAIN evs : evs[i].name \notin Ignored)
        /\ UNCHANGED lost
     \/ /\ Overflows /\ evs # <<>>
        /\ queue' = Append(queue, [op |-> "error"])
        /\ lost' = TRUE /\ UNCHANGED stale
  /\ changes' = changes + 1
  /\ UNCHANGED loop

Seen(dir, op, e) == IF dir \in watched THEN <<[op |-> op, name |-> e]>> ELSE <<>>

Change(kind) == kind \in Changes /\ changes < MaxChanges /\ loop.pc # "returned"

Create(e) == /\ Change("create")
             /\ e \notin tree /\ Parent[e] \in tree
             /\ tree' = tree \cup {e}
             /\ Report(Seen(Parent[e], "create", e))
             /\ UNCHANGED <<watched, settled>>

Write(e) == /\ Change("write")
            /\ e \in tree \ Dirs
            /\ Report(Seen(Parent[e], "write", e))
            /\ UNCHANGED <<tree, watched, settled>>

\* A directory's own watch reports its removal too, and ends with it.
Delete(e) == /\ Change("delete")
             /\ e \in tree /\ Children(e) = {}
             /\ tree' = tree \ {e}
             /\ watched' = watched \ {e}
             /\ Report(Seen(Parent[e], "gone", e) \o Seen(e, "gone", e))
             /\ settled' = settled \ {e}

\* A file or an empty directory gets another name in the same directory.
Move(e, new) == /\ Change("move")
                /\ e \in tree /\ Children(e) = {} /\ new \notin tree
                /\ Parent[e] = Parent[new] /\ (e \in Dirs <=> new \in Dirs)
                /\ tree' = (tree \ {e}) \cup {new}
                /\ watched' = IF e \in watched THEN (watched \ {e}) \cup {new} ELSE watched
                /\ Report(Seen(Parent[e], "gone", e) \o Seen(Parent[e], "create", new))
                /\ settled' = settled \ {e}

Environment == \E e \in Entries \ {Root} :
                 \/ Create(e) \/ Write(e) \/ Delete(e)
                 \/ \E new \in Entries \ {Root} : Move(e, new)

Next == Loop \/ Environment

\* The goroutine runs as long as it has something to do.
Spec == Init /\ [][Next]_vars /\ WF_vars(Loop)
-----------------------------------------------------------------------------
Events == [op : {"create", "write", "gone"}, name : Entries \ {Root}] \cup [op : {"error"}]

\* Types; only directories that exist are watched, and a path that exists is
\* in a directory that exists.
TypeOK ==
  /\ tree \subseteq Entries /\ Root \in tree
  /\ \A e \in tree \ {Root} : Parent[e] \in tree
  /\ watched \subseteq tree \cap Dirs
  /\ queue \in Seq(Events)
  /\ loop \in [pc : {"walk", "add", "select", "returned"},
               read : SUBSET Dirs, add : SUBSET Dirs]
  /\ changes \in 0..MaxChanges /\ stale \in BOOLEAN /\ lost \in BOOLEAN
  /\ settled \subseteq tree \cap Dirs

\* Whatever is created, deleted and renamed around them while the setup runs
\* and afterwards, the directories that were there from the start and stay
\* where they are have a watch and keep it (watch.go:51-72, 112-120).
SettledWatched == loop.pc = "select" => settled \subseteq watched

\* A change that is reported is always followed by a call of the debouncer, even
\* where the event is dropped because its directory went away meanwhile: the
\* removal of that directory is an event of its own - unless the kernel has
\* dropped that one (watch.go:88-123).
ChangesCovered == stale ~> (~stale \/ lost)
=============================================================================
