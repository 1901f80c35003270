-------------------------- MODULE FsnotifyWatches --------------------------
(***************************************************************************)
(* fsnotify/backend_windows.go: the watches of the Windows backend, the    *)
(* reads that the kernel does for them, and what readEvents makes of the   *)
(* packets in the completion port.                                         *)
(*                                                                         *)
(* How callers hand over their requests, and how events leave the reader,  *)
(* is the subject of FsnotifyChannels: here a request is a packet that the *)
(* reader answers when it comes to it.  Every watch asks for all events    *)
(* (sysFSALLEVENTS), so a mask is all or nothing, and sysFSIGNORED, which  *)
(* is not among them, is never sent.  Recursive watches cannot be had: the *)
(* switch for them is in the tests of fsnotify only.                       *)
(***************************************************************************)
EXTENDS Naturals, SequencesExt, FiniteSetsExt

CONSTANTS Root,         \* the directory that everything is in; it stays
          Dirs, Files,  \* the other directories, and the files: i-numbers
          Names,        \* what directories and files are called
          Rest,         \* Rest[<<"ab", "a">>] = "b": names that extend others
          Starts,       \* [tree, used, calls, changes, faults]: where directories and
                        \* files are at the start, the names that were given before,
                        \* and bounds of what happens from then on
          New, Gone,    \* an i-number before it is used, and after that
          None,         \* no watch, no name
          MaxKernel,    \* changes that fit into the buffer of the kernel
          Callers,      \* bound: requests at a time: the callers there are
          MaxWatches    \* bound

Inodes == {Root} \cup Dirs \cup Files
Folders == {Root} \cup Dirs

Ids == 1 .. MaxWatches
Place == [in : Folders, name : Names]
Texts == Names \cup {Rest[pair] : pair \in DOMAIN Rest}
Acts == [act : {"added", "modified", "old", "new", "removed"}, name : Names]
Entries == [id : Nat, last : BOOLEAN]
Watch ==
  [ino : Folders, path : Seq(Texts), mask : BOOLEAN, names : SUBSET Names,
   rename : Names \cup {None}, buf : Seq(Entries), open : BOOLEAN, pending : BOOLEAN,
   kernel : Seq(Nat), full : BOOLEAN, seen : Seq(Acts), told : Seq(Nat),
   overflowed : BOOLEAN, overwritten : BOOLEAN, failed : BOOLEAN, along : BOOLEAN]

\* What there is, is in the root or in a directory of the root.
Nested(tree) == \A n \in DOMAIN tree : tree[n] \notin {New, Gone} =>
                  \/ tree[n].in = Root
                  \/ tree[tree[n].in] \notin {New, Gone} /\ tree[tree[n].in].in = Root

ASSUME WatchesAssumption ==
  /\ {Callers, MaxKernel, MaxWatches} \subseteq Nat
  /\ Root \notin Dirs \cup Files /\ Dirs \cap Files = {}
  /\ None \notin Names /\ None \notin Ids /\ None \notin Watch
  /\ {New, Gone} \cap Place = {} /\ New # Gone

\* What is there at the start has a place of its own, and a name that is not given again.
There(tree) == {n \in DOMAIN tree : tree[n] \notin {New, Gone}}
ASSUME StartsAssumption ==
  \A s \in Starts :
    /\ {s.calls, s.changes, s.faults} \subseteq Nat
    /\ s.tree \in [Dirs \cup Files -> Place \cup {New, Gone}] /\ Nested(s.tree)
    /\ \A m, n \in There(s.tree) : s.tree[m] = s.tree[n] => m = n
    /\ s.used \subseteq Names /\ \A n \in There(s.tree) : s.tree[n].name \in s.used

VARIABLES
  place,    \* the file system: the folder and the name of each inode
  used,     \* the names given so far: none is given twice
  watch,    \* the watches made so far; see NewWatch
  watches,  \* w.watches: the watch of an inode, or None
  port,     \* the completion port: requests, and ends of reads
  rd,       \* the reader: waiting, or at an entry of the buffer of a watch
  left      \* what the bounds still allow

vars == <<place, used, watch, watches, port, rd, left>>

\* A watch, the handle it holds and the read that is under way for it.  seen and
\* told are history: the changes in the directory, by which the kernel's and the
\* watch's buffers refer to them, and those that the reader has come to; along is
\* whether the watches above had the paths of their folders when it was made.
NewWatch(n, p, along) ==
  [ino |-> n, path |-> p, mask |-> FALSE, names |-> {}, rename |-> None, buf |-> <<>>,
   open |-> TRUE, pending |-> FALSE, kernel |-> <<>>, full |-> FALSE,
   seen |-> <<>>, told |-> <<>>, overflowed |-> FALSE, overwritten |-> FALSE, failed |-> FALSE,
   along |-> along]

Watches == {w \in Ids : watch[w] # None}

\* The path of an inode below the root, which is what a handle can be had for.
Exists(n) == n \in {Root} \cup {m \in Dirs \cup Files : place[m] \notin {New, Gone}}
PathOf(n) == IF n = Root THEN <<>>
             ELSE IF place[n].in = Root THEN <<place[n].name>>
             ELSE <<place[place[n].in].name, place[n].name>>
At(p) == {n \in Inodes : Exists(n) /\ PathOf(n) = p}

Init == \E s \in Starts :
  /\ place = s.tree /\ used = s.used
  /\ watch = [w \in Ids |-> None] /\ watches = [n \in Folders |-> None]
  /\ port = <<>> /\ rd = [pc |-> "get"]
  /\ left = [calls |-> s.calls, changes |-> s.changes, faults |-> s.faults]

-----------------------------------------------------------------------------
(* The kernel: what happens in a directory is noted for each handle on it,  *)
(* and ends the read that is pending there.                                 *)

\* notes: for each folder, what is noted there.  A buffer that is too small for
\* all of them is thrown away as a whole.
Noted(w, ns) ==
  LET ids == [i \in DOMAIN ns |-> Len(w.seen) + i]
      fits == ~w.full /\ Len(w.kernel) + Len(ns) <= MaxKernel
  IN [w EXCEPT !.seen = @ \o ns,
               !.kernel = IF fits THEN @ \o ids ELSE <<>>,
               !.full = ~fits, !.overflowed = @ \/ ~fits]
Note(f, notes) ==
  watch' = [w \in Ids |-> IF w \in Watches /\ watch[w].open /\ watch[w].ino = f
                          THEN Noted(watch[w], notes) ELSE watch[w]]
Act(a, name) == [act |-> a, name |-> name]

Change == /\ left.changes > 0 /\ left' = [left EXCEPT !.changes = @ - 1]
          /\ UNCHANGED <<watches, rd>>
Named(name) == name \notin used /\ used' = used \cup {name}

Create(n, f, name) ==
  /\ Change /\ place[n] = New /\ Exists(f) /\ Named(name)
  /\ f # Root => place[f].in = Root
  /\ place' = [place EXCEPT ![n] = [in |-> f, name |-> name]]
  /\ Note(f, <<Act("added", name)>>)
  /\ UNCHANGED port

Modify(n) ==
  /\ Change /\ n \in Files /\ Exists(n)
  /\ Note(place[n].in, <<Act("modified", place[n].name)>>)
  /\ UNCHANGED <<place, used, port>>

Rename(n, name) ==
  /\ Change /\ Exists(n) /\ Named(name)
  /\ place' = [place EXCEPT ![n].name = name]
  /\ Note(place[n].in, <<Act("old", place[n].name), Act("new", name)>>)
  /\ UNCHANGED port

\* The reads of a directory that goes are denied.
Delete(n) ==
  /\ Change /\ Exists(n) /\ ~ \E m \in Dirs \cup Files : Exists(m) /\ place[m].in = n
  /\ place' = [place EXCEPT ![n] = Gone]
  /\ LET denied == {w \in Watches : watch[w].ino = n /\ watch[w].pending}
     IN /\ watch' = [w \in Ids |->
                       IF w \in denied THEN [watch[w] EXCEPT !.pending = FALSE]
                       ELSE IF w \in Watches /\ watch[w].open /\ watch[w].ino = place[n].in
                       THEN Noted(watch[w], <<Act("removed", place[n].name)>>) ELSE watch[w]]
        /\ port' = port \o SetToSeq({[for |-> w, st |-> "denied", n |-> 0] : w \in denied})
  /\ UNCHANGED used

\* A read ends with some of what was noted.  Its buffer may hold what the reader
\* has not come to: that is then lost.
Unread(w) == \/ \E i \in DOMAIN port : port[i].for = w /\ port[i].st = "ok"
             \/ rd.pc = "parse" /\ rd.w = w
Complete(w) ==
  /\ watch[w].pending /\ watch[w].kernel # <<>>
  /\ \E k \in 1 .. Len(watch[w].kernel) :
       LET batch == [i \in 1 .. k |-> [id |-> watch[w].kernel[i], last |-> i = k]] IN
       /\ watch' = [watch EXCEPT ![w].pending = FALSE, ![w].kernel = SubSeq(@, k + 1, Len(@)),
                                 ![w].buf = batch \o SubSeq(@, k + 1, Len(@)),
                                 ![w].overwritten = @ \/ Unread(w)]
       /\ port' = Append(port, [for |-> w, st |-> "ok", n |-> k])
  /\ UNCHANGED <<place, used, watches, rd, left>>
Overflow(w) ==
  /\ watch[w].pending /\ watch[w].full
  /\ watch' = [watch EXCEPT ![w].pending = FALSE, ![w].full = FALSE]
  /\ port' = Append(port, [for |-> w, st |-> "ok", n |-> 0])
  /\ UNCHANGED <<place, used, watches, rd, left>>
\* Any other error, such as of a share that is no longer reached.
Fault(w) ==
  /\ left.faults > 0 /\ watch[w].pending
  /\ left' = [left EXCEPT !.faults = @ - 1]
  /\ watch' = [watch EXCEPT ![w].pending = FALSE]
  /\ port' = Append(port, [for |-> w, st |-> "error", n |-> 0])
  /\ UNCHANGED <<place, used, watches, rd>>

-----------------------------------------------------------------------------
(* The operations on watches, on s = [watch, watches, port].                *)

State == [watch |-> watch, watches |-> watches, port |-> port]
Become(s) == \E t \in {s} : watch' = t.watch /\ watches' = t.watches /\ port' = t.port

\* deleteWatch: nothing is watched; the watch stays where it is.
DeleteWatch(s, w) == [s EXCEPT !.watch[w].mask = FALSE, !.watch[w].names = {}]

\* The end of startRead when nothing is watched: whatever watch the inode has
\* leaves the map.
\* Mutant: the watch stays in it.
CloseHandle(s, w) == [s EXCEPT !.watch[w].open = FALSE, !.watch[w].pending = FALSE,
                               !.watch[w].kernel = <<>>, !.watch[w].full = FALSE]
CloseWatch(s, w) == [CloseHandle(s, w) EXCEPT !.watches[s.watch[w].ino] = None]

\* CancelIo ends the pending read, and fails on a handle that is closed.
CancelIo(s, w) ==
  IF ~s.watch[w].open THEN DeleteWatch(s, w)
  ELSE IF ~s.watch[w].pending THEN s
  ELSE [s EXCEPT !.watch[w].pending = FALSE,
                 !.port = Append(@, [for |-> w, st |-> "aborted", n |-> 0])]

\* startRead; fails: ReadDirectoryChanges does, as it does when the directory is
\* gone.
StartRead(s, w, fails) ==
  LET c == CancelIo(s, w) IN
  IF ~c.watch[w].mask /\ c.watch[w].names = {} THEN CloseWatch(c, w)
  ELSE IF fails \/ ~Exists(c.watch[w].ino) THEN CloseWatch(DeleteWatch(c, w), w)
  ELSE [c EXCEPT !.watch[w].pending = TRUE]

Attempts == IF left.faults > 0 THEN BOOLEAN ELSE {FALSE}
Attempt(fails) == left' = [left EXCEPT !.faults = @ - IF fails THEN 1 ELSE 0]

\* What a request is for: the folder, and the name in it unless it is the folder.
FolderOf(n) == IF n \in Files THEN place[n].in ELSE n
Marked(s, w, n, on) ==
  IF n \notin Files THEN [s EXCEPT !.watch[w].mask = on]
  ELSE [s EXCEPT !.watch[w].names = IF on THEN @ \cup {place[n].name} ELSE @ \ {place[n].name}]

\* The folders that a folder is in, and whether the watches there have their paths.
Above(f) == IF f = Root THEN {} ELSE {Root} \cup {place[f].in}
Along(s, f) ==
  \A g \in Above(f) : s.watches[g] # None => s.watch[s.watches[g]].path = PathOf(g)

\* addWatch.  The read starts even if the folder is watched already.
AddWatch(s, n, fails) ==
  LET f == FolderOf(n)
      known == s.watches[f] # None
      w == IF known THEN s.watches[f] ELSE Min({v \in Ids : s.watch[v] = None})
      t == IF known THEN s
           ELSE [s EXCEPT !.watch[w] = NewWatch(f, PathOf(f), Along(s, f)), !.watches[f] = w]
  IN StartRead(Marked(t, w, n, TRUE), w, fails)

\* remWatch
RemWatch(s, n, fails) ==
  LET w == s.watches[FolderOf(n)] IN
  IF w = None THEN s ELSE StartRead(Marked(s, w, n, FALSE), w, fails)

-----------------------------------------------------------------------------
(* Callers, and the reader: readEvents.                                     *)

\* Add and Remove: the request waits in the port until the reader answers it.
Call(op, p) ==
  /\ left.calls > 0 /\ rd.pc # "closed"
  /\ Cardinality({i \in DOMAIN port : port[i].st = "wake"}) < Callers
  /\ port' = Append(port, [for |-> None, st |-> "wake", op |-> op, path |-> p])
  /\ left' = [left EXCEPT !.calls = @ - 1]
  /\ UNCHANGED <<place, used, watch, watches, rd>>

Packet == Head(port)
Got == [State EXCEPT !.port = Tail(@)]
Get(st) == rd.pc = "get" /\ port # <<>> /\ Packet.st = st /\ UNCHANGED <<place, used>>

\* The path is looked up now, and nothing happens if there is nothing there.
GetRequest ==
  /\ Get("wake") /\ UNCHANGED rd
  /\ LET found == At(Packet.path) IN
     \/ found = {} /\ Become(Got) /\ UNCHANGED left
     \/ \E n \in found, fails \in Attempts :
          /\ Packet.op = "add"
          /\ watches[FolderOf(n)] = None => Watches # Ids
          /\ Become(AddWatch(Got, n, fails)) /\ Attempt(fails)
     \/ \E n \in found, fails \in Attempts :
          /\ Packet.op = "remove"
          /\ Become(RemWatch(Got, n, fails)) /\ Attempt(fails)

\* The directory is gone: an event says so if it was watched itself.
GetDenied == /\ Get("denied") /\ UNCHANGED <<rd, left>>
             /\ Become(StartRead(DeleteWatch(Got, Packet.for), Packet.for, FALSE))

\* CancelIo was called on this handle.
GetAborted == Get("aborted") /\ Become(Got) /\ UNCHANGED <<rd, left>>

\* An error is sent, and no read is started.
GetError == /\ Get("error") /\ UNCHANGED <<rd, left>>
            /\ Become([Got EXCEPT !.watch[Packet.for].failed = TRUE])

\* The error of an overflow is sent, and the next read is started.
GetOverflow == /\ Get("ok") /\ Packet.n = 0 /\ UNCHANGED rd
               /\ \E fails \in Attempts : Become(StartRead(Got, Packet.for, fails)) /\ Attempt(fails)

GetChanges == /\ Get("ok") /\ Packet.n > 0 /\ UNCHANGED left
              /\ rd' = [pc |-> "parse", w |-> Packet.for, i |-> 1, n |-> Packet.n]
              /\ Become(Got)

\* A renamed folder: what strings.HasPrefix takes for paths below it, which are
\* those of siblings too whose names extend the old one.
Old(w) == IF w.rename = None THEN w.path ELSE Append(w.path, w.rename)
Sibling(p, old) == /\ 0 < Len(old) /\ Len(old) <= Len(p) /\ Front(old) = SubSeq(p, 1, Len(old) - 1)
                   /\ <<p[Len(old)], Last(old)>> \in DOMAIN Rest
Renamed(p, old, new) ==
  IF IsPrefix(old, p) THEN new \o SubSeq(p, Len(old) + 1, Len(p))
  ELSE IF Sibling(p, old)
  THEN Append(new, Rest[<<p[Len(old)], Last(old)>>]) \o SubSeq(p, Len(old) + 1, Len(p))
  ELSE p

\* Mutant: only the paths below are updated.
RenameBelow(s, w, name) ==
  [v \in Ids |->
     IF s.watch[v] # None /\ s.watches[s.watch[v].ino] = v /\ s.watch[v].path # Old(s.watch[w])
     THEN [s.watch[v] EXCEPT !.path = Renamed(@, Old(s.watch[w]), Append(s.watch[w].path, name))]
     ELSE s.watch[v]]
RenamePaths(s, w, name) ==
  [v \in Ids |->
     IF s.watch[v] # None /\ s.watches[s.watch[v].ino] = v
     THEN [s.watch[v] EXCEPT !.path = Renamed(@, Old(s.watch[w]), Append(s.watch[w].path, name))]
     ELSE s.watch[v]]

\* The name itself, if it was watched for.
RenameName(s, w, name) ==
  IF s.watch[w].rename \notin s.watch[w].names THEN s
  ELSE [s EXCEPT !.watch[w].names = (@ \ {s.watch[w].rename}) \cup {name}]

\* What an entry does to the watches, beside the events it causes.
Effect(s, w, e) ==
  CASE e.act = "removed" -> [s EXCEPT !.watch[w].names = @ \ {e.name}]
    [] e.act = "old" -> [s EXCEPT !.watch[w].rename = e.name]
    [] e.act = "new" -> [s EXCEPT !.watch = RenamePaths(RenameName(s, w, e.name), w, e.name)]
    [] e.act \in {"added", "modified"} -> s

\* One entry of the buffer, as it is now.  After the last one, or after as many as
\* the packet said, the next read is started.
\* Mutant: the reader stops before the last entry.
EndsEarly(last) == last \/ rd.i + 1 >= rd.n
Ends(last) == last \/ rd.i = rd.n
\* Mutant: no read is started.
NoRestart(s, w, fails) == s
Restart(s, w, fails) == StartRead(s, w, fails)
Parse ==
  /\ rd.pc = "parse" /\ UNCHANGED <<place, used>>
  /\ LET w == rd.w
         e == watch[w].buf[rd.i]
     IN \E s \in {Effect([State EXCEPT !.watch[w].told = Append(@, e.id)], w, watch[w].seen[e.id])} :
          IF Ends(e.last)
          THEN /\ rd' = [pc |-> "get"]
               /\ \E fails \in Attempts : Become(Restart(s, w, fails)) /\ Attempt(fails)
          ELSE rd' = [rd EXCEPT !.i = @ + 1] /\ Become(s) /\ UNCHANGED left

\* Close: the watches in the map go, none of which touches another, and the port.
Close ==
  /\ rd.pc = "get"
  /\ watch' = [w \in Ids |->
                  IF w \in Watches /\ watches[watch[w].ino] = w
                  THEN StartRead(DeleteWatch(State, w), w, FALSE).watch[w] ELSE watch[w]]
  /\ watches' = [f \in Folders |-> None] /\ port' = <<>>
  /\ rd' = [pc |-> "closed"] /\ UNCHANGED <<place, used, left>>

Kernel == \E w \in Watches : Complete(w) \/ Overflow(w)
Reader == \/ GetRequest \/ GetDenied \/ GetAborted \/ GetError \/ GetOverflow
          \/ GetChanges \/ Parse
Environment ==
  \/ \E n \in Dirs \cup Files : Modify(n) \/ Delete(n)
  \/ \E n \in Dirs \cup Files, name \in Names : Rename(n, name)
  \/ \E n \in Dirs \cup Files, f \in Folders, name \in Names : Create(n, f, name)
  \/ \E w \in Watches : Fault(w)
  \/ \E op \in {"add", "remove"}, n \in Inodes : Exists(n) /\ Call(op, PathOf(n))

Next == Kernel \/ Reader \/ Environment \/ Close

\* The kernel ends the reads for which there is something, and the reader runs.
Spec == Init /\ [][Next]_vars /\ WF_vars(Kernel \/ Reader)
-----------------------------------------------------------------------------
InMap(w) == watches[watch[w].ino] = w

\* The types of the file system, of the watches, and of the packets, which are of
\* watches that were made.
TreeTypeOK ==
  place \in [Dirs \cup Files -> Place \cup {New, Gone}] /\ Nested(place) /\ used \subseteq Names
WatchTypeOK ==
  /\ watch \in [Ids -> Watch \cup {None}] /\ watches \in [Folders -> Ids \cup {None}]
  /\ \A f \in Folders : watches[f] # None =>
       watches[f] \in Watches /\ watch[watches[f]].ino = f
Packets == [for : Ids, st : {"ok", "denied", "aborted", "error"}, n : Nat]
           \cup [for : {None}, st : {"wake"}, op : {"add", "remove"}, path : Seq(Names)]
PortTypeOK ==
  /\ port \in Seq(Packets)
  /\ rd \in [pc : {"get", "closed"}] \cup [pc : {"parse"}, w : Ids, i : Nat, n : Nat]
  /\ left \in [calls : Nat, changes : Nat, faults : Nat]
  /\ \A i \in DOMAIN port : port[i].st # "wake" => port[i].for \in Watches
  /\ rd.pc = "parse" => rd.w \in Watches /\ rd.i \in 1 .. rd.n
TypeOK == TreeTypeOK /\ WatchTypeOK /\ PortTypeOK

\* No watch turns deaf: whatever is added, removed, renamed and deleted, a watch in
\* the map has a read pending or the reader has yet to come to its end - unless an
\* error was sent about it (backend_windows.go:446-478, 546-548).
WatchesListen ==
  \A w \in Watches :
    InMap(w) /\ ~watch[w].failed =>
      \/ watch[w].pending
      \/ rd.pc = "parse" /\ rd.w = w
      \/ \E i \in DOMAIN port : port[i].for = w /\ port[i].st # "aborted"

\* The reader comes to every change of a directory once and in order, across the
\* ends of buffers and after reads were cancelled: as far as it has got there is
\* no gap.  If a read is restarted while the end of the one before waits in the
\* port, or the kernel overflows, there may be.
InOrder(w) == \A i \in DOMAIN watch[w].told : watch[w].told[i] = i
ReportedOnce ==
  \A w \in Watches : ~watch[w].overflowed /\ ~watch[w].overwritten => InOrder(w)

\* Even so the latest change is always come to, so that somebody who looks at the
\* directory upon any event misses nothing - unless an error is sent, or the
\* watch is given up (backend_windows.go:550-644).
Behind(w) == /\ w \in Watches /\ watch[w].open
             /\ ~watch[w].failed /\ ~watch[w].overflowed
             /\ Len(watch[w].seen) \notin {0} \cup ToSet(watch[w].told)
LatestReported == (\E w \in Ids : Behind(w)) ~> (\A w \in Ids : ~Behind(w))

\* When all is reported a watch has the path of its directory, however it and the
\* directories above were renamed: if those have been watched since before it was,
\* what was reported of them had been dealt with when it was made, nothing was
\* overwritten, and no name extends another (backend_windows.go:588-600).
Older(f, g) == watches[f] # None /\ watches[g] # None /\ watches[f] < watches[g]
Attended(d) ==
  /\ \A f \in Above(d), g \in Above(d) \cup {d} : f \in Above(g) => Older(f, g)
  /\ watch[watches[d]].along
Quiet ==
  /\ rd.pc = "get" /\ \A i \in DOMAIN port : port[i].st = "wake"
  /\ \A w \in Watches : watch[w].kernel = <<>> /\ ~watch[w].full
PathsFollow ==
  /\ Quiet /\ used \cap {pair[1] : pair \in DOMAIN Rest} = {}
  /\ \A w \in Watches : ~watch[w].overflowed /\ ~watch[w].overwritten
  => \A d \in Dirs : Exists(d) /\ watches[d] # None /\ Attended(d) =>
       watch[watches[d]].path = PathOf(d)
=============================================================================
