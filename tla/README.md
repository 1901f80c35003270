# markdown-server in TLA+

markdown-server converts a folder of markdown into a folder of HTML, serves the
result and, in its Windows build, watches the sources: a change regenerates the
target folder and makes the open browser tabs reload. The repository vendors
everything it uses, so it also holds a file watcher (fsnotify), a websocket
library, a markdown parser, a syntax highlighter (chroma) and a backtracking
regular-expression engine (regexp2).

This directory holds TLA+ models of the parts where goroutines, timers, the
kernel, the network and browsers meet, and of the two machines that run on data
- the lexer and the regular-expression engine - with what TLC checks of them on
small instances, and what TLAPS proves of them for every instance. Source paths
below are relative to `src/`.

1. [The system](#1-the-system)
2. [Modules](#2-modules)
3. [Runs](#3-runs)
4. [Fairness](#4-fairness)
5. [Proofs](#5-proofs)
6. [Where code and comments disagree](#6-where-code-and-comments-disagree)
7. [What is not modelled](#7-what-is-not-modelled)
8. [Plan](#8-plan)

## 1. The system

```
 editor --> kernel --> fsnotify reader --Events/Errors--> watch loop --+
              ^                ^                              |        |
              |                +------- Add / Remove ---------+        v
              |                                                   debouncer
          sources --> jobs (OnReload, main) --> target folder         |
                            ^                       |                  | a timer's
                            +-----------------------|------------------+ goroutine
                                                    v                  |
   browser tab <-- http.FileServer in the response wrapper             |
   (script)    <-- "reload" -- ServeWS handlers <-- Broadcast ---------+
```

### Components

**Generation** (`main.go`, `OnReload` in `windows.go`). *State*: the target
folder, the global `CSSFileList`. *Operations*: a full job (`CleanUpFolders`,
then one walk for folders and style sheets and one for the files) and an update
job, which rewrites one markdown file. *Hard*: callbacks of the debouncer run
in goroutines of their own, so jobs overlap whenever one takes longer than the
delay; the user edits the sources while they are walked; the server has files
open that are to be removed; `log.Fatalf`, a nil `FileInfo` and texts that make
the generation panic end the process. *Correct when* a job that runs alone leaves
what a fresh start would leave, and nothing else ends the process.

**Debouncer** (`reload/watch.go:14-37`). *State*: a mutex and the last timer.
*Operation*: `add`, which stops the last timer and arms another one. *Hard*:
concurrent calls; `Stop` loses against a timer that has expired already.
*Correct when* one timer at most is armed, and the last call of a burst runs.

**Watch loop** (`reload/watch.go:39-139`). *State*: the watches it has asked
for. *Operations*: the setup (walk, then `Add` for each directory) and one case
per kind of event. *Hard*: the tree changes during the setup and before an
event is handled. *Correct when* directories have a watch as long as they
exist, and every reported change reaches the debouncer.

**fsnotify, channels of the Windows backend** (`fsnotify/backend_windows.go`).
*State*: the channels `input` and `done` (capacity 1), `Events`
(`defaultBufferSize`, 50), `Errors` (no buffer), the completion port.
*Operations*: `Add`, `Remove`, `Close`, and the reader goroutine. *Hard*:
wake-up packets carry no request, so one request may use up the wake-up of
another; the reader both sends to the consumer and answers it. *Correct when*
no wake-up is lost, and consumer and reader wait for each other at most where
section 6 says so: otherwise every call returns and every event arrives.

**fsnotify, watches of the Windows backend** (the same file). *State*: the map
of watches, each with its handle, mask, path, and a buffer the kernel writes to.
*Operations*: `addWatch`, `remWatch`, `deleteWatch`, `startRead`, and the
decoding of a buffer in `readEvents`. *Hard*: reads end, are cancelled or fail
while watches come and go; buffers are decoded after the tree has changed again;
renames must be carried over to the paths of all watches. *Correct when* no
watch goes deaf, a change is reported once, and paths follow their directories.

**Reloader** (`reload/reloader.go`). *State*: a condition variable; in each tab,
the injected script. *Operations*: `ServeWS`, `Wait`, `Broadcast`; in the
script `onmessage`, `onclose`, `retry`. *Hard*: a broadcast meets handlers at
any point; tabs vanish unnoticed; the server is stopped and started. *Correct
when* a tab that was told to reload shows what was generated.

**Response wrapper** (`reload/wrapper.go`, `Handle`). *State*: whether the
header is out, the status, the first bytes. *Operations*: `WriteHeader`,
`Write`, `Flush`, `ReadFrom`, and the appending of the script. *Hard*: the
order of the calls is the handler's. *Correct when* the length sent is the
number of bytes sent.

**websocket** (`websocket/conn.go`, `prepared.go`). *State*: one mutex (a
channel) for frames, a `writeErr` that sticks, an open message writer with its
buffer from a shared pool; on the reading side what is left of the current frame
and message. *Operations*: `NextWriter` with `Write` and `Close`,
`WriteMessage`, `WritePreparedMessage`, `WriteControl`, `NextReader` with
`Read`, and the handlers of control frames. *Hard*: three goroutines at each end
write frames; a reader must write to answer; the network is full or fails.
*Correct when* messages arrive whole and in order, and nobody waits for ever.

**Footnotes** (`markdown/parser/parser.go`, `inline.go`). *State*: references by
label, the notes in the order they are met, the list that is written at the end.
*Hard*: the list grows while it is walked. *Correct when* every note that is
wanted is listed once, under the number its references show.

**Lexers** (`chroma/regexp.go`, `mutators.go`, `emitters.go`, `coalesce.go`,
`delegate.go`, `iterator.go`). *State*: rules that are loaded and compiled by
whichever goroutine needs them first; for a text, a stack of states and of iterators.
*Hard*: rules that include each other are expanded in the order of a map; a
match may time out; a panic ends the server. *Correct when* every goroutine sees
all rules or an error, whoever has them has rules that stay as they are, and no
character of the code is lost.

**Regular expressions** (`regexp2/`). *State*: the code of an expression; a
runner with two stacks, a log of captures and a match, which is kept for the
next call. *Operations*: parsing with reductions, prefixes, code; `MatchString`,
`FindStringMatch`, `FindNextMatch`. *Hard*: everything backtracks, and every
shortcut (reductions, jumps to the next candidate) must not change what is
found. *Correct when* what is found is what the expression means; it is not for
four forms of expressions (section 6).

**The rest of markdown and chroma**. Sequential text processing, without state
that outlives a page.

`PROJECT.json` lists all components, and under `hazards` what can go wrong in
them that a test hardly reaches, at its line.

### How they interact

| from | to | by |
|---|---|---|
| kernel | fsnotify reader | I/O packets in the completion port |
| `Add`, `Remove`, `Close` | fsnotify reader | a request in a channel, a wake-up packet, an answer on a channel without buffer |
| fsnotify reader | watch loop | the channels `Events` and `Errors` |
| watch loop | debouncer | a call with a closure over the path and the kind of change |
| debouncer | `OnReload`, `Broadcast` | the goroutine of an expired timer |
| jobs | each other | the target folder and `CSSFileList`, without a lock |
| `http.FileServer` | jobs | the files it has open, which Windows does not remove |
| jobs | lexers | a shared `RegexLexer`, its `Once` and its mutex |
| lexer | engine | `FindStringMatch` of the rules' patterns at a position |
| `Broadcast` | `ServeWS` handlers | a condition variable |
| handler | tab | a websocket message, and the end of the connection |
| both ends of a connection | each other | frames |

## 2. Modules

| module | models | state and actions |
|---|---|---|
| `LastCallWins` | what a debouncer promises | `submitted`, `pending`, `started`; `Submit` replaces what is pending, `Start` runs it |
| `Debouncer` | `reload/watch.go:14-37` and Go's timers | `pc`, `f` are the callers, `mu` and `timer` the struct, `status` what the runtime did; one action per step of `add`, `Fire` and `Finish` for the runtime |
| `WatchLoop` | `WatchDirectories`, `recursiveWalk` | `tree` and `watched` against each other, `queue` the events on their way; `Read` ... `AddDone` are the setup, `Created`, `Written`, `Gone`, `Ignore`, `Error` the cases of the loop, `Create` ... `Move` the user |
| `FsnotifyChannels` | `Add`, `Remove`, `Close`, `wakeupReader`, `sendEvent`, `sendError`, `readEvents` | the channels as sequences of callers, `wakes` and `io` the packets, `rd` the reader; one action per channel operation; `Consumer` is one of the callers, as the watch loop is |
| `Regenerate` | `main.go`, `OnReload` | `src` and `out` are the two trees, `css` the global list, `job[j]` the program counter, the paths its walk has still to visit (`todo`) and what it has read, `open` what the file server has open; one action per call of the file system |
| `Reloader` | `ServeWS`, `Wait`, the callback, `InjectedScript` | `handler[c]`, `mu`, `waiters` are `sync.Cond` and the handlers on it, `tab[t]` the script, `gen` the target folder |
| `WrapWriter` | `wrapper.go`, `Handle` | one request: `header` and `wire` are the length as set and as sent, `wroteHeader`, `code`, `written` |
| `HotReload` | hot reload from the editor to the tab | composes `LastCallWins` with an editor, events, callbacks and a tab |
| `FsnotifyWatches` | `addWatch`, `remWatch`, `deleteWatch`, `startRead`, the packets of reads and the decoding of buffers | `place` is the file system, `watch[w]` a `watch` with its handle and read, `watches` the map, `port` the completion port, `rd` where the reader is in a buffer; `Kernel` ends reads, `Reader` does one packet or one entry, `Environment` is callers and the user |
| `MessagePipe` | what a websocket promises applications | `sent`, `got`; `Send` and `Deliver` of whole messages |
| `WsConn` | `websocket/conn.go`, two ends and the network | `mu`, `writeErr`, `at`, `out` are the writes of frames under way, `call`, `writer`, `buf` the writing application, `reading` ... `unread` the reading one, `wire` the network |
| `RegexTree` | `syntax/tree.go`, and how `parser.go` uses it | operators: the tree the parser builds, with every reduction |
| `RegexPrefix` | `syntax/prefix.go` | operators: first characters, prefix, anchors, Boyer-Moore tables and their scan |
| `RegexWriter` | `syntax/writer.go` | operators: the code of a tree |
| `RegexRunner` | `runner.go`, `match.go`, `regexp.go` | `m` is the `runner` with `track`, `stack`, `crawl` and `matches`; `call` and `given` a call and its answer; `Find` is `findFirstChar`, `Execute` one instruction, `Timeout` the deadline |
| `RegexSemantics` | what an expression means | the ways to match at a position, best first, on the tree as read |
| `LexerRules` | `needRules`, `maybeCompile`, `fetchRules`, includes and combined states | `lexer` is the `RegexLexer`, `need[g]` where a goroutine is in `needRules` |
| `Lexer` | `LexerState.Iterator`, mutators, emitters, `Coalesce`, the delegating lexer, `SplitTokensIntoLines` | operators on frames (`LexerState`) and tokens |
| `MdNotes` | what `Parse` does with footnotes, a block or an item at a time | `parser[g]` is the `Parser` of page `g`, `ParseOn` its next step |
| `Page` | `GenerateHTMLFromMarkdown`, `CodeBlock`, `Format`, `SpecialTrim` | composes the last three: `job[g]` parses with `parser[g]`, and renders its blocks of code with the shared lexer |

`MC...` modules give the constants their values for TLC, `...Proofs` modules
hold the theorems. `HotReload` extends `LastCallWins` and uses `Submit` and
`Start` as the debouncer; `Debouncer` has it as its `PROPERTY KeepsPromise`
under a refinement mapping, so what `HotReload` takes for granted of a debouncer
is what `Debouncer` provides. `HotReload` leaves out what the detailed modules
show to go wrong (a fatal job, a dropped event, a lost server); its results are
about a system in which none of that happens.

`WsConn` has `MessagePipe` as its `PROPERTY IsPipe`, and `RegexRunner` is compared
with `RegexSemantics`, which knows nothing of code, stacks or reductions.
`FsnotifyChannels` and `FsnotifyWatches` are two views of one file: the first
has the requests and events, the second what the requests do. `Page` takes for
patterns what a lexer sees of them, groups of characters; `RegexRunner` is about
the engine below.

Abstractions that all modules share: files are versions, paths are model values
with a `Parent`, time is that anything armed may fire at any moment. Specific
ones:

* `Regenerate`: source and target paths have the same name. That is so if
  `MARKDOWN_PATH` is a single relative name, since `strings.TrimPrefix(path,
  FolderName)` strips it only then. `RemoveAll` takes leaves one at a time, in
  any order, and fails on what another job or a request to the file server has
  open, as on Windows. `Fragile` is the set of texts that make
  `GenerateHTMLFromMarkdown` panic, whichever they are; errors of the disk, as a
  full one, are left out. Two
  writers of one file may leave a torn one. The walk visits what it has to in
  `Order`, any order that has a folder before what is in it and nothing else in
  between, as sorted names have.
* `WatchLoop`: the watcher is what fsnotify promises (changes of children of
  watched directories, in order, watches follow a rename). A directory is
  renamed only while it is empty and only within its parent. After the walk
  has failed (`"returned"`) the model stops following the tree.
* `FsnotifyChannels`: what a packet or request makes the reader send is any
  sequence of events and errors up to `MaxBatch`.
* `FsnotifyWatches`: a request is a packet in the port; all watches ask for all
  events; names are given only once, so that a path tells one directory from
  another; the tree is two levels deep, and renames stay in a folder. TLC
  has one caller, as in this program (section 6 says what a second one can do);
  the proofs have any number. `seen` and `told` number the changes of a directory.
* `Reloader`: a browser that cannot load the page shows an error page without
  the script, and the tab is lost (`"failed"`).
* `WrapWriter`: `response.fileServer` says whether the handler keeps the habits
  of `http.FileServer`, the only one the program wraps; others do what they
  like, but write as many bytes as they have declared.
* `WsConn`: a message is a sequence of units with a number and a position, so
  that a unit that is lost, doubled or in another message shows; masks and
  compression, which change bytes and not frames, are left out.
* `MdNotes`: of a text only references and notes matter, and of a block only whether
  it is a definition, has text, or is a cell, whose text the last walk leaves out. A
  document is parsed in small steps, as a list of them can be reasoned about without
  recursion; parsers share nothing, so that the steps of several may be mixed.
* `RegexRunner`: a character class is the set of its characters, and a timeout
  may come at any check of the deadline.
* `Page`: a pattern is a sequence of groups that partition its match, as the
  emitter `ByGroups` expects of its lexers; rules that emit nothing match empty
  text only; which matches take too long is free. Lexers in the instances have no
  circle of rules that match nothing, against which chroma has no protection.

## 3. Runs

All runs finish. `CHECK_DEADLOCK FALSE` is set throughout, because every
instance may come to rest: the user stops editing, calls are used up, pages are
made.

| run | states | shows |
|---|---|---|
| `debouncer` | 1147 | one armed timer (`OneArmed`), the last call is never cancelled (`LastCallSurvives`) and `LastCallWins` is implemented, by which it runs (`KeepsPromise`) |
| `fsnotify_channels` | 11564 | no wake-up is lost (`WakeupsSuffice`), no answer to a caller that is gone (`ReplyHasReceiver`), calls return (`CallsReturn`) and events are received (`EventsArrive`), but for a `Close` and for the one deadlock of section 6 |
| `fsnotify_watches` | 487773 | no watch goes deaf (`WatchesListen`), changes are come to once and in order (`ReportedOnce`), the latest one in any case (`LatestReported`); when all is reported, a watch has the path of its directory, three watches deep (`PathsFollow`) |
| `watch_loop` | 62604 | directories that stay where they are are watched once the setup is done (`SettledWatched`); a reported change is followed by a debouncer call (`ChangesCovered`) |
| `regenerate` | 414169 | a job without overlap ends the process for one of five causes only (`EndHasCause`), and reproduces the sources but for what is edited under its hands (`AloneReproduces`) |
| `reloader` | 12557 | no connection ends without its message (`NoSilentClose`), a tab that was told to reload does (`ToldTabsReload`), woken handlers end (`WokenHandlersEnd`) |
| `hot_reload` | 131531 | changes that come one at a time are all generated and shown (`SpacedChangesShown`); any burst ends in a broadcast (`ChangesBroadcast`) |
| `hot_reload_burst` | violation | `EveryChangeRegenerated`, see section 6 |
| `wrap_writer` | 1294 | what the file server sends has the length it declares (`LengthMatches`); a response declared not to be HTML is unchanged (`OthersUntouched`) |
| `websocket` | 105078 | nothing follows a close frame (`LastFrameIsLast`), a pooled buffer has one owner (`BufferOwned`), the read limit is counted per message (`LimitIsPerMessage`), messages are whole and in order (`IsPipe`) and arrive (`MessagesArrive`), a close is answered (`CloseAnswered`) |
| `regexp_machine` | 178399 | what is found is what the expression means, four forms excepted (`FindsLeftmost`), the stacks never outgrow their storage (`StorageSuffices`), a failed attempt leaves nothing behind and ends where it began (`FailureUndone`), every search ends (`SearchEnds`), and so does a loop over all matches (`NextMatchFollowsForward`) |
| `page` | 254142 | nobody sees a part of a lexer's rules (`RulesWhole`) or has them changed under its eyes (`RulesStay`), no character of the code is lost, even between a template and its HTML (`CodeKept`), footnotes are listed once (`NotesListed`) under the numbers shown (`NumbersAgree`), every page is made (`PagesEnd`) |

The modules of processes with shared state have a type invariant (`TypeOK`,
`WrapTypeOK`). All are proved but that of `RegexRunner`; only the debouncer's is also
a property of a run.

Each property of a passing run comes with a mutant of the module that violates
it under the same configuration: they are the definitions marked `Mutant:` in
the modules, listed in `PROJECT.json`.

### Bounds

* `debouncer`: 2 callers, 3 callbacks. Two callers race for the mutex; three
  callbacks let one be stopped, one run and one be armed. The safety part is
  proved without a bound.
* `fsnotify_channels`: 2 callers, one of them the consumer, which receives nothing while
  it waits for an answer, with `MaxCalls` = 2 each, so that two requests
  meet in the channels and a wake-up is used by the wrong one; `MaxIO` = 1
  packet; `MaxBatch` = 2 makes the reader block with an event or error behind
  the one it is sending; `EvCap` = 1 instead of 50 makes `Events` full.
  Safety is proved for every value of all of these.
* `fsnotify_watches`: two starts. In one there is the root, a directory in it with a
  file, and one that may be made, in either; with two calls, additions or removals, and two
  changes, so that a watch is added while another's packet waits, or follows a deleted
  one of the same directory, and one call of the kernel may fail. In the other
  there are two directories, one in the other, and three calls, so that the packets of
  three watches wait in the port while the lower two are renamed; no call fails, since a
  failure only takes watches away. The kernel's buffer holds `MaxKernel` = 2 changes
  and overflows. `Names` holds a name that extends another. What the run checks of
  safety is proved without these bounds.
* `watch_loop`: a root, two directories, three files of which one is ignored,
  `MaxChanges` = 4: enough to create a directory, fill it, empty it and remove
  it, or to rename one and take its name again, while the setup is at work or
  events wait; `Overflows` adds that the kernel drops any of it.
* `regenerate`: a root with a style sheet, a subfolder with a page and a stale
  subfolder of an earlier run; the job of `main` and two calls of `OnReload`,
  each of either kind; `MaxEdits` = 1, which may hit between any two steps of
  any of them; one request at a time (`MaxOpen` = 1) holds any file or folder open
  for as long as it likes; and the text an edit gives the page may be one to panic
  on. Two overlapping jobs are what it takes to break the target
  folder; a second edit multiplies the states without adding a kind of conflict,
  since what the properties excuse is per job and per source. Both properties
  are proved without these bounds.
* `reloader`: 1 tab, 3 connections (those that are not the tab's belong to
  handlers whose tab has gone, or has reloaded), 2 callbacks that may overlap,
  `MaxRestarts` = 1. Tabs do not share state but for the mutex, for which the
  handlers of several connections compete. `NoSilentClose` is proved without
  bounds.
* `hot_reload`: 2 files, one of them not there at the start, 3 callbacks and
  `MaxEdits` = 3: the third change can find the first callback running and the
  second pending. `SpacedChangesShown` is proved without bounds.
* `websocket`: one buffer is one unit and the network holds one frame in each
  direction, so that messages have several frames and everybody blocks; messages
  of 1 to 3 units against a `ReadLimit` of 2. What the two applications do are
  seven loads, each with a purpose stated in `MCWsConn`: messages in turn or both
  ways, the pool at both ends, control frames between frames and from both ends,
  a connection that fails at any moment, and an application that begins a
  message before it has ended the last.
* `regexp_machine`: about 300 expressions, most of them compiled from left to
  right and from right to left, some without regard to case: all loops over
  characters, classes and groups, anchors, lookaround, atomic groups,
  references, conditions, balanced groups and strings, quantifiers of quantified
  units, and expressions of the four forms that `FindsLeftmost` excepts; on all words of `a` and
  `b` up to a length of 2 or 3, and on some longer ones. Calls follow each other on the
  one runner that is kept, without bound. `MaxPrefixSize` is 5 instead of 50, so
  that longer strings occur.
* `page`: all documents of two definitions and two texts over five kinds of
  items for footnotes; code of up to three characters (and its end of line) from
  an alphabet for which a lexer of four states has rules that push, pop, include,
  combine and emit groups, one match of which may time out; templates of up to four
  characters, whose text around the code is lexed as HTML; blocks found in inline text, which begin with
  an end of line and lack the last one; two goroutines with
  a lexer that is good, has a missing state, bad patterns or no root, or cannot be
  loaded.
* `wrap_writer`: `MaxBody` = 3 bytes, a script of 2, `MaxHeaders` = 2; bodies
  that are empty, written at once or in pieces, before or after the header.

## 4. Fairness

Nothing forces users to edit, browsers to open, callers to call, the kernel to
report, or the server to be stopped: those actions have no fairness.

* *Goroutines that can run do run* (weak fairness of each goroutine's actions).
* *`sync.Mutex` does not starve a waiter* (its starvation mode hands the lock to
  whoever has waited for a millisecond): strong fairness of `Lock` in
  `Debouncer`, of `Lock` and `Wake` in `Reloader`.
* *Channels are first come, first served* among blocked senders, and a `select`
  chooses at random among the ready cases: strong fairness of `SendInput`,
  `SendDone`, `ReceiveEvent` and `ReceiveError`.
* *The completion port is a queue*: a packet posted is delivered, so the reader
  does not pass over a request with a wake-up for ever; strong fairness of
  `GetInput` and `GetDone`. The model keeps a count and not the order of the
  packets, and the number of I/O packets is bounded.
* *Timers expire* (weak fairness of `Fire` and, in `HotReload`, of a callback's
  steps), and *the callback of a timer ends* (`Finish`): a job walks a finite tree.
* *The kernel ends a read for which there is something* (weak fairness of
  `Kernel \/ Reader` in `FsnotifyWatches`; that it ends one only when there is is
  its guard).
* *The network delivers, unless it fails*: a frame is on the wire until the other
  end's reader takes it, and the reader is a goroutine of its own at each end
  (weak fairness of `WriterStep`, `ReaderStep`, `ControlStep` of each end).
  `WriteControl` gives up at its deadline, which is one of its steps.
  Applications need not call anything; a call that has begun goes on, and an
  application that is told of the end closes its side.
* *A search and a page are made by a goroutine that runs* (weak fairness of `Step`
  in `RegexRunner`, and of `Step(g)` for each goroutine in `Page`).
* *The browser acts* (weak fairness of a tab's actions): it fires the script's
  callbacks, its timers and its page loads.

## 5. Proofs

TLAPS proves the following for every value of the constants that satisfies the
`ASSUME` of the component's module. The assumptions are that special values
(`Nil`, `NoConn`) are none of the others, that bounds are natural numbers, that
initial sets are subsets of what they are drawn from; in `LexerRules`, that no
goroutine is `None`, which is nobody; in `FsnotifyChannels`, that
the set of callers is finite; in `WsConn`, that a connection has two ends, and that
buffers, messages and the limit are not empty; in `FsnotifyWatches`, that the tree
is two levels deep at the start, as it is ever after, with one thing at a path; in `WatchLoop` and
`Regenerate`, that every path is below the root (a set of paths with the root, and
with what is in each of its members, is the whole); in `Regenerate`, also that the
walk's order has a folder before what is in it, and that no content is the absence
of a file (`None`); in `WrapWriter`, that no header at all (`None`) is not a content
type.

**`MutexProofs`**, about `Debouncer`: `TypeCorrect`, `OneArmedHolds`, `LastCallSurvivesHolds`,
`ImplementsLastCallWins`. `OneArmed` alone is not inductive: `Arm` would break
it if some timer were armed already. So the invariant adds `GapInv`, that
between `Stop` and `Arm` nothing is armed; it holds because of `TimerInv` and
`OneArmed`, what is armed is what `Stop` stops, and because of the mutex nobody
arms meanwhile. `ArgInv`, that each call has an argument of its own, excludes
that a callback is armed twice. The refinement theorem says that initial states
map to initial states and steps to steps or stutters; `Stop` is the step that
takes effect as `Submit`. The fairness of `LastCallWins` is checked by TLC
only.

In the same module, about `LexerRules`: `RulesNeverChange`, `RulesAreFinished`. Rules are
read without the mutex under which they are made. That is safe because they change in
two places only, and nobody has them at either: `OnceInv` says that who loads the file is
alone and that nobody is past `compileOnce`; `HeldInv`, that who expands them holds
`r.mu`; and `CompiledInv`, that rules count as compiled when nothing is left to expand,
that whoever expands found them not compiled, and whoever has them found them so. Both
theorems are about `RulesSpec`, in which goroutines do nothing but ask for the rules;
the steps of `Page` are steps of `RulesNext` or leave `lexer` and `need` alone. What the
rules of a state are in the end, `RulesWhole`, is a recursion over includes and stays
with TLC.

**`FsnotifyProofs`**: `TypeCorrect`, `NoLostWakeup`, `ReplyHasReceiverHolds`.
`WakeupsSuffice` counts requests against packets and callers about to post one.
`CountInv` adds the request of a `Close` that the reader holds between taking it
off `done` and putting it back; without it, the step that puts it back would
break the count. `InputInv` and `NextInv` say whose request is in `input` and to
whom the reader owes an answer; `PortInv` when the port is open. The lemmas
`PostingEnters`, `PostingLeaves` and `PostingStays` are the only ones that
reason about cardinality.

**`ReloaderProofs`**: `TypeCorrect`, `NoSilentCloseHolds`. The strengthening is
`ConnInv`: a connection belongs to one tab. Without it, a tab that leaves could
take the message of another one along.

In the same module, about the wrapped response: `WrapTypeCorrect`, `LengthsMatch`,
`OthersAreUntouched`. The header that goes out and the bytes that follow are written
by different calls, so the invariant says what is true between them: `BodyInv`, that
the handler has written no more than it declared, and all of it when it returns;
`FileServerInv`, that its one `WriteHeader` made the length grow once and sent it,
before the first byte; `OtherInv`, that nothing but HTML has its length touched.

**`HotReloadProofs`**: `TypeCorrect`, `SpacedChangesShownHolds`. As long as
changes are not crowded, one callback runs at a time (`Alone`), every output
that is not up to date has a regeneration still to come (`Covered`), an output
without a source has a full one to come that has not begun (`Removals`: a
running one does not remove), and a page that differs from the outputs is about
to be loaded, or a callback that will broadcast is running (`PageBehind`). In a
quiet state nothing is to come, so outputs are as the sources and the page as
the outputs.

**`WatchLoopProofs`**: `TypeCorrect`, `SettledKept`. `SettledWatched` speaks of the
loop only, but what it says is decided before: `SetupInv` says of the walk that a
settled directory has been found, or the one it is in has not been read; and of
the adding that it has a watch or will get one. At the end of the walk the first
becomes the second by the assumption about the root: what was found is closed.
Afterwards watches are taken away by the events of what is gone, which may wait
in the queue while a directory of the same name is made anew. `QueueInv` says that
these are never of settled directories, and `UpInv`, that what holds a settled
directory is settled, carries this to all that `recursiveWalk` finds below them.
`Below` is stated as the smallest closed set for this proof, in place of a
recursion over the tree.

**`RegenerateProofs`**: `TypeCorrect`, `EveryEndHasCause`, `LoneJobReproduces`. Both
properties speak of a job that has been alone since it started, and `AloneInv` says
that this is the only active one. `Progress` says how far it is. What it has swept
away is gone (`NothingStale`); a folder of the sources is made, or the walk will come
to it (`FoldersMade`); in the second walk, a file is copied, is being copied or will
be come to (`FilesCopied`); the list of style sheets is ascending, before all that the
walk has left, and complete with what it has left (`SheetsFound`); what has been read
of a file, and the links put into it, are right (`ReadRight`). Each of these excuses
what is edited meanwhile. *Will come to* is `ToCome`: something on the path of `e` is
among what is left to visit. It is kept when a folder is visited (`FolderVisited`),
since the next one of the path is then listed, the sources being a tree (`SourceInv`);
and it holds of every path when a walk starts, by the assumption about the root. When
nothing is left to visit, *made or to come* is *made*, which is what the next walk, or
the end, needs. The same parts say why a lone job that ends the process has a cause:
what its walk comes to is there, or was edited since it began (`TodoThere`), and so is
the file it is to read (`ReadRight`) and the folder it is to write to (`FoldersMade`);
being alone, it has nobody but the server hold what it sweeps.

In the same module, about `MdNotes`: `NumbersAreRight`, `NotesAreListed`, for any
documents, labels and number of parsers. Both are about `NotesSpec`; a `Parse` of
`Page` is a step of `NotesNext`, and its other steps leave `parser` alone. The
assumption is about the form of blocks and items. Neither property is inductive: what is
in the list says nothing of what will be in it. `NotesInv` adds what holds on the way.
`Numbered`: a reference has the number of its place in the notes, and its link is on
record. `Known`: a label on record is that of a note, which is where `isFootnote` asks the
record of links instead of the notes, and what was made shows its note's number.
`Young` and `Settled`: nothing is referred to before the last definition outside a note,
nor defined afterwards, so that a label keeps its reference. `InOrder`: the list is
the notes as far as it goes, from which it follows that nothing is in it twice, since
numbers are distinct. `Complete`: what is defined has a reference or the
definition is still to come; and a label in the text is that of a note, or the text
with it is still to be read; the same of the notes in the list while it is written.
When the loop ends, the list is as long as the notes, so what is a note is listed.
What depends on links being distinct is claimed under `Distinct` only. TLC checked
`NotesInv` on the documents of `page` before.

**`FsnotifyWatchesProofs`**: `TypeCorrect`, `NoneIsDeaf`, `EachOnce`. Of each watch
that was made, in the map or not, the invariant says three things. `Listens` is
`WatchesListen` for that watch. `BufferOK`: its buffers hold changes that were
noted, a packet or the reader refers to entries that are there, a read is pending
only on an open handle, and a packet without entries comes only of an overflow;
without it the reader could decode what was never written. `Ordered`: unless
changes were lost, they are in one chain, from those the reader has come to
(`told`) over those in the buffer that are still to come (`Coming`) to those the
kernel holds (`After`). `ReportedOnce` is the first link only, and not inductive:
an entry is in order because the whole chain is. The chain needs that one packet
at most holds entries, and none while the reader is in the buffer; a second one
is what `overwritten` records. Each action touches one watch or notes one change
per handle, and a few lemmas (`AlikeSound`, `ReaderStep`, `ReadEnds`) say why the
others stay sound. Neither `Callers` nor the bounds matter to any of this.

In the same module, `PathsAreFollowed`: `PathsFollow`, which is about the end, when all
is reported, while the reader renames paths (`backend_windows.go:588-600`) entry by
entry, and meets the directories' packets in any order. Between a rename and its entry a
path has an old name, so an invariant must say what that name means. As names are given
once, each belongs to what it was given to: `own[f][name]`, which is no variable but is
said to exist. The invariant has four parts.

* `NamesInv(own)`: what there is has a name of its own (`Placed`); the changes that a
  watch has seen tell the same story (`Story`): the two halves of a rename follow each
  other and are of one owner, which does not have the first name any more (`Left`), and
  has the second one or a later half takes it away (`Came`); and two watches that one
  directory had were told alike (`Agree`).
* `PathInv(own)`: a reader between the two halves remembers the first (`Remembers`); a
  path consists of names that were given, beginning in the root (`Rooted`); and the path
  of a watched directory `d` is that of the watch above it with one name more
  (`Follows`), which `d` has, or had where the reader has got to in the changes of the
  directory above (`Ahead`): the rest of the story is still to come to.
* `MapInv`: what is in the map is open, and newer than what was made before it.
* `Clean`: no name that extends another was given and nothing was lost, or else nothing is
  claimed.

`CalmPaths` is for the steps that neither name anything nor come to a name: paths and
stories stay, and watches at most leave the map. `FreshPaths` is for a watch that is
made: it gets the path that the directory has, and so follows, provided that the path of
the one above is up to date; that is what the history `along` of a watch records.
`HearsPaths` and `NameStepPaths` are for the user: every open watch of a directory hears
of a new name, or of none of it. `EntryPaths` is for the reader: at the second half of a
rename the old name is replaced where it stands (`NewPathDoes`), in the paths of the
directory's own watches and those below, and in no other (`NoSibling`, `SameFolder`).
When all is reported nothing is to come, so the name that `d` has there is the one that
it has, and by two steps from the root the path is `PathOf(d)`.

Without `along` the property would be false, as its proof brought to light, and as TLC
sees only with three watches in a row: one that is made while the reader has yet to come
to the rename of the directory above has the new path from the start, and the watch above
still the old one. If the reader then meets the packets in the other order, a rename in
that directory is looked for under the old path, and the new watch keeps its old name.

**`WsConnProofs`**: `TypeCorrect`, `LastFrames`, `BuffersOwned`, `LimitsPerMessage`.
A close frame may be the last because of `writeErr`, which is set under `c.mu`
with the frame: `WireInv` says that no frame for which it is not set is a last
one, and the same of a reader that is about to answer a close frame. `WriterInv`
ties the buffer to the open writer over the steps of a flush, in which the
application's goroutine is on its way through `write`. `LimitInv` says that
between two messages nothing has been counted, if messages are read to their ends.

In the same module, `ImplementsPipe`: every step of `WsConn` is a step or a
stutter of `MessagePipe`: the one that completes a message is `Send`, the one that
gives it to the application is `Deliver`. Neither end knows what the other one
has; between them are frames. A *sight* is what a reader knows of the message it
is in: how many messages have begun, the units of the last one, whether it is
complete. `ChainInv` says that there is a chain of sights, one before and one
after each frame on the wire, in which the first is that of the reader, the last
is what the writer has written, and every complete message in between is the one
that was sent. A frame written lengthens the chain at its end (`MoreSights`), a
frame read takes its first sight away (`FewerSights`). `OutInv` and `HeldInv` say
what goroutines on their way into and out of a frame hold. The chain needs no
assumption about whether the connection fails: then there is no reader, and none
is claimed.

The inductive invariants are conjunctions of named parts, and the step lemmas
have one case per action.

Model-checked only:

* liveness (`CallsReturn`, `EventsArrive`, `LatestReported`, `ChangesCovered`,
  `ToldTabsReload`, `WokenHandlersEnd`, `ChangesBroadcast`, `MessagesArrive`,
  `CloseAnswered`, `SearchEnds`, `PagesEnd`, and the fairness in
  `KeepsPromise`): the prover does not reason about `ENABLED`;
* the four invariants of `RegexRunner`, and `RulesWhole` and `CodeKept` of `Page`:
  they rest on RECURSIVE operators, over expressions or over rules that include
  each other, which the prover's SMT backend does not support; and what
  `FindsLeftmost` says of all expressions would need induction over them.

## 6. Where code and comments disagree

**`hot_reload_burst`** is a run that TLC ends with a counterexample: the
debouncer keeps the last callback, and with it the last path (`watch.go:35`,
`110`). If two files are saved within 100 ms, only the second is regenerated
(`windows.go:24-28`).

The following show in the models as well. Some took a run of their own while the
models were made; none has one now, and where a property holds but for one of
them, the property says so.

*Hot reload*

* "Watch any created directory" (`watch.go:101`), but what is added is the
  directory the new one is in, which is watched already. Changes in a new
  directory go unnoticed until the server is restarted.
* "Used to trigger a reload on all websocket connections at once"
  (`reloader.go:45`), but a tab that has connected and whose handler has not
  reached `cond.Wait` does not get the broadcast (line 130); it shows what it
  loaded before until the next change. `SpacedChangesShown` and `ToldTabsReload`
  are about what holds nevertheless.
* The watch loop is the only receiver of `Events` and `Errors`, and calls `Add`
  and `Remove` itself (`watch.go:102`, `117`, `119`). If the reader is at that
  moment blocked - on `Events`, when 50 are waiting, or on `Errors`, which has no
  buffer - neither goes on, and nothing is reloaded any more. The run
  `fsnotify_channels` reaches that state; `CallsReturn` and `EventsArrive` name it
  (`Deadlocked`) and show that there is no other.
* An overflow of the kernel's buffer is only logged (`watch.go:90`): the escape
  `lost` in `ChangesCovered`.
* Overlapping jobs can end the process or leave a wrong target folder:
  `EndHasCause` and `AloneReproduces` are about jobs that do not overlap.
* A job that is alone can end the process, too: its walk comes to a path that has been
  removed (`main.go:75`, `93`); it has no file to read, or no folder to write to, because
  of an edit (line 59); the file server, in the same process (`windows.go:17`), has
  a file of the target folder open, so that `RemoveAll` fails on Windows (line 47); or
  the generation panics (line 257, see *Footnotes and code*). These are the causes in
  `EndHasCause`, which says that there is no other.
* A directory that is renamed to the path of one that was removed loses its watch when the
  removal is handled (`watch.go:115-119`); `SettledWatched` is about the others.
* A handler that calls `Flush` before `WriteHeader` gets a length without the
  script (`wrapper.go:138`), and one that calls `WriteHeader` twice a length with two
  scripts (line 83): `LengthMatches` is about the file server.

*fsnotify*

* "Close removes all watches and closes the Events channel" (`fsnotify.go:335`),
  but `sendError` receives from `w.done` and drops what it gets
  (`backend_windows.go:84`); `sendEvent` puts it back (line 72). If the reader is
  reporting an error while `Close` posts its request, the request is gone: the
  reader goes on, `Close` waits for ever, and `Events` is never closed. The error
  need not even be blocked, since `select` may choose either case.
* "Watching it more than once is a no-op" (`fsnotify.go:280`), but `startRead`
  cancels the read and starts another one into the same buffer
  (`backend_windows.go:439`, `461`); what had been read into it and not been
  decoded is overwritten. The watch loop adds the parent again upon every
  creation. `ReportedOnce` and `LatestReported` leave such changes out.
* A watch that is made while the rename of a directory above it waits in the port may
  miss a later rename of its own, and keeps an old path (lines 588-600; section 5 says
  how). `PathsFollow` leaves out such watches (`Attended`).
* "Update saved path of all sub-watches" (`backend_windows.go:590`), but what is
  replaced is any path that begins with the text of the old one (line 595). If `a` is
  renamed to `ab`, and `ab` is watched before the reader comes to that, the path of
  the new watch is rewritten to `ab/b`; so would that of a sibling `ab` of `a`.
  `PathsFollow` leaves out names that extend each other.
* `startRead` takes a watch out of the map by its inode (`backend_windows.go:454`).
  If `Add` and `Remove` are called at the same time, the packet of a closed
  watch may still be in the port when its inode is watched anew; the reader then
  drops the new watch and leaves its handle open. TLC finds this with `Callers` = 2;
  this program has one caller. The theorems hold even so: they are about
  watches in the map, and about what the reader comes to.
* After an error it does not know, the reader starts no new read, and the watch
  is deaf though it is still in the map (`failed` in `WatchesListen`).

*websocket*

* `SetReadLimit` (`conn.go:1109`) is about one message; if the application
  abandons a message in the middle, the rest of its frames are counted with those
  of the next one (`LimitIsPerMessage` leaves such applications out).
* `WritePreparedMessage` does not end a message that is open, as `NextWriter` and
  `WriteMessage` do: the prepared frames are put between its fragments, and the
  peer ends the connection with a protocol error.

*Footnotes and code*

* A footnote that is first referred to in a footnote of several blocks gets a
  number, but the list has been written then: "we need to process those late
  additions" (`parser.go:361-364`) is done in the loop, and the walk that parses
  these paragraphs comes after it. The same walk passes over table cells, which
  are never parsed there.
* A label defined again inside such a footnote shows a placeholder's number, and
  an inline footnote whose text makes a link equal to a label hides that footnote
  (what is recorded is the link). `Distinct` excludes both; without it neither
  `NumbersAgree` nor what `NotesListed` says of missing notes holds.
* `needRules` gives the error of loading to the first caller only
  (`regexp.go:404-416`); the next one tokenises without rules and panics with
  "unknown state". "Formatters should recover" (`iterator.go:9`, `formatter.go:11`), and
  neither the HTML formatter nor `main.go` does. An empty block of code with a
  language panics in `SpecialTrim` (`main.go:257`). These are the two panics that
  `PagesEnd` excuses.
* A block of code found in inline text need not end in a newline (`inline.go:186-193`);
  `SpecialTrim` then takes its last line for the end and cuts it off. `CodeKept` is about
  what `SpecialTrim` leaves.

*Regular expressions*

* "Advance by one before matching to prevent infinite loop" (`regexp.go:216`):
  from right to left, after an empty match at 0, that gives -1, which `scan`
  takes for "from the end" (`runner.go:81-88`), and the matches begin anew. Hence
  `NextMatchFollowsForward`.
* `Lazybranchmark` leaves an old mark on the stack after an empty turn
  (`runner.go:314-322`), so that "a successful match should mean that this stack
  is empty" (line 46) fails, and with it what is captured: `a(?:b?)+?` on `a`.
* `reduceRep` joins two repeaters (`tree.go:393-445`) into one that tries the same numbers
  in another order: `(?:a{2,4}){1,2}` finds five characters in `aaaaa` and not four.
* The first characters of a condition without an else branch do not say that it
  may match nothing (`prefix.go:198-214`): `(b)?(?(1)a)c` is not found in `c`.
* A long literal that is matched from right to left is cut to its first
  `MaxPrefixSize` characters instead of its last (`writer.go:131-134`).

The last four are translated as they are. `FindsLeftmost` leaves out the expressions of
these four forms (`EmptyLazyLoop`, `JoinedRep`, `LeadsWithIf`, `CutFromRight`), and no
others. `regexp_machine` runs some of each form: without any one of the four exceptions
TLC finds the property violated; the other properties of the run hold for them as well.

## 7. What is not modelled

* *Page*: the title, whose bytes are cut off the front wherever it was found
  (`main.go:146`), the escaping of text, `EnsureLF`, the HTML the formatter
  writes. Markdown's blocks, inline text and renderers: sequential text
  processing over unbounded strings, without state that outlives a page.
* *Lexers*: emitters that use other lexers (`Using`, `UsingByGroup`) or the names
  of groups, and the registry. The definitions of the
  languages are data.
* *Regular expressions*: the reading of a pattern's text, subtraction of classes,
  the tables for characters beyond ASCII, the ECMAScript and RE2 options, several
  runners of one expression at a time, the clock of the timeouts, and `Replace`.
* *websocket*: the handshake, masks, compression, proxies; `isWriting`, which
  only reports writers that `doc.go` forbids.
* *fsnotify*: masks between all and nothing, recursive watches (tests only),
  `ERROR_MORE_DATA`; the front, which forwards to the backend, and the backends of
  other systems.
* `unix.go`, flags, logging: no state. `Handle` as a dispatcher, and `Hijack`,
  `Push`, `Unwrap` of the wrapper: forwarding only.
* `windows/`: generated bindings of system calls. Those that are used appear as
  what fsnotify relies on (packets are delivered once; posting to a closed port
  fails). They are a third of the repository's lines.
* The Go runtime (timers, `sync`, channels), the file system, the kernel's
  notifications, the network and the browser are external: modelled by what the
  code relies on.

## 8. Plan

Done: all modules of section 2, with the proofs of section 5.

Next, in this order:

1. `RulesWhole` for lexers whose includes are one level deep, where it needs no
   recursion, as a theorem.
2. `FastClock`: the clock goroutine of regexp2's timeouts, started and stopped
   on demand. Properties: while a deadline is pending the clock runs, so every
   timeout is noticed; at most one goroutine. With it, the cache of runners.
3. `UsingByGroup` and lexers that use others, on top of `Lexer`.
4. Markdown's block structure as operators against a reference definition, and
   the grammar of the handshake's headers.
