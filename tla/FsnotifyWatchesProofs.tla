------------------------ MODULE FsnotifyWatchesProofs ------------------------
(***************************************************************************)
(* Proofs about FsnotifyWatches: its types, that no watch turns deaf, that  *)
(* the changes of a directory are come to once and in order, and that the   *)
(* paths of the watches follow the renames.                                 *)
(*                                                                         *)
(* The inductive invariant says of each watch that it listens, that its     *)
(* buffers refer to changes that were noted and packets to entries that are *)
(* there, and that its changes are in one chain: those the reader has come  *)
(* to, those left in the buffer, and those that the kernel still holds.     *)
(*                                                                         *)
(* A lemma says what each operation on watches does: DeleteWatchDoes,       *)
(* CancelIoDoes, StartReadDoes, NotedDoes, EffectDoes.  AlikeSound and      *)
(* BystanderSound are for the watches that a step is not about, ReadEnds    *)
(* for the kernel's steps at the end of a read, ReaderStep and TouchStep    *)
(* for the reader's, and there is a lemma, ...Keeps, for each action.       *)
(*                                                                         *)
(* The paths need to be told from the names that were given: own[f][name]   *)
(* is whose the name is, or was, in folder f.  NamesInv says that the       *)
(* changes of each watch tell the story of these names, PathInv that each   *)
(* watched directory has the path of the folder it is in and a name that    *)
(* it has there as far as the reader has got.  CalmPaths is for the steps   *)
(* that give no name and come to none, FreshPaths for those that make a     *)
(* watch, HearsPaths and NameStepPaths for those that change a directory,   *)
(* EntryPaths for the reader at an entry.                                   *)
(***************************************************************************)
EXTENDS FsnotifyWatches, FiniteSetTheorems, SequenceTheorems, TLAPS

\* The state that the operations on watches are given.
States == [watch : [Ids -> Watch \cup {None}], watches : [Folders -> Ids \cup {None}],
           port : Seq(Packets)]

\* What an operation on one watch leaves as it was: q is watch r after it.
SameLog(r, q) ==
  /\ q.ino = r.ino /\ q.buf = r.buf /\ q.seen = r.seen
  /\ q.overflowed = r.overflowed /\ q.overwritten = r.overwritten
SameTold(r, q) == SameLog(r, q) /\ q.told = r.told /\ q.failed = r.failed
SameRead(r, q) ==
  q.open = r.open /\ q.pending = r.pending /\ q.kernel = r.kernel /\ q.full = r.full
SamePath(r, q) == q.path = r.path /\ q.rename = r.rename /\ q.along = r.along
Kept(r, q) == SameTold(r, q) /\ SamePath(r, q)
Touches(s, t, w) ==
  /\ t \in States /\ t.watch[w] \in Watch /\ Kept(s.watch[w], t.watch[w])
  /\ \A v \in Ids : v # w => t.watch[v] = s.watch[v]
-----------------------------------------------------------------------------
(* Library operators. *)

LEMMA MinId ==
  ASSUME NEW S \in SUBSET Nat, S # {}
  PROVE  Min(S) \in S /\ \A y \in S : Min(S) <= y
<1> DEFINE less == {p \in Nat \X Nat : p[1] < p[2]}
<1>1. OpToRel(<, Nat) = less
  BY Zenon DEF OpToRel
<1>2. IsWellFoundedOn(less, Nat)
  BY <1>1, NatLessThanWellFounded, Zenon
<1> HIDE DEF less
<1>3. PICK x \in S : \A y \in S : ~ (<<y, x>> \in less)
  BY <1>2, WFMin
<1>4. ASSUME NEW y \in S PROVE x <= y
  <2>1. x \in Nat /\ y \in Nat /\ ~ (<<y, x>> \in less)
    BY <1>3
  <2>2. y < x => <<y, x>> \in less
    BY <2>1 DEF less
  <2>3. QED
    BY <2>1, <2>2
<1>5. QED
  BY <1>4 DEF Min

\* SetToSeq lists every member of a finite set.
LEMMA Listed ==
  ASSUME NEW T, NEW S \in SUBSET T, IsFiniteSet(S)
  PROVE  /\ SetToSeq(S) \in Seq(T)
         /\ \A i \in 1 .. Len(SetToSeq(S)) : SetToSeq(S)[i] \in S
         /\ \A x \in S : \E i \in 1 .. Len(SetToSeq(S)) : SetToSeq(S)[i] = x
<1>1. PICK n \in Nat : n = Cardinality(S)
  BY FS_CardinalityType
<1>2. PICK f \in [1 .. n -> S] : IsInjective(f)
  BY <1>1, FS_CardinalityType DEF ExistsBijection, Bijection, Injection, IsInjective
<1>3. SetToSeq(S) \in [1 .. n -> S] /\ IsInjective(SetToSeq(S))
  BY <1>1, <1>2 DEF SetToSeq
<1>4. SetToSeq(S) \in Injection(1 .. n, S)
  BY <1>3 DEF Injection, IsInjective
<1>5. IsFiniteSet(1 .. n) /\ Cardinality(1 .. n) = n
  BY FS_Interval
<1>6. SetToSeq(S) \in Surjection(1 .. n, S)
  BY <1>1, <1>4, <1>5, FS_Injection
<1>7. SetToSeq(S) \in Seq(T) /\ Len(SetToSeq(S)) = n
  BY <1>3
<1>8. QED
  BY <1>3, <1>6, <1>7 DEF Surjection
-----------------------------------------------------------------------------
(* The operations on watches. *)

LEMMA WithWatch ==
  ASSUME NEW s \in States, NEW w \in Ids, NEW q \in Watch
  PROVE  LET t == [s EXCEPT !.watch[w] = q] IN
         /\ t \in States /\ t.watch[w] = q /\ t.watches = s.watches /\ t.port = s.port
         /\ \A v \in Ids : v # w => t.watch[v] = s.watch[v]
BY DEF States

LEMMA WithPort ==
  ASSUME NEW s \in States, NEW p \in Seq(Packets)
  PROVE  LET t == [s EXCEPT !.port = p] IN
         t \in States /\ t.watch = s.watch /\ t.watches = s.watches /\ t.port = p
BY DEF States

LEMMA DeleteWatchDoes ==
  ASSUME NEW s \in States, NEW w \in Ids, s.watch[w] \in Watch,
         NEW t, t = DeleteWatch(s, w)
  PROVE  /\ Touches(s, t, w) /\ SameRead(s.watch[w], t.watch[w])
         /\ t.watches = s.watches /\ t.port = s.port
         /\ t.watch[w].mask = FALSE /\ t.watch[w].names = {}
<1>1. PICK r \in Watch : r = s.watch[w]
  OBVIOUS
<1>2. PICK q : q = [r EXCEPT !.mask = FALSE, !.names = {}]
  OBVIOUS
<1>3. q \in Watch /\ Kept(r, q) /\ SameRead(r, q) /\ q.mask = FALSE /\ q.names = {}
  BY <1>2 DEF Watch, Kept, SameTold, SamePath, SameLog, SameRead
<1>4. t = [s EXCEPT !.watch[w] = q]
  BY <1>1, <1>2 DEF DeleteWatch, States
<1>5. QED
  BY <1>1, <1>3, <1>4, WithWatch DEF Touches

\* t is s after deleteWatch.
Deleted(s, t, w) ==
  /\ Touches(s, t, w) /\ SameRead(s.watch[w], t.watch[w])
  /\ t.watches = s.watches /\ t.port = s.port

LEMMA DeleteWatchSpares ==
  ASSUME NEW s \in States, NEW w \in Ids, s.watch[w] \in Watch
  PROVE  Deleted(s, DeleteWatch(s, w), w)
BY DeleteWatchDoes DEF Deleted

\* The handle of the watch is closed, and the watch of its inode leaves the map.
Shut(s, t, w) ==
  /\ t.watches = [s.watches EXCEPT ![s.watch[w].ino] = None]
  /\ t.watch[w].open = FALSE /\ t.watch[w].pending = FALSE
  /\ t.watch[w].kernel = <<>> /\ t.watch[w].full = FALSE

LEMMA CloseWatchDoes ==
  ASSUME NEW s \in States, NEW w \in Ids, s.watch[w] \in Watch,
         NEW t, t = CloseWatch(s, w)
  PROVE  Touches(s, t, w) /\ Shut(s, t, w) /\ t.port = s.port
<1>1. PICK r \in Watch : r = s.watch[w]
  OBVIOUS
<1>2. PICK q : q = [r EXCEPT !.open = FALSE, !.pending = FALSE, !.kernel = <<>>, !.full = FALSE]
  OBVIOUS
<1>3. q \in Watch /\ Kept(r, q) /\ q.open = FALSE /\ q.pending = FALSE /\ q.kernel = <<>> /\ q.full = FALSE
  <2>1. PICK a : a = [r EXCEPT !.open = FALSE]
    OBVIOUS
  <2>2. PICK b : b = [a EXCEPT !.pending = FALSE]
    OBVIOUS
  <2>3. PICK c : c = [b EXCEPT !.kernel = <<>>]
    OBVIOUS
  <2>4. a \in Watch /\ Kept(r, a) /\ a.open = FALSE
    BY <2>1 DEF Watch, Kept, SameTold, SamePath, SameLog
  <2>5. b \in Watch /\ Kept(a, b) /\ b.open = FALSE /\ b.pending = FALSE
    BY <2>2, <2>4 DEF Watch, Kept, SameTold, SamePath, SameLog
  <2>6. c \in Watch /\ Kept(b, c) /\ c.open = FALSE /\ c.pending = FALSE /\ c.kernel = <<>>
    <3>1. <<>> \in Seq(Nat)
      BY EmptySeq
    <3>2. QED
      BY <2>3, <2>5, <3>1 DEF Watch, Kept, SameTold, SamePath, SameLog
  <2>7. q = [c EXCEPT !.full = FALSE]
    BY <1>2, <2>1, <2>2, <2>3
  <2>8. /\ q \in Watch /\ Kept(c, q) /\ q.open = FALSE /\ q.pending = FALSE
        /\ q.kernel = <<>> /\ q.full = FALSE
    BY <2>6, <2>7 DEF Watch, Kept, SameTold, SamePath, SameLog
  <2>9. QED
    BY <2>4, <2>5, <2>6, <2>8 DEF Kept, SameTold, SamePath, SameLog
<1>4. PICK u : u = [s EXCEPT !.watch[w] = q]
  OBVIOUS
<1>5. CloseHandle(s, w) = u
  <2>1. CloseHandle(s, w) = [s EXCEPT !.watch[w] = [s.watch[w] EXCEPT
          !.open = FALSE, !.pending = FALSE, !.kernel = <<>>, !.full = FALSE]]
    BY DEF CloseHandle, States
  <2>2. QED
    BY <1>1, <1>2, <1>4, <2>1
<1>6. /\ u \in States /\ u.watch[w] = q /\ u.watches = s.watches /\ u.port = s.port
      /\ \A v \in Ids : v # w => u.watch[v] = s.watch[v]
  BY <1>3, <1>4, WithWatch
<1>7. t = [u EXCEPT !.watches = [s.watches EXCEPT ![r.ino] = None]]
  BY <1>1, <1>5, <1>6 DEF CloseWatch
<1>8. [s.watches EXCEPT ![r.ino] = None] \in [Folders -> Ids \cup {None}]
  BY DEF States
<1>9. /\ t \in States /\ t.watch = u.watch /\ t.port = u.port
      /\ t.watches = [s.watches EXCEPT ![r.ino] = None]
  BY <1>6, <1>7, <1>8 DEF States
<1>10. QED
  BY <1>1, <1>3, <1>6, <1>9 DEF Touches, Shut

Aborted(w) == [for |-> w, st |-> "aborted", n |-> 0]

\* Its read is cancelled, or its handle is closed and nothing is watched any more.
Cancelled(s, t, w) ==
  /\ Touches(s, t, w) /\ t.watches = s.watches
  /\ t.port = s.port \/ t.port = Append(s.port, Aborted(w))
  /\ t.watch[w].open = s.watch[w].open /\ t.watch[w].kernel = s.watch[w].kernel
  /\ t.watch[w].full = s.watch[w].full
  /\ t.watch[w].open = FALSE => t.watch[w].mask = FALSE /\ t.watch[w].names = {}

LEMMA CancelIoDoes ==
  ASSUME NEW s \in States, NEW w \in Ids, s.watch[w] \in Watch,
         NEW t, t = CancelIo(s, w)
  PROVE  Cancelled(s, t, w)
<1>1. PICK r \in Watch : r = s.watch[w]
  OBVIOUS
<1>2. r.open \in BOOLEAN /\ r.pending \in BOOLEAN
  BY DEF Watch
<1>3. CASE r.open = FALSE
  <2>1. t = DeleteWatch(s, w)
    BY <1>1, <1>3 DEF CancelIo
  <2>2. /\ Touches(s, t, w) /\ SameRead(s.watch[w], t.watch[w])
        /\ t.watches = s.watches /\ t.port = s.port
        /\ t.watch[w].mask = FALSE /\ t.watch[w].names = {}
    BY <2>1, DeleteWatchDoes
  <2>3. t.watch[w].open = FALSE
    BY <1>1, <1>3, <2>2 DEF SameRead
  <2>4. QED
    BY <2>2, <2>3 DEF SameRead, Cancelled
<1>4. CASE r.open = TRUE /\ r.pending = FALSE
  BY <1>1, <1>4 DEF CancelIo, Touches, Kept, SameTold, SamePath, SameLog, Cancelled
<1>5. CASE r.open = TRUE /\ r.pending = TRUE
  <2>1. PICK q : q = [r EXCEPT !.pending = FALSE]
    OBVIOUS
  <2>2. /\ q \in Watch /\ Kept(r, q) /\ q.pending = FALSE
        /\ q.open = r.open /\ q.kernel = r.kernel /\ q.full = r.full
    BY <2>1 DEF Watch, Kept, SameTold, SamePath, SameLog
  <2>3. PICK u : u = [s EXCEPT !.watch[w] = q]
    OBVIOUS
  <2>4. /\ u \in States /\ u.watch[w] = q /\ u.watches = s.watches /\ u.port = s.port
        /\ \A v \in Ids : v # w => u.watch[v] = s.watch[v]
    BY <2>2, <2>3, WithWatch
  <2>5. Append(s.port, Aborted(w)) \in Seq(Packets)
    <3>1. Aborted(w) \in Packets /\ s.port \in Seq(Packets)
      BY DEF Aborted, Packets, States
    <3>2. QED
      BY <3>1, AppendProperties
  <2>6. t = [u EXCEPT !.port = Append(s.port, Aborted(w))]
    <3>1. t = [s EXCEPT !.watch[w].pending = FALSE, !.port = Append(s.port, Aborted(w))]
      BY <1>1, <1>5 DEF CancelIo, Aborted
    <3>2. ASSUME NEW p
          PROVE  [s EXCEPT !.watch[w].pending = FALSE, !.port = p]
                 = [[s EXCEPT !.watch[w] = [s.watch[w] EXCEPT !.pending = FALSE]] EXCEPT !.port = p]
      OBVIOUS
    <3>3. QED
      BY <1>1, <2>1, <2>3, <3>1, <3>2
  <2>7. t \in States /\ t.watch = u.watch /\ t.watches = u.watches /\ t.port = Append(s.port, Aborted(w))
    <3>1. PICK p \in Seq(Packets) : p = Append(s.port, Aborted(w))
      BY <2>5
    <3>2. PICK x \in States : x = u
      BY <2>4
    <3>3. t = [x EXCEPT !.port = p]
      BY <2>6, <3>1, <3>2
    <3>4. t \in States /\ t.watch = x.watch /\ t.watches = x.watches /\ t.port = p
      BY <3>3, WithPort
    <3>5. QED
      BY <3>1, <3>2, <3>4
  <2>8. QED
    BY <1>1, <1>5, <2>2, <2>4, <2>7 DEF Touches, Cancelled
<1>6. QED
  BY <1>2, <1>3, <1>4, <1>5

\* The watch that startRead is called for is read, or it is shut.
Started(s, t, w) ==
  /\ Touches(s, t, w)
  /\ t.port = s.port \/ t.port = Append(s.port, Aborted(w))
  /\ \/ /\ t.watches = s.watches /\ s.watch[w].open = TRUE
        /\ t.watch[w].open = TRUE /\ t.watch[w].pending = TRUE
        /\ t.watch[w].kernel = s.watch[w].kernel /\ t.watch[w].full = s.watch[w].full
     \/ Shut(s, t, w)

LEMMA StartReadDoes ==
  ASSUME NEW s \in States, NEW w \in Ids, s.watch[w] \in Watch, NEW fails,
         NEW t, t = StartRead(s, w, fails)
  PROVE  Started(s, t, w)
<1>1. PICK c : c = CancelIo(s, w)
  OBVIOUS
<1>2. Cancelled(s, c, w)
  BY <1>1, CancelIoDoes
<1>3. c \in States /\ c.watch[w] \in Watch
  BY <1>2 DEF Touches, Cancelled
<1>4. CASE t = CloseWatch(c, w)
  <2>1. Touches(c, t, w) /\ Shut(c, t, w) /\ t.port = c.port
    BY <1>3, <1>4, CloseWatchDoes
  <2>2. Touches(s, t, w)
    BY <1>2, <2>1 DEF Cancelled, Touches, Kept, SameTold, SamePath, SameLog
  <2>3. s.watch[w].ino = c.watch[w].ino /\ c.watches = s.watches
    BY <1>2 DEF Cancelled, Touches, Kept, SameTold, SamePath, SameLog
  <2>4. Shut(s, t, w)
    BY <2>1, <2>3 DEF Shut
  <2>5. QED
    BY <1>2, <2>1, <2>2, <2>4 DEF Cancelled, Started
<1>5. CASE t = CloseWatch(DeleteWatch(c, w), w)
  <2>1. PICK d : d = DeleteWatch(c, w)
    OBVIOUS
  <2>2. Touches(c, d, w) /\ d.watches = c.watches /\ d.port = c.port
    BY <1>3, <2>1, DeleteWatchSpares DEF Deleted
  <2>3. d \in States /\ d.watch[w] \in Watch
    BY <2>2 DEF Touches
  <2>4. Touches(d, t, w) /\ Shut(d, t, w) /\ t.port = d.port
    BY <1>5, <2>1, <2>3, CloseWatchDoes
  <2>5. QED
    BY <1>2, <2>2, <2>4 DEF Cancelled, Started, Touches, Kept, SameTold, SamePath, SameLog, Shut
<1>6. CASE /\ t = [c EXCEPT !.watch[w].pending = TRUE]
           /\ ~ (c.watch[w].mask = FALSE /\ c.watch[w].names = {})
  <2>1. PICK r \in Watch : r = c.watch[w]
    BY <1>3
  <2>2. PICK q : q = [r EXCEPT !.pending = TRUE]
    OBVIOUS
  <2>3. /\ q \in Watch /\ Kept(r, q) /\ q.pending = TRUE
        /\ q.open = r.open /\ q.kernel = r.kernel /\ q.full = r.full
    BY <2>2 DEF Watch, Kept, SameTold, SamePath, SameLog
  <2>4. t = [c EXCEPT !.watch[w] = q]
    BY <1>6, <2>1, <2>2
  <2>5. /\ t \in States /\ t.watch[w] = q /\ t.watches = c.watches /\ t.port = c.port
        /\ \A v \in Ids : v # w => t.watch[v] = c.watch[v]
    BY <1>3, <2>3, <2>4, WithWatch
  <2>6. r.open = TRUE
    BY <1>2, <1>6, <2>1 DEF Cancelled, Watch
  <2>7. QED
    BY <1>2, <2>1, <2>3, <2>5, <2>6 DEF Cancelled, Started, Touches, Kept, SameTold, SamePath, SameLog
<1>7. c.watch[w].mask \in BOOLEAN
  BY <1>3 DEF Watch
<1>8. QED
  BY <1>1, <1>4, <1>5, <1>6, <1>7 DEF StartRead
-----------------------------------------------------------------------------
(* The invariant, for each watch v that was made. *)

Reading(v) == rd.pc = "parse" /\ rd.w = v
Ended(i, v) == port[i].for = v /\ port[i].st = "ok"
Waits(i, v) == port[i].for = v /\ port[i].st # "aborted"

\* WatchesListen.
Listens(v) ==
  InMap(v) /\ watch[v].failed = FALSE =>
    watch[v].pending = TRUE \/ Reading(v) \/ \E i \in 1 .. Len(port) : Waits(i, v)

\* The buffers refer to changes that were noted, packets and the reader to entries
\* that are there, and the kernel reads and overflows as it may.
Stored(r) ==
  /\ \A j \in 1 .. Len(r.kernel) : r.kernel[j] \in 1 .. Len(r.seen)
  /\ \A l \in 1 .. Len(r.buf) : r.buf[l].id \in 1 .. Len(r.seen)
  /\ r.pending = TRUE => r.open = TRUE
  /\ r.full = TRUE => r.overflowed = TRUE
BufferOK(v) ==
  /\ Stored(watch[v])
  /\ \A i \in 1 .. Len(port) : Ended(i, v) =>
       port[i].n <= Len(watch[v].buf) /\ (port[i].n = 0 => watch[v].overflowed = TRUE)
  /\ Reading(v) => rd.n <= Len(watch[v].buf)

\* The changes are in one chain, from those the reader has come to over those in
\* its buffer to those that the kernel holds.  Coming: the entries i to n of the
\* buffer come next.  After: the kernel holds what comes after those and a more.
Coming(r, i, n) ==
  \A l \in i .. n : /\ r.buf[l].id = Len(r.told) + l + 1 - i
                    /\ r.buf[l].last = TRUE <=> l = n
After(r, a) ==
  /\ \A j \in 1 .. Len(r.kernel) : r.kernel[j] = Len(r.told) + a + j
  /\ r.open = TRUE => Len(r.seen) = Len(r.told) + a + Len(r.kernel)
Chain(v) ==
  /\ Reading(v) => /\ \A i \in 1 .. Len(port) : ~Ended(i, v)
                   /\ Coming(watch[v], rd.i, rd.n) /\ After(watch[v], rd.n - rd.i + 1)
  /\ \A i \in 1 .. Len(port) : Ended(i, v) =>
       /\ \A j \in 1 .. Len(port) : Ended(j, v) => i = j
       /\ Coming(watch[v], 1, port[i].n) /\ After(watch[v], port[i].n)
  /\ ~Reading(v) /\ (\A i \in 1 .. Len(port) : ~Ended(i, v)) => After(watch[v], 0)
Ordered(v) ==
  watch[v].overflowed = FALSE /\ watch[v].overwritten = FALSE =>
    /\ \A i \in 1 .. Len(watch[v].told) : watch[v].told[i] = i
    /\ rd.pc # "closed" => Chain(v)

Sound(v) == Listens(v) /\ BufferOK(v) /\ Ordered(v)
IInv == TypeOK /\ \A v \in Watches : Sound(v)
-----------------------------------------------------------------------------
(* What a step leaves as it was. *)

\* The first d packets leave the port, and those that enter it are in N.
Shift(d, N) ==
  /\ \A i \in 1 .. Len(port) : i > d => i - d \in 1 .. Len(port') /\ port'[i - d] = port[i]
  /\ \A i \in 1 .. Len(port') :
       (i + d \in 1 .. Len(port) /\ port[i + d] = port'[i]) \/ port'[i] \in N

LEMMA ShiftSame ==
  ASSUME port \in Seq(Packets), port' = port
  PROVE  Shift(0, {})
BY DEF Shift

LEMMA ShiftAppend ==
  ASSUME port \in Seq(Packets), NEW x, port' = Append(port, x)
  PROVE  Shift(0, {x})
BY DEF Shift

LEMMA ShiftConcat ==
  ASSUME port \in Seq(Packets), NEW N \in SUBSET Packets, NEW q \in Seq(Packets),
         \A i \in 1 .. Len(q) : q[i] \in N, port' = port \o q
  PROVE  Shift(0, N)
<1>1. /\ Len(port') = Len(port) + Len(q)
      /\ \A i \in 1 .. Len(port) + Len(q) :
           port'[i] = IF i <= Len(port) THEN port[i] ELSE q[i - Len(port)]
  BY ConcatProperties
<1>2. Len(port) \in Nat /\ Len(q) \in Nat
  OBVIOUS
<1>3. ASSUME NEW i \in 1 .. Len(port'), i > Len(port)
      PROVE  port'[i] \in N
  <2>1. i - Len(port) \in 1 .. Len(q) /\ ~ (i <= Len(port))
    BY <1>1, <1>2, <1>3
  <2>2. QED
    BY <1>1, <2>1
<1>4. QED
  BY <1>1, <1>2, <1>3 DEF Shift

LEMMA ShiftTail ==
  ASSUME port \in Seq(Packets), port # <<>>, port' = Tail(port)
  PROVE  Shift(1, {})
<1>1. /\ Len(port') = Len(port) - 1 /\ \A i \in 1 .. Len(port') : port'[i] = port[i + 1]
  BY HeadTailProperties
<1>2. QED
  BY <1>1 DEF Shift

LEMMA ShiftTailAppend ==
  ASSUME port \in Seq(Packets), port # <<>>, NEW x, port' = Append(Tail(port), x)
  PROVE  Shift(1, {x})
<1>1. PICK q : q = Tail(port)
  OBVIOUS
<1>2. q \in Seq(Packets) /\ Len(q) = Len(port) - 1 /\ \A i \in 1 .. Len(q) : q[i] = port[i + 1]
  BY <1>1, HeadTailProperties
<1>3. Len(port') = Len(q) + 1 /\ port'[Len(q) + 1] = x /\ \A i \in 1 .. Len(q) : port'[i] = q[i]
  BY <1>1, <1>2
<1>4. Len(port) \in Nat /\ Len(q) \in Nat
  BY <1>2
<1>5. QED
  BY <1>2, <1>3, <1>4 DEF Shift

\* The log is as it was, and the kernel holds what it held, or nothing any more.
Stays(r, q) ==
  /\ r \in Watch /\ q \in Watch /\ SameLog(r, q) /\ (q.pending = TRUE => q.open = TRUE)
  /\ \/ q.open = r.open /\ q.kernel = r.kernel /\ q.full = r.full
     \/ q.open = FALSE /\ q.kernel = <<>> /\ q.full = FALSE

LEMMA BufferStays ==
  ASSUME NEW v, BufferOK(v), Stays(watch[v], watch'[v]),
         port \in Seq(Packets), NEW d \in Nat, NEW N, Shift(d, N),
         \A x \in N : ~ (x.for = v /\ x.st = "ok"),
         Reading(v)' => Reading(v) /\ rd'.n = rd.n
  PROVE  BufferOK(v)'
<1>1. Stored(watch'[v])
  BY DEF BufferOK, Stored, Stays, SameLog
<1>2. watch'[v].buf = watch[v].buf /\ watch'[v].overflowed = watch[v].overflowed
  BY DEF Stays, SameLog
<1>3. ASSUME NEW i \in 1 .. Len(port'), Ended(i, v)'
      PROVE  port'[i].n <= Len(watch'[v].buf) /\ (port'[i].n = 0 => watch'[v].overflowed = TRUE)
  <2>1. i + d \in 1 .. Len(port) /\ port[i + d] = port'[i]
    BY <1>3 DEF Shift, Ended
  <2>2. QED
    BY <1>2, <1>3, <2>1 DEF BufferOK, Ended
<1>4. QED
  BY <1>1, <1>2, <1>3 DEF BufferOK

LEMMA OrderedStays ==
  ASSUME NEW v, Ordered(v), Stays(watch[v], watch'[v]), watch'[v].told = watch[v].told,
         port \in Seq(Packets), NEW d \in Nat, NEW N, Shift(d, N),
         \A x \in N : ~ (x.for = v /\ x.st = "ok"),
         \A i \in 1 .. Len(port) : Ended(i, v) => i > d,
         Reading(v)' <=> Reading(v), Reading(v) => rd' = rd,
         rd.pc = "closed" => rd'.pc = "closed"
  PROVE  Ordered(v)'
<1>1. PICK r : r = watch[v]
  OBVIOUS
<1>2. PICK q : q = watch'[v]
  OBVIOUS
<1>3. SUFFICES ASSUME r.overflowed = FALSE, r.overwritten = FALSE
      PROVE  (\A i \in 1 .. Len(q.told) : q.told[i] = i) /\ (rd'.pc # "closed" => Chain(v)')
  BY <1>1, <1>2 DEF Ordered, Stays, SameLog
<1>4. (\A i \in 1 .. Len(r.told) : r.told[i] = i) /\ (rd.pc # "closed" => Chain(v))
  BY <1>1, <1>3 DEF Ordered
<1>5. q.told = r.told /\ q.buf = r.buf
  BY <1>1, <1>2 DEF Stays, SameLog
<1>6. ASSUME NEW a, After(r, a)
      PROVE  After(q, a)
  <2>1. q.told = r.told /\ q.seen = r.seen
    BY <1>1, <1>2 DEF Stays, SameLog
  <2>2. CASE q.open = r.open /\ q.kernel = r.kernel
    BY <1>6, <2>1, <2>2 DEF After
  <2>3. CASE q.open = FALSE /\ q.kernel = <<>>
    BY <2>3 DEF After
  <2>4. QED
    BY <1>1, <1>2, <2>2, <2>3 DEF Stays
<1>7. ASSUME NEW i, NEW n, Coming(r, i, n)
      PROVE  Coming(q, i, n)
  BY <1>5, <1>7 DEF Coming
<1>8. ASSUME NEW i \in 1 .. Len(port'), Ended(i, v)'
      PROVE  i + d \in 1 .. Len(port) /\ port[i + d] = port'[i] /\ Ended(i + d, v)
  BY <1>8 DEF Shift, Ended
<1>9. ASSUME NEW i \in 1 .. Len(port), Ended(i, v)
      PROVE  i - d \in 1 .. Len(port') /\ Ended(i - d, v)'
  BY <1>9 DEF Shift, Ended
<1>10. ASSUME Chain(v)
       PROVE  Chain(v)'
  <2>1. ASSUME Reading(v)'
         PROVE  /\ \A i \in 1 .. Len(port') : ~Ended(i, v)'
                /\ Coming(q, rd'.i, rd'.n) /\ After(q, rd'.n - rd'.i + 1)
    BY <1>1, <1>10, <1>6, <1>7, <1>8, <2>1 DEF Chain
  <2>2. ASSUME NEW i \in 1 .. Len(port'), Ended(i, v)'
         PROVE  /\ \A j \in 1 .. Len(port') : Ended(j, v)' => i = j
                /\ Coming(q, 1, port'[i].n) /\ After(q, port'[i].n)
    <3>1. ASSUME NEW j \in 1 .. Len(port'), Ended(j, v)'
          PROVE  i = j
      <4>1. i + d = j + d
        BY <1>10, <1>8, <2>2, <3>1 DEF Chain
      <4>2. QED
        BY <4>1
    <3>2. Coming(r, 1, port'[i].n) /\ After(r, port'[i].n)
      BY <1>1, <1>10, <1>8, <2>2 DEF Chain
    <3>3. QED
      BY <1>6, <1>7, <3>1, <3>2
  <2>3. ASSUME ~Reading(v)', \A i \in 1 .. Len(port') : ~Ended(i, v)'
        PROVE  After(q, 0)
    BY <1>1, <1>10, <1>6, <1>9, <2>3 DEF Chain
  <2>4. QED
    BY <1>2, <2>1, <2>2, <2>3 DEF Chain
<1>11. QED
  BY <1>4, <1>5, <1>10

LEMMA ListensStays ==
  ASSUME NEW v, Listens(v), InMap(v)' => InMap(v),
         watch'[v].failed = watch[v].failed, watch[v].pending = TRUE => watch'[v].pending = TRUE,
         port \in Seq(Packets), NEW d \in Nat, NEW N, Shift(d, N),
         \A i \in 1 .. Len(port) : Waits(i, v) => i > d,
         Reading(v) => Reading(v)'
  PROVE  Listens(v)'
<1>1. ASSUME NEW i \in 1 .. Len(port), Waits(i, v)
      PROVE  i - d \in 1 .. Len(port') /\ Waits(i - d, v)'
  BY <1>1 DEF Shift, Waits
<1>2. QED
  BY <1>1 DEF Listens
-----------------------------------------------------------------------------
(* The kernel notes changes. *)

\* What noting ns makes of watch r: q.
Heard(r, q, ns) ==
  /\ q \in Watch /\ q.ino = r.ino /\ q.buf = r.buf /\ q.told = r.told /\ q.seen = r.seen \o ns
  /\ q.overwritten = r.overwritten /\ q.failed = r.failed
  /\ q.open = r.open /\ q.pending = r.pending
  /\ \/ /\ q.overflowed = r.overflowed /\ q.full = FALSE
        /\ q.kernel = r.kernel \o [i \in 1 .. Len(ns) |-> Len(r.seen) + i]
     \/ q.overflowed = TRUE /\ q.kernel = <<>>

LEMMA NotedDoes ==
  ASSUME NEW r \in Watch, NEW ns \in Seq(Acts), NEW q, q = Noted(r, ns)
  PROVE  Heard(r, q, ns)
<1>1. PICK ids : ids = [i \in 1 .. Len(ns) |-> Len(r.seen) + i]
  OBVIOUS
<1>2. r.seen \in Seq(Acts) /\ r.kernel \in Seq(Nat) /\ r.full \in BOOLEAN /\ r.overflowed \in BOOLEAN
  BY DEF Watch
<1>3. ids \in Seq(Nat)
  BY <1>1, <1>2
<1>4. PICK all : all = r.seen \o ns
  OBVIOUS
<1>5. all \in Seq(Acts)
  BY <1>2, <1>4, ConcatProperties
<1>6. DOMAIN ns = 1 .. Len(ns)
  OBVIOUS
<1>7. ASSUME NEW k \in Seq(Nat), NEW f \in BOOLEAN, NEW o \in BOOLEAN,
             q = [r EXCEPT !.seen = all, !.kernel = k, !.full = f, !.overflowed = o]
      PROVE  /\ q \in Watch /\ q.ino = r.ino /\ q.buf = r.buf /\ q.told = r.told /\ q.seen = all
             /\ q.overwritten = r.overwritten /\ q.failed = r.failed
             /\ q.open = r.open /\ q.pending = r.pending
             /\ q.kernel = k /\ q.full = f /\ q.overflowed = o
  <2>1. PICK a : a = [r EXCEPT !.seen = all]
    OBVIOUS
  <2>2. PICK b : b = [a EXCEPT !.kernel = k]
    OBVIOUS
  <2>3. PICK c : c = [b EXCEPT !.full = f]
    OBVIOUS
  <2>4. q = [c EXCEPT !.overflowed = o]
    BY <1>7, <2>1, <2>2, <2>3
  <2>5. /\ a \in Watch /\ a.ino = r.ino /\ a.buf = r.buf /\ a.told = r.told /\ a.seen = all
        /\ a.overwritten = r.overwritten /\ a.failed = r.failed
        /\ a.open = r.open /\ a.pending = r.pending
    BY <1>5, <2>1 DEF Watch
  <2>6. /\ b \in Watch /\ b.ino = r.ino /\ b.buf = r.buf /\ b.told = r.told /\ b.seen = all
        /\ b.overwritten = r.overwritten /\ b.failed = r.failed
        /\ b.open = r.open /\ b.pending = r.pending /\ b.kernel = k
    BY <2>2, <2>5 DEF Watch
  <2>7. /\ c \in Watch /\ c.ino = r.ino /\ c.buf = r.buf /\ c.told = r.told /\ c.seen = all
        /\ c.overwritten = r.overwritten /\ c.failed = r.failed
        /\ c.open = r.open /\ c.pending = r.pending /\ c.kernel = k /\ c.full = f
    BY <2>3, <2>6 DEF Watch
  <2>8. QED
    BY <2>4, <2>7 DEF Watch
<1>8. PICK k : k = r.kernel \o ids
  OBVIOUS
<1>9. k \in Seq(Nat)
  BY <1>2, <1>3, <1>8, ConcatProperties
<1>10. CASE q = [r EXCEPT !.seen = all, !.kernel = k, !.full = FALSE, !.overflowed = r.overflowed]
  BY <1>1, <1>2, <1>4, <1>7, <1>8, <1>9, <1>10 DEF Heard
<1>11. CASE q = [r EXCEPT !.seen = all, !.kernel = <<>>, !.full = TRUE, !.overflowed = TRUE]
  <2>1. <<>> \in Seq(Nat)
    BY EmptySeq
  <2>2. QED
    BY <1>4, <1>7, <1>11, <2>1 DEF Heard
<1>12. PICK fits : fits = (~r.full /\ Len(r.kernel) + Len(ns) <= MaxKernel)
  OBVIOUS
<1>13. q = [r EXCEPT !.seen = all, !.kernel = IF fits THEN k ELSE <<>>, !.full = ~fits,
                     !.overflowed = @ \/ ~fits]
  BY <1>1, <1>4, <1>6, <1>8, <1>12 DEF Noted
<1>14. QED
  BY <1>2, <1>10, <1>11, <1>12, <1>13

LEMMA Numbered ==
  ASSUME NEW m \in Nat, NEW n \in Nat, NEW ids, ids = [i \in 1 .. n |-> m + i]
  PROVE  ids \in Seq(Nat) /\ Len(ids) = n /\ \A i \in 1 .. n : ids[i] = m + i
<1>1. \A i \in 1 .. n : m + i \in Nat
  OBVIOUS
<1>2. QED
  BY <1>1

LEMMA HeardStored ==
  ASSUME NEW r \in Watch, NEW q, NEW ns \in Seq(Acts), Heard(r, q, ns), Stored(r), r.open = TRUE
  PROVE  Stored(q)
<1>1. r.seen \in Seq(Acts) /\ r.kernel \in Seq(Nat) /\ r.buf \in Seq(Entries)
  BY DEF Watch
<1>2. Len(q.seen) = Len(r.seen) + Len(ns) /\ Len(r.seen) \in Nat /\ Len(ns) \in Nat
  BY <1>1, ConcatProperties DEF Heard
<1>3. ASSUME NEW j \in 1 .. Len(q.kernel)
      PROVE  q.kernel[j] \in 1 .. Len(q.seen)
  <2>1. CASE q.kernel = <<>>
    BY <1>3, <2>1
  <2>2. CASE q.kernel = r.kernel \o [i \in 1 .. Len(ns) |-> Len(r.seen) + i]
    <3>1. PICK ids : ids = [i \in 1 .. Len(ns) |-> Len(r.seen) + i]
      OBVIOUS
    <3>9. ids \in Seq(Nat) /\ Len(ids) = Len(ns) /\ \A i \in 1 .. Len(ns) : ids[i] = Len(r.seen) + i
      BY <1>2, <3>1, Numbered
    <3>2. /\ Len(q.kernel) = Len(r.kernel) + Len(ids)
          /\ q.kernel[j] = IF j <= Len(r.kernel) THEN r.kernel[j] ELSE ids[j - Len(r.kernel)]
      BY <1>1, <1>3, <2>2, <3>9, <3>1, ConcatProperties
    <3>3. CASE j <= Len(r.kernel)
      BY <1>2, <1>3, <3>2, <3>3 DEF Stored
    <3>4. CASE ~ (j <= Len(r.kernel))
      <4>1. j - Len(r.kernel) \in 1 .. Len(ns)
        BY <1>1, <1>2, <1>3, <3>9, <3>2, <3>4
      <4>2. PICK i \in 1 .. Len(ns) : q.kernel[j] = Len(r.seen) + i
        BY <3>9, <3>2, <3>4, <4>1
      <4>3. QED
        BY <1>2, <4>2
    <3>5. QED
      BY <3>3, <3>4
  <2>3. QED
    BY <2>1, <2>2 DEF Heard
<1>4. ASSUME NEW l \in 1 .. Len(q.buf)
      PROVE  q.buf[l].id \in 1 .. Len(q.seen)
  BY <1>2, <1>4 DEF Heard, Stored
<1>5. q.pending = TRUE => q.open = TRUE
  BY DEF Heard
<1>6. q.full = TRUE => q.overflowed = TRUE
  BY DEF Heard, Stored
<1>7. QED
  BY <1>3, <1>4, <1>5, <1>6 DEF Stored

LEMMA HeardAfter ==
  ASSUME NEW r \in Watch, NEW q, NEW ns \in Seq(Acts), Heard(r, q, ns), r.open = TRUE,
         q.overflowed = FALSE, NEW a \in Nat, After(r, a)
  PROVE  After(q, a)
<1>1. r.seen \in Seq(Acts) /\ r.kernel \in Seq(Nat) /\ r.told \in Seq(Nat)
  BY DEF Watch
<1>2. Len(q.seen) = Len(r.seen) + Len(ns) /\ Len(r.seen) \in Nat /\ Len(ns) \in Nat
  BY <1>1, ConcatProperties DEF Heard
<1>10. PICK ids : ids = [i \in 1 .. Len(ns) |-> Len(r.seen) + i]
  OBVIOUS
<1>3. ids \in Seq(Nat) /\ Len(ids) = Len(ns) /\ \A i \in 1 .. Len(ns) : ids[i] = Len(r.seen) + i
  BY <1>10, <1>2, Numbered
<1>4. q.kernel = r.kernel \o ids /\ q.told = r.told
  BY <1>10 DEF Heard
<1>5. Len(q.kernel) = Len(r.kernel) + Len(ids) /\ Len(r.kernel) \in Nat /\ Len(r.told) \in Nat
  BY <1>1, <1>4, ConcatProperties
<1>6. Len(r.seen) = Len(r.told) + a + Len(r.kernel)
  BY DEF After
<1>7. ASSUME NEW j \in 1 .. Len(q.kernel)
      PROVE  q.kernel[j] = Len(q.told) + a + j
  <2>1. q.kernel[j] = IF j <= Len(r.kernel) THEN r.kernel[j] ELSE ids[j - Len(r.kernel)]
    BY <1>1, <1>4, <1>7, ConcatProperties
  <2>2. CASE j <= Len(r.kernel)
    BY <1>4, <1>5, <1>7, <2>1, <2>2 DEF After
  <2>3. CASE ~ (j <= Len(r.kernel))
    <3>1. PICK i : i = j - Len(r.kernel)
      OBVIOUS
    <3>2. i \in 1 .. Len(ns)
      BY <1>2, <1>3, <1>5, <1>7, <2>3, <3>1
    <3>3. q.kernel[j] = Len(r.seen) + i
      BY <1>3, <2>1, <2>3, <3>1, <3>2
    <3>4. j = Len(r.kernel) + i
      BY <1>5, <1>7, <3>1
    <3>5. PICK z \in Nat, t \in Nat : z = Len(r.kernel) /\ t = Len(r.told)
      BY <1>5
    <3>6. i \in Nat
      BY <1>2, <3>2
    <3>7. q.kernel[j] = t + a + z + i
      BY <1>6, <3>3, <3>5
    <3>8. j = z + i
      BY <3>4, <3>5
    <3>9. t + a \in Nat
      OBVIOUS
    <3>10. t + a + z + i = t + a + (z + i)
      BY <3>6, <3>9
    <3>11. t + a + z + i = t + a + j
      BY <3>10, <3>8
    <3>12. q.kernel[j] = t + a + j
      BY <3>7, <3>11
    <3>13. QED
      BY <1>4, <3>5, <3>12
  <2>4. QED
    BY <2>2, <2>3
<1>8. Len(q.seen) = Len(q.told) + a + Len(q.kernel)
  <2>1. PICK x \in Nat, y \in Nat, z \in Nat, t \in Nat :
          x = Len(r.seen) /\ y = Len(ns) /\ z = Len(r.kernel) /\ t = Len(r.told)
    BY <1>2, <1>5
  <2>2. Len(q.seen) = x + y /\ Len(q.kernel) = z + y /\ x = t + a + z /\ Len(q.told) = t
    BY <1>2, <1>3, <1>4, <1>5, <1>6, <2>1
  <2>3. QED
    BY <2>2
<1>9. QED
  BY <1>7, <1>8 DEF After

LEMMA HeardSound ==
  ASSUME NEW v, Sound(v), watch[v] \in Watch, NEW ns \in Seq(Acts),
         Heard(watch[v], watch'[v], ns), watch[v].open = TRUE,
         port \in Seq(Packets), \A i \in 1 .. Len(port) : Ended(i, v) => port[i].n \in Nat,
         rd.pc = "parse" => rd.i \in 1 .. rd.n /\ rd.n \in Nat,
         NEW N, Shift(0, N), \A x \in N : ~ (x.for = v /\ x.st = "ok"),
         rd' = rd, watches' = watches
  PROVE  Sound(v)'
<1>1. PICK r \in Watch : r = watch[v]
  OBVIOUS
<1>2. PICK q : q = watch'[v]
  OBVIOUS
<1>3. Heard(r, q, ns) /\ r.open = TRUE
  BY <1>1, <1>2
<1>4. /\ q.ino = r.ino /\ q.buf = r.buf /\ q.told = r.told /\ q.overwritten = r.overwritten
      /\ q.failed = r.failed /\ q.pending = r.pending
      /\ q.overflowed = FALSE => r.overflowed = FALSE
      /\ r.overflowed = TRUE => q.overflowed = TRUE
  BY <1>3 DEF Heard
<1>5. Reading(v)' <=> Reading(v)
  BY DEF Reading
<1>6. ASSUME NEW i \in 1 .. Len(port')
      PROVE  (i \in 1 .. Len(port) /\ port[i] = port'[i]) \/ ~Ended(i, v)'
  BY DEF Shift, Ended
<1>7. ASSUME NEW i \in 1 .. Len(port)
      PROVE  i \in 1 .. Len(port') /\ port'[i] = port[i]
  <2>1. i - 0 \in 1 .. Len(port') /\ port'[i - 0] = port[i]
    BY DEF Shift
  <2>2. i - 0 = i
    OBVIOUS
  <2>3. QED
    BY <2>1, <2>2
<1>8. Listens(v)'
  <2>1. InMap(v)' => InMap(v)
    BY <1>1, <1>2, <1>4 DEF InMap
  <2>2. ASSUME NEW i \in 1 .. Len(port), Waits(i, v)
        PROVE  i \in 1 .. Len(port') /\ Waits(i, v)'
    BY <1>7, <2>2 DEF Waits
  <2>3. QED
    BY <1>1, <1>2, <1>4, <1>5, <2>1, <2>2 DEF Sound, Listens
<1>9. BufferOK(v)'
  <2>1. Stored(q)
    BY <1>1, <1>3, HeardStored DEF Sound, BufferOK
  <2>2. ASSUME NEW i \in 1 .. Len(port'), Ended(i, v)'
        PROVE  port'[i].n <= Len(q.buf) /\ (port'[i].n = 0 => q.overflowed = TRUE)
    <3>1. i \in 1 .. Len(port) /\ port[i] = port'[i] /\ Ended(i, v)
      BY <1>6, <2>2 DEF Ended
    <3>2. QED
      BY <1>1, <1>4, <3>1 DEF Sound, BufferOK
  <2>3. Reading(v)' => rd'.n <= Len(q.buf)
    BY <1>1, <1>4, <1>5 DEF Sound, BufferOK
  <2>4. QED
    BY <1>2, <2>1, <2>2, <2>3 DEF BufferOK
<1>10. Ordered(v)'
  <2>1. SUFFICES ASSUME q.overflowed = FALSE, q.overwritten = FALSE
        PROVE  (\A i \in 1 .. Len(q.told) : q.told[i] = i) /\ (rd.pc # "closed" => Chain(v)')
    BY <1>2 DEF Ordered
  <2>2. (\A i \in 1 .. Len(r.told) : r.told[i] = i) /\ (rd.pc # "closed" => Chain(v))
    BY <1>1, <1>4, <2>1 DEF Sound, Ordered
  <2>3. ASSUME NEW a \in Nat, After(r, a)
        PROVE  After(q, a)
    BY <1>3, <2>1, <2>3, HeardAfter
  <2>4. ASSUME NEW i, NEW n, Coming(r, i, n)
        PROVE  Coming(q, i, n)
    BY <1>4, <2>4 DEF Coming
  <2>5. ASSUME Chain(v)
        PROVE  Chain(v)'
    <3>1. ASSUME Reading(v)'
          PROVE  /\ \A i \in 1 .. Len(port') : ~Ended(i, v)'
                 /\ Coming(q, rd'.i, rd'.n) /\ After(q, rd'.n - rd'.i + 1)
      <4>1. /\ \A i \in 1 .. Len(port) : ~Ended(i, v)
            /\ Coming(r, rd.i, rd.n) /\ After(r, rd.n - rd.i + 1)
        BY <1>1, <1>5, <2>5, <3>1 DEF Chain
      <4>2. rd.n - rd.i + 1 \in Nat
        BY <1>5, <3>1 DEF Reading
      <4>3. QED
        BY <1>6, <2>3, <2>4, <4>1, <4>2 DEF Ended
    <3>2. ASSUME NEW i \in 1 .. Len(port'), Ended(i, v)'
          PROVE  /\ \A j \in 1 .. Len(port') : Ended(j, v)' => i = j
                 /\ Coming(q, 1, port'[i].n) /\ After(q, port'[i].n)
      <4>1. i \in 1 .. Len(port) /\ port[i] = port'[i] /\ Ended(i, v)
        BY <1>6, <3>2 DEF Ended
      <4>2. /\ \A j \in 1 .. Len(port) : Ended(j, v) => i = j
            /\ Coming(r, 1, port[i].n) /\ After(r, port[i].n)
        BY <1>1, <2>5, <4>1 DEF Chain
      <4>3. \A j \in 1 .. Len(port') : Ended(j, v)' => i = j
        BY <1>6, <4>2 DEF Ended
      <4>4. QED
        BY <2>3, <2>4, <4>1, <4>2, <4>3
    <3>3. ASSUME ~Reading(v)', \A i \in 1 .. Len(port') : ~Ended(i, v)'
          PROVE  After(q, 0)
      <4>1. \A i \in 1 .. Len(port) : ~Ended(i, v)
        BY <1>7, <3>3 DEF Ended
      <4>2. After(r, 0)
        BY <1>1, <1>5, <2>5, <3>3, <4>1 DEF Chain
      <4>3. QED
        BY <2>3, <4>2
    <3>4. QED
      BY <1>2, <3>1, <3>2, <3>3 DEF Chain
  <2>6. QED
    BY <1>4, <2>2, <2>5
<1>11. QED
  BY <1>8, <1>9, <1>10 DEF Sound

\* A watch whose log and whose read a step does nothing to.
Alike(r, q) == q \in Watch /\ SameTold(r, q) /\ SameRead(r, q)

LEMMA AlikeSound ==
  ASSUME NEW v, Sound(v), watch[v] \in Watch, Alike(watch[v], watch'[v]), InMap(v)' => InMap(v),
         port \in Seq(Packets), NEW d \in Nat, NEW N, Shift(d, N),
         \A x \in N : ~ (x.for = v /\ x.st = "ok"),
         \A i \in 1 .. Len(port) : Ended(i, v) \/ Waits(i, v) => i > d,
         Reading(v)' <=> Reading(v), Reading(v) => rd' = rd,
         rd.pc = "closed" => rd'.pc = "closed"
  PROVE  Sound(v)'
<1>1. Stays(watch[v], watch'[v])
  BY DEF Alike, SameTold, SameRead, Stays, Sound, BufferOK, Stored
<1>2. /\ watch'[v].told = watch[v].told /\ watch'[v].failed = watch[v].failed
      /\ watch'[v].pending = watch[v].pending
  BY DEF Alike, SameTold, SameRead
<1>3. Listens(v)'
  BY <1>2, ListensStays DEF Sound
<1>4. BufferOK(v)'
  BY <1>1, BufferStays DEF Sound
<1>5. Ordered(v)'
  BY <1>1, <1>2, OrderedStays DEF Sound
<1>6. QED
  BY <1>3, <1>4, <1>5 DEF Sound

LEMMA BystanderSound ==
  ASSUME NEW v, Sound(v), watch[v] \in Watch, watch'[v] = watch[v], InMap(v)' => InMap(v),
         port \in Seq(Packets), NEW d \in Nat, NEW N, Shift(d, N), \A x \in N : x.for # v,
         \A i \in 1 .. Len(port) : port[i].for = v => i > d,
         Reading(v)' <=> Reading(v), Reading(v) => rd' = rd,
         rd.pc = "closed" => rd'.pc = "closed"
  PROVE  Sound(v)'
<1>1. Alike(watch[v], watch'[v])
  BY DEF Alike, SameTold, SameLog, SameRead
<1>2. \A x \in N : ~ (x.for = v /\ x.st = "ok")
  OBVIOUS
<1>3. \A i \in 1 .. Len(port) : Ended(i, v) \/ Waits(i, v) => i > d
  BY DEF Ended, Waits
<1>4. QED
  BY <1>1, <1>2, <1>3, AlikeSound
-----------------------------------------------------------------------------
(* Types. *)

LEMMA Made ==
  ASSUME WatchTypeOK, NEW v \in Watches
  PROVE  v \in Ids /\ watch[v] \in Watch
BY DEF WatchTypeOK, Watches

LEMMA WatchTypeStep ==
  ASSUME WatchTypeOK, watch' \in [Ids -> Watch \cup {None}],
         watches' \in [Folders -> Ids \cup {None}],
         \A v \in Watches : watch'[v] \in Watch /\ watch'[v].ino = watch[v].ino,
         \A f \in Folders : watches'[f] = watches[f] \/ watches'[f] = None
  PROVE  WatchTypeOK' /\ Watches \subseteq Watches'
<1>1. ASSUME NEW v \in Watches
      PROVE  v \in Watches'
  BY WatchesAssumption DEF Watches
<1>2. ASSUME NEW f \in Folders, watches'[f] # None
      PROVE  watches'[f] \in Watches' /\ watch'[watches'[f]].ino = f
  <2>1. watches'[f] = watches[f] /\ watches[f] \in Watches /\ watch[watches[f]].ino = f
    BY <1>2 DEF WatchTypeOK
  <2>2. QED
    BY <1>1, <2>1
<1>3. QED
  BY <1>1, <1>2 DEF WatchTypeOK

LEMMA PacketsStep ==
  ASSUME PortTypeOK, Watches \subseteq Watches', port' \in Seq(Packets),
         NEW d \in Nat, NEW N, Shift(d, N), \A x \in N : x.st # "wake" => x.for \in Watches'
  PROVE  \A i \in DOMAIN port' : port'[i].st # "wake" => port'[i].for \in Watches'
<1>1. DOMAIN port = 1 .. Len(port) /\ DOMAIN port' = 1 .. Len(port')
  BY DEF PortTypeOK
<1>2. ASSUME NEW i \in 1 .. Len(port'), port'[i].st # "wake"
      PROVE  port'[i].for \in Watches'
  <2>1. CASE i + d \in 1 .. Len(port) /\ port[i + d] = port'[i]
    BY <1>1, <1>2, <2>1 DEF PortTypeOK
  <2>2. CASE port'[i] \in N
    BY <1>2, <2>2
  <2>3. QED
    BY <2>1, <2>2 DEF Shift
<1>3. QED
  BY <1>1, <1>2

\* A request, and the end of a read of a watch.
LEMMA PacketTypes ==
  /\ \A op \in {"add", "remove"}, path \in Seq(Names) :
       [for |-> None, st |-> "wake", op |-> op, path |-> path] \in Packets
  /\ \A v \in Ids, st \in {"ok", "denied", "aborted", "error"}, n \in Nat :
       [for |-> v, st |-> st, n |-> n] \in Packets
BY DEF Packets

\* What is there is in a folder that is there.
LEMMA TreeFacts ==
  ASSUME TreeTypeOK, NEW n \in Inodes, Exists(n)
  PROVE  /\ PathOf(n) \in Seq(Names)
         /\ FolderOf(n) \in Folders /\ Exists(FolderOf(n))
         /\ n # Root => n \in Dirs \cup Files /\ place[n] \in Place
<1>1. n # Root => n \in Dirs \cup Files /\ place[n] \in Place
  BY DEF TreeTypeOK, Exists, Inodes
<1>2. ASSUME n # Root, place[n].in # Root
      PROVE  place[n].in \in Dirs /\ place[place[n].in] \in Place
  <2>1. place[n].in \in Dirs
    BY <1>1, <1>2 DEF Place, Folders
  <2>2. place[n] \notin {New, Gone} /\ n \in DOMAIN place
    BY <1>1, <1>2, WatchesAssumption DEF TreeTypeOK
  <2>3. place[place[n].in] \notin {New, Gone}
    BY <1>2, <2>2 DEF TreeTypeOK, Nested
  <2>4. QED
    BY <2>1, <2>3 DEF TreeTypeOK
<1>3. PathOf(n) \in Seq(Names)
  <2>1. CASE n = Root
    BY <2>1, EmptySeq DEF PathOf
  <2>2. CASE n # Root /\ place[n].in = Root
    <3>1. PathOf(n) = <<place[n].name>> /\ place[n].name \in Names
      BY <1>1, <2>2 DEF PathOf, Place
    <3>2. QED
      BY <3>1
  <2>3. CASE n # Root /\ place[n].in # Root
    <3>1. /\ PathOf(n) = <<place[place[n].in].name, place[n].name>>
          /\ place[n].name \in Names /\ place[place[n].in].name \in Names
      BY <1>1, <1>2, <2>3 DEF PathOf, Place
    <3>2. QED
      BY <3>1
  <2>4. QED
    BY <2>1, <2>2, <2>3
<1>4. FolderOf(n) \in Folders /\ Exists(FolderOf(n))
  <2>1. CASE n \in Files
    <3>1. n # Root
      BY <2>1, WatchesAssumption
    <3>2. place[n].in \in Folders
      BY <1>1, <3>1 DEF Place
    <3>3. CASE place[n].in = Root
      BY <2>1, <3>2, <3>3 DEF FolderOf, Exists
    <3>4. CASE place[n].in # Root
      <4>1. place[place[n].in] \notin {New, Gone} /\ place[n].in \in Dirs
        BY <1>2, <3>1, <3>4, WatchesAssumption
      <4>2. QED
        BY <2>1, <3>2, <4>1 DEF FolderOf, Exists
    <3>5. QED
      BY <3>3, <3>4
  <2>2. CASE n \notin Files
    BY <2>2 DEF FolderOf, Folders, Inodes
  <2>3. QED
    BY <2>1, <2>2
<1>5. QED
  BY <1>1, <1>3, <1>4
-----------------------------------------------------------------------------
(* The environment and the kernel. *)

LEMMA CallKeeps ==
  ASSUME IInv, NEW op \in {"add", "remove"}, NEW n \in Inodes, Exists(n), Call(op, PathOf(n))
  PROVE  IInv'
<1>1. TreeTypeOK /\ WatchTypeOK /\ PortTypeOK /\ port \in Seq(Packets)
  BY DEF IInv, TypeOK, PortTypeOK
<1>2. /\ watch' = watch /\ watches' = watches /\ rd' = rd /\ place' = place /\ used' = used
      /\ left.calls > 0 /\ left' = [left EXCEPT !.calls = @ - 1]
  BY DEF Call
<1>3. PICK x : /\ x = [for |-> None, st |-> "wake", op |-> op, path |-> PathOf(n)]
               /\ port' = Append(port, x)
  BY DEF Call
<1>4. x \in Packets /\ x.st = "wake" /\ x.for = None
  BY <1>1, <1>3, TreeFacts, PacketTypes
<1>5. port' \in Seq(Packets) /\ Shift(0, {x})
  BY <1>1, <1>3, <1>4, AppendProperties, ShiftAppend
<1>6. TreeTypeOK'
  BY <1>1, <1>2 DEF TreeTypeOK
<1>7. WatchTypeOK' /\ Watches' = Watches
  BY <1>1, <1>2 DEF WatchTypeOK, Watches
<1>8. left' \in [calls : Nat, changes : Nat, faults : Nat]
  BY <1>1, <1>2 DEF PortTypeOK
<1>9. \A i \in DOMAIN port' : port'[i].st # "wake" => port'[i].for \in Watches'
  BY <1>1, <1>4, <1>5, <1>7, PacketsStep
<1>10. PortTypeOK'
  BY <1>1, <1>2, <1>5, <1>7, <1>8, <1>9 DEF PortTypeOK
<1>11. ASSUME NEW v \in Watches
       PROVE  Sound(v)'
  <2>1. Sound(v) /\ v \in Ids /\ watch[v] \in Watch
    BY <1>1, Made DEF IInv
  <2>2. \A y \in {x} : y.for # v
    BY <1>4, <2>1, WatchesAssumption
  <2>3. InMap(v)' => InMap(v)
    BY <1>2 DEF InMap
  <2>4. \A i \in 1 .. Len(port) : port[i].for = v => i > 0
    OBVIOUS
  <2>5. (Reading(v)' <=> Reading(v)) /\ (Reading(v) => rd' = rd) /\ (rd.pc = "closed" => rd'.pc = "closed")
    BY <1>2 DEF Reading
  <2>6. watch'[v] = watch[v] /\ 0 \in Nat
    BY <1>2
  <2>7. QED
    BY <1>1, <1>5, <2>1, <2>2, <2>3, <2>4, <2>5, <2>6, BystanderSound
<1>12. QED
  BY <1>6, <1>7, <1>10, <1>11 DEF IInv, TypeOK

\* A watch that a change is noted for, or that is not concerned by it.
Told(v, ns) ==
  watch'[v] = watch[v] \/ (watch[v].open = TRUE /\ watch'[v] = Noted(watch[v], ns))

LEMMA ToldSound ==
  ASSUME WatchTypeOK, PortTypeOK, NEW v \in Watches, Sound(v), NEW ns \in Seq(Acts), Told(v, ns),
         NEW N, Shift(0, N), \A x \in N : x.for # v, rd' = rd, watches' = watches
  PROVE  Sound(v)' /\ watch'[v] \in Watch /\ watch'[v].ino = watch[v].ino
<1>1. v \in Ids /\ watch[v] \in Watch /\ port \in Seq(Packets)
  BY Made DEF PortTypeOK
<1>2. CASE watch'[v] = watch[v]
  <2>1. InMap(v)' => InMap(v)
    BY <1>2 DEF InMap
  <2>2. \A i \in 1 .. Len(port) : i > 0
    OBVIOUS
  <2>3. Reading(v)' <=> Reading(v)
    BY DEF Reading
  <2>4. QED
    BY <1>1, <1>2, <2>1, <2>2, <2>3, BystanderSound
<1>3. CASE watch[v].open = TRUE /\ watch'[v] = Noted(watch[v], ns)
  <2>1. Heard(watch[v], watch'[v], ns)
    BY <1>1, <1>3, NotedDoes
  <2>2. \A i \in 1 .. Len(port) : Ended(i, v) => port[i].n \in Nat
    <3>1. ASSUME NEW i \in 1 .. Len(port), Ended(i, v)
          PROVE  port[i].n \in Nat
      <4>1. port[i] \in Packets /\ port[i].st # "wake"
        BY <1>1, <3>1 DEF Ended
      <4>2. QED
        BY <4>1 DEF Packets
    <3>2. QED
      BY <3>1
  <2>3. rd.pc = "parse" => rd.i \in 1 .. rd.n /\ rd.n \in Nat
    BY DEF PortTypeOK
  <2>4. \A x \in N : ~ (x.for = v /\ x.st = "ok")
    OBVIOUS
  <2>5. Sound(v)'
    BY <1>1, <1>3, <2>1, <2>2, <2>3, <2>4, HeardSound
  <2>6. QED
    BY <2>1, <2>5 DEF Heard
<1>4. QED
  BY <1>2, <1>3 DEF Told

\* Changes that end no read.
LEMMA NoteKeeps ==
  ASSUME IInv, TreeTypeOK', NEW f, NEW ns \in Seq(Acts), Note(f, ns), port' = port, Change
  PROVE  IInv'
<1>1. TreeTypeOK /\ WatchTypeOK /\ PortTypeOK /\ port \in Seq(Packets)
  BY DEF IInv, TypeOK, PortTypeOK
<1>2. /\ watches' = watches /\ rd' = rd
      /\ left.changes > 0 /\ left' = [left EXCEPT !.changes = @ - 1]
  BY DEF Change
<1>3. watch' = [w \in Ids |-> IF w \in Watches /\ watch[w].open /\ watch[w].ino = f
                              THEN Noted(watch[w], ns) ELSE watch[w]]
  BY DEF Note
<1>4. ASSUME NEW v \in Watches
      PROVE  Told(v, ns)
  <2>1. v \in Ids /\ watch[v] \in Watch
    BY <1>1, Made
  <2>2. watch[v].open \in BOOLEAN
    BY <2>1 DEF Watch
  <2>3. QED
    BY <1>3, <2>1, <2>2 DEF Told
<1>5. Shift(0, {})
  BY <1>1, ShiftSame
<1>6. ASSUME NEW v \in Watches
      PROVE  Sound(v)' /\ watch'[v] \in Watch /\ watch'[v].ino = watch[v].ino
  <2>1. Sound(v)
    BY DEF IInv
  <2>2. QED
    BY <1>1, <1>2, <1>4, <1>5, <2>1, ToldSound
<1>7. ASSUME NEW v \in Ids, v \notin Watches
      PROVE  watch'[v] = None
  BY <1>3, <1>7 DEF Watches
<1>8. watch' \in [Ids -> Watch \cup {None}]
  BY <1>3, <1>6, <1>7
<1>9. WatchTypeOK' /\ Watches \subseteq Watches'
  <2>1. watches' \in [Folders -> Ids \cup {None}]
    BY <1>1, <1>2 DEF WatchTypeOK
  <2>2. QED
    BY <1>1, <1>2, <1>6, <1>8, <2>1, WatchTypeStep
<1>10. left' \in [calls : Nat, changes : Nat, faults : Nat]
  BY <1>1, <1>2 DEF PortTypeOK
<1>11. PortTypeOK'
  BY <1>1, <1>2, <1>9, <1>10 DEF PortTypeOK
<1>12. Watches' \subseteq Watches
  BY <1>7 DEF Watches
<1>13. QED
  BY <1>6, <1>9, <1>11, <1>12 DEF IInv, TypeOK

LEMMA CreateKeeps ==
  ASSUME IInv, NEW n \in Dirs \cup Files, NEW f \in Folders, NEW name \in Names,
         Create(n, f, name)
  PROVE  IInv'
<1>1. TreeTypeOK /\ Nested(place) /\ DOMAIN place = Dirs \cup Files
  BY DEF IInv, TypeOK, TreeTypeOK
<1>2. PICK p \in Place : p = [in |-> f, name |-> name]
  BY DEF Place
<1>3. /\ place[n] = New /\ Exists(f)
      /\ f # Root => place[f].in = Root
      /\ place' = [place EXCEPT ![n] = p] /\ used' = used \cup {name} /\ port' = port /\ Change
      /\ Note(f, <<Act("added", name)>>)
  BY <1>2 DEF Create, Named
<1>4. f # Root => f \in Dirs \cup Files /\ f # n /\ place[f] \notin {New, Gone}
  BY <1>3 DEF Exists, Folders
<1>5. place' \in [Dirs \cup Files -> Place \cup {New, Gone}] /\ used' \subseteq Names
  BY <1>1, <1>2, <1>3 DEF TreeTypeOK
<1>6. ASSUME NEW m \in Dirs \cup Files, place'[m] \notin {New, Gone}
      PROVE  \/ place'[m].in = Root
             \/ place'[place'[m].in] \notin {New, Gone} /\ place'[place'[m].in].in = Root
  <2>1. CASE m = n
    <3>1. place'[m].in = f
      BY <1>1, <1>2, <1>3, <2>1
    <3>2. f # Root => place'[f] = place[f]
      BY <1>1, <1>3, <1>4
    <3>3. QED
      BY <1>3, <1>4, <3>1, <3>2
  <2>2. CASE m # n
    <3>1. place'[m] = place[m]
      BY <1>1, <1>3, <2>2
    <3>2. \/ place[m].in = Root
          \/ place[place[m].in] \notin {New, Gone} /\ place[place[m].in].in = Root
      BY <1>1, <1>6, <3>1 DEF Nested
    <3>3. place[m] \in Place
      BY <1>1, <1>6, <3>1 DEF TreeTypeOK
    <3>4. CASE place[m].in = Root
      BY <3>1, <3>4
    <3>5. CASE place[m].in # Root
      <4>1. place[m].in \in Dirs \cup Files /\ place[m].in # n
        BY <1>3, <3>2, <3>3, <3>5 DEF Place, Folders
      <4>2. place'[place[m].in] = place[place[m].in]
        BY <1>1, <1>3, <4>1
      <4>3. QED
        BY <3>1, <3>2, <3>5, <4>2
    <3>6. QED
      BY <3>4, <3>5
  <2>3. QED
    BY <2>1, <2>2
<1>7. TreeTypeOK'
  BY <1>5, <1>6 DEF TreeTypeOK, Nested
<1>8. <<Act("added", name)>> \in Seq(Acts)
  BY DEF Act, Acts
<1>9. QED
  BY <1>3, <1>7, <1>8, NoteKeeps

LEMMA ModifyKeeps ==
  ASSUME IInv, NEW n \in Dirs \cup Files, Modify(n)
  PROVE  IInv'
<1>1. TreeTypeOK
  BY DEF IInv, TypeOK
<1>2. /\ Exists(n) /\ place' = place /\ used' = used /\ port' = port /\ Change
      /\ Note(place[n].in, <<Act("modified", place[n].name)>>)
  BY DEF Modify
<1>3. TreeTypeOK'
  BY <1>1, <1>2 DEF TreeTypeOK
<1>4. n # Root /\ n \in Inodes
  BY WatchesAssumption DEF Inodes
<1>5. place[n] \in Place
  BY <1>1, <1>2, <1>4, TreeFacts
<1>6. <<Act("modified", place[n].name)>> \in Seq(Acts)
  BY <1>5 DEF Act, Acts, Place
<1>7. QED
  BY <1>2, <1>3, <1>6, NoteKeeps

LEMMA RenameKeeps ==
  ASSUME IInv, NEW n \in Dirs \cup Files, NEW name \in Names, Rename(n, name)
  PROVE  IInv'
<1>1. TreeTypeOK /\ Nested(place) /\ DOMAIN place = Dirs \cup Files
  BY DEF IInv, TypeOK, TreeTypeOK
<1>2. /\ Exists(n) /\ place' = [place EXCEPT ![n].name = name] /\ used' = used \cup {name}
      /\ port' = port /\ Change
      /\ Note(place[n].in, <<Act("old", place[n].name), Act("new", name)>>)
  BY DEF Rename, Named
<1>3. n # Root /\ n \in Inodes
  BY WatchesAssumption DEF Inodes
<1>4. place[n] \in Place
  BY <1>1, <1>2, <1>3, TreeFacts
<1>5. PICK p : p = [place[n] EXCEPT !.name = name]
  OBVIOUS
<1>6. p \in Place /\ p.in = place[n].in /\ place' = [place EXCEPT ![n] = p]
  BY <1>2, <1>4, <1>5 DEF Place
<1>7. place' \in [Dirs \cup Files -> Place \cup {New, Gone}] /\ used' \subseteq Names
  BY <1>1, <1>2, <1>6 DEF TreeTypeOK
<1>8. ASSUME NEW m \in Dirs \cup Files
      PROVE  /\ place'[m] \in {New, Gone} <=> place[m] \in {New, Gone}
             /\ place'[m].in = place[m].in
  <2>1. CASE m = n
    BY <1>1, <1>4, <1>6, <2>1, WatchesAssumption
  <2>2. CASE m # n
    BY <1>1, <1>6, <2>2
  <2>3. QED
    BY <2>1, <2>2
<1>9. ASSUME NEW m \in Dirs \cup Files, place'[m] \notin {New, Gone}
      PROVE  \/ place'[m].in = Root
             \/ place'[place'[m].in] \notin {New, Gone} /\ place'[place'[m].in].in = Root
  <2>1. \/ place[m].in = Root
        \/ place[place[m].in] \notin {New, Gone} /\ place[place[m].in].in = Root
    BY <1>1, <1>8, <1>9 DEF Nested
  <2>2. place[m] \in Place
    BY <1>1, <1>8, <1>9 DEF TreeTypeOK
  <2>3. CASE place[m].in = Root
    BY <1>8, <2>3
  <2>4. CASE place[m].in # Root
    <3>1. place[m].in \in Dirs \cup Files
      BY <2>2, <2>4 DEF Place, Folders
    <3>2. QED
      BY <1>8, <2>1, <2>4, <3>1
  <2>5. QED
    BY <2>3, <2>4
<1>10. TreeTypeOK'
  BY <1>7, <1>9 DEF TreeTypeOK, Nested
<1>11. Act("old", place[n].name) \in Acts /\ Act("new", name) \in Acts
  BY <1>4 DEF Act, Acts, Place
<1>12. <<Act("old", place[n].name), Act("new", name)>> \in Seq(Acts)
  BY <1>11
<1>13. QED
  BY <1>2, <1>10, <1>12, NoteKeeps

LEMMA DeleteKeeps ==
  ASSUME IInv, NEW n \in Dirs \cup Files, Delete(n)
  PROVE  IInv'
<1>1. TreeTypeOK /\ WatchTypeOK /\ PortTypeOK /\ port \in Seq(Packets)
  BY DEF IInv, TypeOK, PortTypeOK
<1> DEFINE denied == {w \in Watches : watch[w].ino = n /\ watch[w].pending}
           packet(w) == [for |-> w, st |-> "denied", n |-> 0]
           all == {packet(w) : w \in denied}
           note == <<Act("removed", place[n].name)>>
<1>2. /\ Exists(n) /\ Change
      /\ ~ \E m \in Dirs \cup Files : Exists(m) /\ place[m].in = n
      /\ place' = [place EXCEPT ![n] = Gone] /\ used' = used
      /\ watch' = [w \in Ids |->
                     IF w \in denied THEN [watch[w] EXCEPT !.pending = FALSE]
                     ELSE IF w \in Watches /\ watch[w].open /\ watch[w].ino = place[n].in
                     THEN Noted(watch[w], note) ELSE watch[w]]
      /\ port' = port \o SetToSeq(all)
  BY DEF Delete
<1>3. /\ watches' = watches /\ rd' = rd
      /\ left.changes > 0 /\ left' = [left EXCEPT !.changes = @ - 1]
  BY <1>2 DEF Change
<1>4. TreeTypeOK'
  <2>1. place' \in [Dirs \cup Files -> Place \cup {New, Gone}] /\ used' \subseteq Names
    BY <1>1, <1>2 DEF TreeTypeOK
  <2>2. ASSUME NEW m \in Dirs \cup Files, place'[m] \notin {New, Gone}
        PROVE  \/ place'[m].in = Root
               \/ place'[place'[m].in] \notin {New, Gone} /\ place'[place'[m].in].in = Root
    <3>1. DOMAIN place = Dirs \cup Files /\ Nested(place)
      BY <1>1 DEF TreeTypeOK
    <3>2. m # n /\ place'[m] = place[m]
      BY <1>2, <2>2, <3>1
    <3>3. Exists(m)
      BY <2>2, <3>2 DEF Exists
    <3>4. place[m].in # n /\ place[m] \in Place
      BY <1>1, <1>2, <2>2, <3>2, <3>3 DEF TreeTypeOK
    <3>5. \/ place[m].in = Root
          \/ place[place[m].in] \notin {New, Gone} /\ place[place[m].in].in = Root
      BY <2>2, <3>1, <3>2 DEF Nested
    <3>6. CASE place[m].in = Root
      BY <3>2, <3>6
    <3>7. CASE place[m].in # Root
      <4>1. place[m].in \in Dirs \cup Files
        BY <3>4, <3>7 DEF Place, Folders
      <4>2. place'[place[m].in] = place[place[m].in]
        BY <1>2, <3>1, <3>4, <4>1
      <4>3. QED
        BY <3>2, <3>5, <3>7, <4>2
    <3>8. QED
      BY <3>6, <3>7
  <2>3. QED
    BY <2>1, <2>2 DEF TreeTypeOK, Nested
<1>5. denied \subseteq Watches /\ \A v \in denied : v \in Ids /\ watch[v] \in Watch
  BY <1>1, Made
<1>6. all \subseteq Packets /\ IsFiniteSet(all)
  <2>1. ASSUME NEW v \in denied
        PROVE  packet(v) \in Packets
    BY <1>5, PacketTypes
  <2>2. IsFiniteSet(Ids)
    <3>1. 1 \in Int /\ MaxWatches \in Int
      BY WatchesAssumption
    <3>2. IsFiniteSet(1 .. MaxWatches)
      BY <3>1, FS_Interval
    <3>3. QED
      BY <3>2 DEF Ids
  <2>3. IsFiniteSet(denied)
    BY <1>5, <2>2, FS_Subset
  <2>4. [v \in denied |-> packet(v)] \in Surjection(denied, all)
    BY DEF Surjection
  <2>5. IsFiniteSet(all)
    BY <2>3, <2>4, FS_Surjection
  <2>6. QED
    BY <2>1, <2>5
<1>7. PICK q : q = SetToSeq(all)
  OBVIOUS
<1>8. /\ q \in Seq(Packets) /\ \A i \in 1 .. Len(q) : q[i] \in all
      /\ \A x \in all : \E i \in 1 .. Len(q) : q[i] = x
  BY <1>6, <1>7, Listed
<1>9. port' = port \o q
  BY <1>2, <1>7
<1>10. port' \in Seq(Packets) /\ Shift(0, all)
  BY <1>1, <1>6, <1>8, <1>9, ConcatProperties, ShiftConcat
<1>11. note \in Seq(Acts)
  <2>1. place[n] \in Place
    BY <1>1, <1>2, TreeFacts, WatchesAssumption DEF Inodes
  <2>2. QED
    BY <2>1 DEF Act, Acts, Place
<1>12. ASSUME NEW v \in denied
       PROVE  Sound(v)' /\ watch'[v] \in Watch /\ watch'[v].ino = watch[v].ino
  <2>1. v \in Ids /\ v \in Watches /\ watch[v] \in Watch /\ Sound(v)
    BY <1>5 DEF IInv
  <2>2. PICK r : r = [watch[v] EXCEPT !.pending = FALSE]
    OBVIOUS
  <2>3. /\ r \in Watch /\ SameLog(watch[v], r) /\ r.pending = FALSE /\ r.open = watch[v].open
        /\ r.kernel = watch[v].kernel /\ r.full = watch[v].full /\ r.told = watch[v].told
    BY <2>1, <2>2 DEF Watch, SameLog
  <2>4. watch'[v] = r
    BY <1>2, <2>1, <2>2
  <2>5. Stays(watch[v], watch'[v]) /\ watch'[v].told = watch[v].told
    BY <2>1, <2>3, <2>4 DEF Stays
  <2>6. \A x \in all : ~ (x.for = v /\ x.st = "ok")
    OBVIOUS
  <2>7. \A i \in 1 .. Len(port) : Ended(i, v) => i > 0
    OBVIOUS
  <2>8. (Reading(v)' <=> Reading(v)) /\ (Reading(v)' => Reading(v) /\ rd'.n = rd.n)
    BY <1>3 DEF Reading
  <2>9. Shift(0, all) /\ port \in Seq(Packets) /\ 0 \in Nat
    BY <1>1, <1>10
  <2>10. BufferOK(v)'
    BY <2>1, <2>5, <2>6, <2>8, <2>9, BufferStays DEF Sound
  <2>11. Ordered(v)'
    BY <1>3, <2>1, <2>5, <2>6, <2>7, <2>8, <2>9, OrderedStays DEF Sound
  <2>12. Listens(v)'
    <3>1. PICK i \in 1 .. Len(q) : q[i] = packet(v)
      BY <1>8
    <3>2. PICK j : j = Len(port) + i
      OBVIOUS
    <3>3. /\ Len(port') = Len(port) + Len(q) /\ Len(port) \in Nat /\ Len(q) \in Nat
          /\ \A k \in 1 .. Len(port) + Len(q) :
               port'[k] = IF k <= Len(port) THEN port[k] ELSE q[k - Len(port)]
      BY <1>1, <1>8, <1>9, ConcatProperties
    <3>4. j \in 1 .. Len(port') /\ ~ (j <= Len(port)) /\ j - Len(port) = i
      BY <3>2, <3>3
    <3>5. port'[j] = q[i]
      BY <3>3, <3>4
    <3>6. Waits(j, v)'
      BY <3>1, <3>5 DEF Waits
    <3>7. QED
      BY <3>4, <3>6 DEF Listens
  <2>13. QED
    BY <2>3, <2>4, <2>10, <2>11, <2>12 DEF Sound, SameLog
<1>13. ASSUME NEW v \in Watches, v \notin denied
       PROVE  Sound(v)' /\ watch'[v] \in Watch /\ watch'[v].ino = watch[v].ino
  <2>1. v \in Ids /\ watch[v] \in Watch /\ Sound(v)
    BY <1>1, Made DEF IInv
  <2>2. watch[v].open \in BOOLEAN
    BY <2>1 DEF Watch
  <2>3. Told(v, note)
    BY <1>2, <1>13, <2>1, <2>2 DEF Told
  <2>4. \A x \in all : x.for # v
    BY <1>13
  <2>5. QED
    BY <1>1, <1>3, <1>10, <1>11, <2>1, <2>3, <2>4, ToldSound
<1>14. ASSUME NEW v \in Ids, v \notin Watches
       PROVE  watch'[v] = None
  BY <1>2, <1>14 DEF Watches
<1>15. watch' \in [Ids -> Watch \cup {None}]
  <2>1. watch' = [w \in Ids |-> watch'[w]]
    BY <1>2
  <2>2. QED
    BY <1>12, <1>13, <1>14, <2>1
<1>16. WatchTypeOK' /\ Watches \subseteq Watches'
  <2>1. watches' \in [Folders -> Ids \cup {None}]
    BY <1>1, <1>3 DEF WatchTypeOK
  <2>2. QED
    BY <1>1, <1>3, <1>12, <1>13, <1>15, <2>1, WatchTypeStep
<1>17. left' \in [calls : Nat, changes : Nat, faults : Nat]
  BY <1>1, <1>3 DEF PortTypeOK
<1>18. \A i \in DOMAIN port' : port'[i].st # "wake" => port'[i].for \in Watches'
  <2>1. \A x \in all : x.st # "wake" => x.for \in Watches'
    BY <1>5, <1>16
  <2>2. QED
    BY <1>1, <1>10, <1>16, <2>1, PacketsStep
<1>19. PortTypeOK'
  BY <1>1, <1>3, <1>10, <1>16, <1>17, <1>18 DEF PortTypeOK
<1>20. Watches' \subseteq Watches
  BY <1>14 DEF Watches
<1>21. QED
  BY <1>4, <1>12, <1>13, <1>16, <1>19, <1>20 DEF IInv, TypeOK

\* The read of watch w ends with packet x.
LEMMA ReadEnds ==
  ASSUME IInv, NEW w \in Watches, NEW r \in Watch, r.ino = watch[w].ino,
         watch' = [watch EXCEPT ![w] = r],
         NEW x \in Packets, x.for = w, x.st \in {"ok", "error"}, port' = Append(port, x),
         UNCHANGED <<place, used, watches, rd>>, left' \in [calls : Nat, changes : Nat, faults : Nat],
         BufferOK(w)', Ordered(w)'
  PROVE  IInv'
<1>1. TreeTypeOK /\ WatchTypeOK /\ PortTypeOK /\ port \in Seq(Packets)
  BY DEF IInv, TypeOK, PortTypeOK
<1>2. w \in Ids /\ watch[w] \in Watch /\ watch \in [Ids -> Watch \cup {None}]
  BY <1>1, Made DEF WatchTypeOK
<1>3. port' \in Seq(Packets) /\ Shift(0, {x})
  BY <1>1, AppendProperties, ShiftAppend
<1>4. Listens(w)'
  <2>1. Len(port') = Len(port) + 1 /\ Len(port) \in Nat /\ port'[Len(port) + 1] = x
    BY <1>1, AppendProperties
  <2>2. PICK j : j = Len(port) + 1
    OBVIOUS
  <2>3. j \in 1 .. Len(port') /\ Waits(j, w)'
    BY <2>1, <2>2 DEF Waits
  <2>4. QED
    BY <2>3 DEF Listens
<1>5. ASSUME NEW v \in Watches, v # w
      PROVE  Sound(v)' /\ watch'[v] \in Watch /\ watch'[v].ino = watch[v].ino
  <2>1. v \in Ids /\ watch[v] \in Watch /\ Sound(v)
    BY <1>1, Made DEF IInv
  <2>2. watch'[v] = watch[v]
    BY <1>2, <1>5, <2>1
  <2>3. \A y \in {x} : y.for # v
    BY <1>5
  <2>4. InMap(v)' => InMap(v)
    BY <2>2 DEF InMap
  <2>5. \A i \in 1 .. Len(port) : port[i].for = v => i > 0
    OBVIOUS
  <2>6. (Reading(v)' <=> Reading(v)) /\ (Reading(v) => rd' = rd) /\ (rd.pc = "closed" => rd'.pc = "closed")
    BY DEF Reading
  <2>7. 0 \in Nat
    OBVIOUS
  <2>8. Sound(v)'
    BY <1>1, <1>3, <2>1, <2>2, <2>3, <2>4, <2>5, <2>6, <2>7, BystanderSound
  <2>9. QED
    BY <2>1, <2>2, <2>8
<1>6. watch'[w] = r
  BY <1>2
<1>7. Sound(w)'
  BY <1>4 DEF Sound
<1>8. watch' \in [Ids -> Watch \cup {None}] /\ watches' \in [Folders -> Ids \cup {None}]
  BY <1>1, <1>2 DEF WatchTypeOK
<1>9. WatchTypeOK' /\ Watches \subseteq Watches'
  <2>1. \A v \in Watches : watch'[v] \in Watch /\ watch'[v].ino = watch[v].ino
    BY <1>5, <1>6
  <2>2. \A f \in Folders : watches'[f] = watches[f] \/ watches'[f] = None
    OBVIOUS
  <2>3. QED
    BY <1>1, <1>8, <2>1, <2>2, WatchTypeStep
<1>10. Watches' \subseteq Watches
  BY <1>2 DEF Watches
<1>11. \A y \in {x} : y.st # "wake" => y.for \in Watches'
  BY <1>9
<1>12. \A i \in DOMAIN port' : port'[i].st # "wake" => port'[i].for \in Watches'
  BY <1>1, <1>3, <1>9, <1>11, PacketsStep
<1>13. PortTypeOK'
  BY <1>1, <1>3, <1>9, <1>12 DEF PortTypeOK
<1>14. TreeTypeOK'
  BY <1>1 DEF TreeTypeOK
<1>15. QED
  BY <1>5, <1>7, <1>9, <1>10, <1>13, <1>14 DEF IInv, TypeOK

LEMMA FaultKeeps ==
  ASSUME IInv, NEW w \in Watches, Fault(w)
  PROVE  IInv'
<1>1. TreeTypeOK /\ WatchTypeOK /\ PortTypeOK /\ port \in Seq(Packets)
  BY DEF IInv, TypeOK, PortTypeOK
<1>2. w \in Ids /\ watch[w] \in Watch /\ Sound(w) /\ watch \in [Ids -> Watch \cup {None}]
  BY <1>1, Made DEF IInv, WatchTypeOK
<1>3. PICK r : r = [watch[w] EXCEPT !.pending = FALSE]
  OBVIOUS
<1>4. /\ r \in Watch /\ SameLog(watch[w], r) /\ r.pending = FALSE /\ r.open = watch[w].open
      /\ r.kernel = watch[w].kernel /\ r.full = watch[w].full /\ r.told = watch[w].told
  BY <1>2, <1>3 DEF Watch, SameLog
<1>5. PICK x : x = [for |-> w, st |-> "error", n |-> 0]
  OBVIOUS
<1>6. x \in Packets /\ x.for = w /\ x.st = "error"
  BY <1>2, <1>5, PacketTypes
<1>7. /\ watch' = [watch EXCEPT ![w] = r] /\ port' = Append(port, x)
      /\ UNCHANGED <<place, used, watches, rd>>
      /\ left.faults > 0 /\ left' = [left EXCEPT !.faults = @ - 1]
  BY <1>2, <1>3, <1>5 DEF Fault
<1>8. left' \in [calls : Nat, changes : Nat, faults : Nat]
  <2>1. left \in [calls : Nat, changes : Nat, faults : Nat]
    BY <1>1 DEF PortTypeOK
  <2>2. left.faults - 1 \in Nat
    BY <1>7, <2>1
  <2>3. QED
    BY <1>7, <2>1, <2>2
<1>9. Stays(watch[w], watch'[w]) /\ watch'[w].told = watch[w].told
  BY <1>2, <1>4, <1>7 DEF Stays
<1>10. Shift(0, {x}) /\ 0 \in Nat
  BY <1>1, <1>7, ShiftAppend
<1>11. \A y \in {x} : ~ (y.for = w /\ y.st = "ok")
  BY <1>6
<1>12. /\ Reading(w)' <=> Reading(w)
       /\ Reading(w) => rd' = rd
       /\ Reading(w)' => Reading(w) /\ rd'.n = rd.n
       /\ rd.pc = "closed" => rd'.pc = "closed"
  BY <1>7 DEF Reading
<1>13. BufferOK(w)'
  BY <1>1, <1>2, <1>9, <1>10, <1>11, <1>12, BufferStays DEF Sound
<1>14. \A i \in 1 .. Len(port) : Ended(i, w) => i > 0
  OBVIOUS
<1>15. Ordered(w)'
  BY <1>1, <1>2, <1>9, <1>10, <1>11, <1>12, <1>14, OrderedStays DEF Sound
<1>16. r.ino = watch[w].ino
  BY <1>4 DEF SameLog
<1>17. QED
  BY <1>4, <1>6, <1>7, <1>8, <1>13, <1>15, <1>16, ReadEnds

LEMMA OverflowKeeps ==
  ASSUME IInv, NEW w \in Watches, Overflow(w)
  PROVE  IInv'
<1>1. TreeTypeOK /\ WatchTypeOK /\ PortTypeOK /\ port \in Seq(Packets)
  BY DEF IInv, TypeOK, PortTypeOK
<1>2. w \in Ids /\ watch[w] \in Watch /\ Sound(w) /\ watch \in [Ids -> Watch \cup {None}]
  BY <1>1, Made DEF IInv, WatchTypeOK
<1>3. PICK q : q = [watch[w] EXCEPT !.pending = FALSE]
  OBVIOUS
<1>4. /\ q \in Watch /\ SameLog(watch[w], q) /\ q.pending = FALSE /\ q.open = watch[w].open
      /\ q.kernel = watch[w].kernel /\ q.full = watch[w].full
  BY <1>2, <1>3 DEF Watch, SameLog
<1>5. PICK r : r = [q EXCEPT !.full = FALSE]
  OBVIOUS
<1>6. /\ r \in Watch /\ SameLog(q, r) /\ r.pending = FALSE /\ r.full = FALSE
      /\ r.kernel = q.kernel
  BY <1>4, <1>5 DEF Watch, SameLog
<1>7. PICK x : x = [for |-> w, st |-> "ok", n |-> 0]
  OBVIOUS
<1>8. x \in Packets /\ x.for = w /\ x.st = "ok" /\ x.n = 0
  BY <1>2, <1>7, PacketTypes
<1>9. watch[w].full \in BOOLEAN
  BY <1>2 DEF Watch
<1>10. /\ watch' = [watch EXCEPT ![w] = r] /\ port' = Append(port, x)
       /\ UNCHANGED <<place, used, watches, rd, left>> /\ watch[w].full = TRUE
  BY <1>2, <1>3, <1>5, <1>7, <1>9 DEF Overflow
<1>11. left' \in [calls : Nat, changes : Nat, faults : Nat]
  BY <1>1, <1>10 DEF PortTypeOK
<1>12. watch'[w] = r
  BY <1>2, <1>10
<1>13. r.overflowed = TRUE /\ r.buf = watch[w].buf /\ Stored(r)
  <2>1. Stored(watch[w])
    BY <1>2 DEF Sound, BufferOK
  <2>2. r.overflowed = TRUE /\ r.buf = watch[w].buf
    BY <1>4, <1>6, <1>10, <2>1 DEF SameLog, Stored
  <2>3. QED
    BY <1>4, <1>6, <2>1, <2>2 DEF SameLog, Stored
<1>14. Ordered(w)'
  BY <1>12, <1>13 DEF Ordered
<1>15. BufferOK(w)'
  <2>1. Shift(0, {x})
    BY <1>1, <1>10, ShiftAppend
  <2>2. r.buf \in Seq(Entries)
    BY <1>6 DEF Watch
  <2>3. ASSUME NEW i \in 1 .. Len(port'), Ended(i, w)'
        PROVE  port'[i].n <= Len(r.buf) /\ (port'[i].n = 0 => r.overflowed = TRUE)
    <3>1. CASE port'[i] = x
      BY <1>8, <1>13, <2>2, <3>1
    <3>2. CASE i \in 1 .. Len(port) /\ port[i] = port'[i]
      <4>1. Ended(i, w)
        BY <2>3, <3>2 DEF Ended
      <4>2. QED
        BY <1>2, <1>13, <3>2, <4>1 DEF Sound, BufferOK
    <3>3. i + 0 = i
      OBVIOUS
    <3>4. QED
      BY <2>1, <3>1, <3>2, <3>3 DEF Shift
  <2>4. Reading(w)' => rd'.n <= Len(r.buf)
    BY <1>2, <1>10, <1>13 DEF Sound, BufferOK, Reading
  <2>5. QED
    BY <1>12, <1>13, <2>3, <2>4 DEF BufferOK
<1>16. r.ino = watch[w].ino
  BY <1>4, <1>6 DEF SameLog
<1>17. QED
  BY <1>6, <1>8, <1>10, <1>11, <1>14, <1>15, <1>16, ReadEnds

\* The buffer after k entries are written to it.
Written(kernel, buf, k) ==
  [i \in 1 .. k |-> [id |-> kernel[i], last |-> i = k]] \o SubSeq(buf, k + 1, Len(buf))

\* What a completed read of k entries makes of watch w: q.
Completed(w, q, k) ==
  /\ q.ino = watch[w].ino /\ q.seen = watch[w].seen /\ q.told = watch[w].told
  /\ q.overflowed = watch[w].overflowed /\ q.open = watch[w].open /\ q.full = watch[w].full
  /\ q.pending = FALSE
  /\ q.overwritten = FALSE => watch[w].overwritten = FALSE /\ ~Unread(w)
  /\ q.kernel = SubSeq(watch[w].kernel, k + 1, Len(watch[w].kernel))
  /\ q.buf = Written(watch[w].kernel, watch[w].buf, k)

LEMMA RestOf ==
  ASSUME NEW T, NEW s \in Seq(T), NEW k \in 1 .. Len(s), NEW l, l = SubSeq(s, k + 1, Len(s))
  PROVE  l \in Seq(T) /\ Len(l) = Len(s) - k /\ \A j \in 1 .. Len(s) - k : l[j] = s[k + j]
<1>1. PICK n \in Nat : n = Len(s)
  OBVIOUS
<1>2. k \in Nat /\ k + 1 \in Int /\ k + 1 \in 1 .. n + 1 /\ n \in Int
  BY <1>1
<1>3. /\ l \in Seq(T) /\ Len(l) = IF k + 1 <= n THEN n - (k + 1) + 1 ELSE 0
      /\ \A j \in 1 .. n - (k + 1) + 1 : l[j] = s[k + 1 + j - 1]
  BY <1>1, <1>2, SubSeqProperties
<1>4. n - (k + 1) + 1 = n - k /\ \A j \in 1 .. n - k : k + 1 + j - 1 = k + j
  BY <1>2
<1>5. Len(l) = n - k
  BY <1>1, <1>2, <1>3, <1>4
<1>6. QED
  BY <1>1, <1>3, <1>4, <1>5

IsWritten(kernel, buf, k, b) ==
  /\ b \in Seq(Entries) /\ k <= Len(b) /\ Len(buf) <= Len(b)
  /\ \A i \in 1 .. k : b[i].id = kernel[i] /\ (b[i].last = TRUE <=> i = k)
  /\ \A i \in 1 .. Len(b) : i > k => i \in 1 .. Len(buf) /\ b[i] = buf[i]

\* The entries of a completed read are at the start of the buffer, and what was
\* behind them is still there.
LEMMA BufferIsWritten ==
  ASSUME NEW kernel \in Seq(Nat), NEW buf \in Seq(Entries), NEW k \in 1 .. Len(kernel),
         NEW b, b = Written(kernel, buf, k)
  PROVE  IsWritten(kernel, buf, k, b)
<1>1. PICK head : head = [i \in 1 .. k |-> [id |-> kernel[i], last |-> i = k]]
  OBVIOUS
<1>2. k \in Nat /\ Len(kernel) \in Nat /\ Len(buf) \in Nat
  OBVIOUS
<1>3. ASSUME NEW i \in 1 .. k
      PROVE  [id |-> kernel[i], last |-> i = k] \in Entries
  <2>1. kernel[i] \in Nat
    BY <1>2
  <2>2. QED
    BY <2>1 DEF Entries
<1>4. head \in Seq(Entries) /\ Len(head) = k
  BY <1>1, <1>2, <1>3
<1>5. ASSUME NEW i \in 1 .. k
      PROVE  head[i].id = kernel[i] /\ (head[i].last = TRUE <=> i = k)
  BY <1>1
<1>6. PICK tail : tail = SubSeq(buf, k + 1, Len(buf))
  OBVIOUS
<1>7. /\ tail \in Seq(Entries)
      /\ Len(tail) = IF k + 1 <= Len(buf) THEN Len(buf) - k ELSE 0
      /\ \A i \in 1 .. Len(tail) : tail[i] = buf[i + k]
  <2>1. /\ tail \in Seq(Entries)
        /\ Len(tail) = IF k + 1 <= Len(buf) THEN Len(buf) - (k + 1) + 1 ELSE 0
        /\ \A i \in 1 .. Len(buf) - (k + 1) + 1 : tail[i] = buf[k + 1 + i - 1]
    BY <1>2, <1>6, SubSeqProperties
  <2>2. CASE k + 1 <= Len(buf)
    <3>1. Len(tail) = Len(buf) - k /\ Len(buf) - (k + 1) + 1 = Len(buf) - k
      BY <1>2, <2>1, <2>2
    <3>2. \A i \in 1 .. Len(buf) - k : k + 1 + i - 1 = i + k
      BY <1>2
    <3>3. QED
      BY <2>1, <2>2, <3>1, <3>2
  <2>3. CASE ~ (k + 1 <= Len(buf))
    BY <2>1, <2>3
  <2>4. QED
    BY <2>2, <2>3
<1>8. /\ b \in Seq(Entries) /\ Len(b) = k + Len(tail)
      /\ \A i \in 1 .. k + Len(tail) : b[i] = IF i <= k THEN head[i] ELSE tail[i - k]
  <2>1. b = head \o tail
    BY <1>1, <1>6 DEF Written
  <2>2. head \in Seq(Entries) /\ tail \in Seq(Entries)
    BY <1>4, <1>7
  <2>3. /\ b \in Seq(Entries) /\ Len(b) = Len(head) + Len(tail)
        /\ \A i \in 1 .. Len(head) + Len(tail) :
             b[i] = IF i <= Len(head) THEN head[i] ELSE tail[i - Len(head)]
    BY <2>1, <2>2, ConcatProperties
  <2>4. QED
    BY <1>4, <2>3
<1>9. ASSUME NEW i \in 1 .. Len(b), i > k
      PROVE  i \in 1 .. Len(buf) /\ b[i] = buf[i]
  <2>1. PICK j : j = i - k
    OBVIOUS
  <2>2. j \in 1 .. Len(tail) /\ j + k = i
    <3>1. Len(tail) \in Nat
      BY <1>7
    <3>2. i \in 1 .. k + Len(tail)
      BY <1>8
    <3>3. QED
      BY <1>2, <1>9, <2>1, <3>1, <3>2
  <2>3. b[i] = tail[j]
    <3>1. i \in 1 .. k + Len(tail) /\ ~ (i <= k)
      BY <1>2, <1>8, <1>9
    <3>2. QED
      BY <1>8, <2>1, <3>1
  <2>4. tail[j] = buf[i]
    BY <1>7, <2>2
  <2>5. i \in 1 .. Len(buf)
    BY <1>2, <1>7, <1>9, <2>2
  <2>6. QED
    BY <2>3, <2>4, <2>5
<1>10. ASSUME NEW i \in 1 .. k
       PROVE  b[i] = head[i]
  <2>1. Len(tail) \in Nat /\ i \in Nat
    BY <1>7
  <2>2. i \in 1 .. k + Len(tail) /\ i <= k
    BY <1>2, <2>1
  <2>3. QED
    BY <1>8, <2>2
<1>11. k <= Len(b) /\ Len(buf) <= Len(b)
  BY <1>2, <1>7, <1>8
<1>12. QED
  BY <1>5, <1>8, <1>9, <1>10, <1>11 DEF IsWritten

LEMMA CompletedDoes ==
  ASSUME IInv, NEW w \in Watches, Complete(w)
  PROVE  \E k \in 1 .. Len(watch[w].kernel), q \in Watch :
           /\ Completed(w, q, k) /\ watch' = [watch EXCEPT ![w] = q]
           /\ port' = Append(port, [for |-> w, st |-> "ok", n |-> k])
<1>1. WatchTypeOK
  BY DEF IInv, TypeOK
<1>2. w \in Ids /\ watch[w] \in Watch /\ watch \in [Ids -> Watch \cup {None}]
  BY <1>1, Made DEF WatchTypeOK
<1>3. PICK r \in Watch : r = watch[w]
  BY <1>2
<1>4. r.kernel \in Seq(Nat) /\ r.buf \in Seq(Entries) /\ r.overwritten \in BOOLEAN
  BY DEF Watch
<1>5. PICK k \in 1 .. Len(r.kernel) :
        /\ watch' = [watch EXCEPT
             ![w].pending = FALSE, ![w].kernel = SubSeq(@, k + 1, Len(@)),
             ![w].buf = [i \in 1 .. k |-> [id |-> r.kernel[i], last |-> i = k]]
                        \o SubSeq(@, k + 1, Len(@)),
             ![w].overwritten = @ \/ Unread(w)]
        /\ port' = Append(port, [for |-> w, st |-> "ok", n |-> k])
  BY <1>3 DEF Complete
<1>6. PICK b : b = Written(r.kernel, r.buf, k)
  OBVIOUS
<1>7. b \in Seq(Entries)
  BY <1>4, <1>6, BufferIsWritten DEF IsWritten
<1>8. PICK l : l = SubSeq(r.kernel, k + 1, Len(r.kernel))
  OBVIOUS
<1>9. l \in Seq(Nat)
  BY <1>4, <1>8, RestOf
<1>10. PICK o \in BOOLEAN : o = (r.overwritten \/ Unread(w))
  OBVIOUS
<1>11. PICK a : a = [r EXCEPT !.pending = FALSE]
  OBVIOUS
<1>12. PICK c : c = [a EXCEPT !.kernel = l]
  OBVIOUS
<1>13. PICK d : d = [c EXCEPT !.buf = b]
  OBVIOUS
<1>14. PICK q : q = [d EXCEPT !.overwritten = o]
  OBVIOUS
<1>15. /\ a \in Watch /\ a.ino = r.ino /\ a.seen = r.seen /\ a.told = r.told
       /\ a.overflowed = r.overflowed /\ a.open = r.open /\ a.full = r.full /\ a.pending = FALSE
  BY <1>11 DEF Watch
<1>16. /\ c \in Watch /\ c.ino = r.ino /\ c.seen = r.seen /\ c.told = r.told
       /\ c.overflowed = r.overflowed /\ c.open = r.open /\ c.full = r.full /\ c.pending = FALSE
       /\ c.kernel = l
  BY <1>9, <1>12, <1>15 DEF Watch
<1>17. /\ d \in Watch /\ d.ino = r.ino /\ d.seen = r.seen /\ d.told = r.told
       /\ d.overflowed = r.overflowed /\ d.open = r.open /\ d.full = r.full /\ d.pending = FALSE
       /\ d.kernel = l /\ d.buf = b
  BY <1>7, <1>13, <1>16 DEF Watch
<1>18. /\ q \in Watch /\ q.ino = r.ino /\ q.seen = r.seen /\ q.told = r.told
       /\ q.overflowed = r.overflowed /\ q.open = r.open /\ q.full = r.full /\ q.pending = FALSE
       /\ q.kernel = l /\ q.buf = b /\ q.overwritten = o
  BY <1>14, <1>17 DEF Watch
<1>19. o = FALSE => r.overwritten = FALSE /\ ~Unread(w)
  BY <1>4, <1>10
<1>20. Completed(w, q, k)
  BY <1>3, <1>6, <1>8, <1>18, <1>19 DEF Completed
<1>21. watch' = [watch EXCEPT ![w] = q]
  <2>1. watch' = [watch EXCEPT ![w] = [r EXCEPT !.pending = FALSE, !.kernel = l, !.buf = b,
                                                !.overwritten = o]]
    BY <1>2, <1>3, <1>5, <1>6, <1>8, <1>10 DEF Written
  <2>2. q = [r EXCEPT !.pending = FALSE, !.kernel = l, !.buf = b, !.overwritten = o]
    BY <1>11, <1>12, <1>13, <1>14
  <2>3. QED
    BY <2>1, <2>2
<1>22. QED
  BY <1>3, <1>5, <1>18, <1>20, <1>21

LEMMA CompleteKeeps ==
  ASSUME IInv, NEW w \in Watches, Complete(w)
  PROVE  IInv'
<1>1. TreeTypeOK /\ WatchTypeOK /\ PortTypeOK /\ port \in Seq(Packets)
  BY DEF IInv, TypeOK, PortTypeOK
<1>2. w \in Ids /\ watch[w] \in Watch /\ Sound(w) /\ watch \in [Ids -> Watch \cup {None}]
  BY <1>1, Made DEF IInv, WatchTypeOK
<1>3. PICK k \in 1 .. Len(watch[w].kernel), q \in Watch :
        /\ Completed(w, q, k) /\ watch' = [watch EXCEPT ![w] = q]
        /\ port' = Append(port, [for |-> w, st |-> "ok", n |-> k])
  BY CompletedDoes
<1>4. PICK r \in Watch : r = watch[w]
  BY <1>2
<1>5. /\ r.kernel \in Seq(Nat) /\ r.buf \in Seq(Entries)
      /\ r.told \in Seq(Nat) /\ r.seen \in Seq(Acts)
  BY DEF Watch
<1>6. PICK m \in Nat, t \in Nat, n \in Nat :
        m = Len(r.kernel) /\ t = Len(r.told) /\ n = Len(r.seen)
  BY <1>5
<1>7. k \in 1 .. m /\ k \in Nat
  BY <1>4, <1>6
<1>8. /\ q.kernel = SubSeq(r.kernel, k + 1, m)
      /\ q.buf = Written(r.kernel, r.buf, k)
      /\ q.seen = r.seen /\ q.told = r.told /\ q.overflowed = r.overflowed
      /\ q.open = r.open /\ q.full = r.full /\ q.pending = FALSE /\ q.ino = r.ino
  BY <1>3, <1>4, <1>6 DEF Completed
<1>9. Len(q.kernel) = m - k /\ \A j \in 1 .. m - k : q.kernel[j] = r.kernel[k + j]
  <2>1. PICK kernel \in Seq(Nat) : kernel = r.kernel
    BY <1>5
  <2>2. PICK l : l = SubSeq(kernel, k + 1, Len(kernel))
    OBVIOUS
  <2>3. k \in 1 .. Len(kernel) /\ q.kernel = l /\ Len(kernel) = m
    BY <1>6, <1>7, <1>8, <2>1, <2>2
  <2>4. Len(l) = Len(kernel) - k /\ \A j \in 1 .. Len(kernel) - k : l[j] = kernel[k + j]
    BY <2>2, <2>3, RestOf
  <2>5. Len(l) = m - k /\ \A j \in 1 .. m - k : l[j] = r.kernel[k + j]
    BY <2>1, <2>3, <2>4
  <2>6. QED
    BY <2>3, <2>5
<1>10. /\ q.buf \in Seq(Entries) /\ k <= Len(q.buf) /\ Len(r.buf) <= Len(q.buf)
       /\ \A i \in 1 .. k : q.buf[i].id = r.kernel[i] /\ (q.buf[i].last = TRUE <=> i = k)
       /\ \A i \in 1 .. Len(q.buf) : i > k => i \in 1 .. Len(r.buf) /\ q.buf[i] = r.buf[i]
  <2>1. PICK kernel \in Seq(Nat), buf \in Seq(Entries) : kernel = r.kernel /\ buf = r.buf
    BY <1>5
  <2> DEFINE b == q.buf
  <2>2. k \in 1 .. Len(kernel) /\ b = Written(kernel, buf, k)
    BY <1>6, <1>7, <1>8, <2>1
  <2>3. IsWritten(kernel, buf, k, b)
    BY <2>2, BufferIsWritten
  <2>4. QED
    BY <2>1, <2>3 DEF IsWritten
<1>11. PICK x : x = [for |-> w, st |-> "ok", n |-> k]
  OBVIOUS
<1>12. x \in Packets /\ x.for = w /\ x.st = "ok" /\ x.n = k
  BY <1>2, <1>7, <1>11, PacketTypes
<1>13. port' = Append(port, x) /\ UNCHANGED <<place, used, watches, rd, left>> /\ watch'[w] = q
  BY <1>2, <1>3, <1>11 DEF Complete
<1>14. left' \in [calls : Nat, changes : Nat, faults : Nat]
  BY <1>1, <1>13 DEF PortTypeOK
<1>15. /\ Len(port') = Len(port) + 1 /\ Len(port) \in Nat /\ port'[Len(port) + 1] = x
       /\ \A i \in 1 .. Len(port) : port'[i] = port[i]
  BY <1>1, <1>13, AppendProperties
<1>16. ASSUME NEW i \in 1 .. Len(port'), Ended(i, w)'
       PROVE  \/ i = Len(port) + 1 /\ port'[i] = x
              \/ i \in 1 .. Len(port) /\ port[i] = port'[i] /\ Ended(i, w)
  <2>1. CASE i = Len(port) + 1
    BY <1>15, <2>1
  <2>2. CASE i # Len(port) + 1
    <3>1. i \in 1 .. Len(port)
      BY <1>15, <2>2
    <3>2. QED
      BY <1>15, <1>16, <3>1 DEF Ended
  <2>3. QED
    BY <2>1, <2>2
<1>17. BufferOK(w)'
  <2>1. /\ \A j \in 1 .. m : r.kernel[j] \in 1 .. n
        /\ \A l \in 1 .. Len(r.buf) : r.buf[l].id \in 1 .. n
        /\ r.full = TRUE => r.overflowed = TRUE
        /\ \A i \in 1 .. Len(port) : Ended(i, w) =>
             port[i].n <= Len(r.buf) /\ (port[i].n = 0 => r.overflowed = TRUE)
        /\ Reading(w) => rd.n <= Len(r.buf)
    BY <1>2, <1>4, <1>6 DEF Sound, BufferOK, Stored
  <2>2. ASSUME NEW j \in 1 .. m - k
        PROVE  q.kernel[j] \in 1 .. n
    <3>1. k + j \in 1 .. m
      BY <1>6, <1>7
    <3>2. QED
      BY <1>9, <2>1, <3>1
  <2>3. ASSUME NEW l \in 1 .. Len(q.buf)
        PROVE  q.buf[l].id \in 1 .. n
    <3>1. CASE l > k
      BY <1>10, <2>1, <3>1
    <3>2. CASE ~ (l > k)
      <4>1. l \in 1 .. k /\ l \in 1 .. m
        BY <1>6, <1>7, <3>2
      <4>2. QED
        BY <1>10, <2>1, <4>1
    <3>3. QED
      BY <3>1, <3>2
  <2>4. Stored(q)
    BY <1>6, <1>8, <1>9, <2>1, <2>2, <2>3 DEF Stored
  <2>5. Len(r.buf) \in Nat /\ Len(q.buf) \in Nat
    BY <1>5, <1>10
  <2>6. ASSUME NEW i \in 1 .. Len(port'), Ended(i, w)'
        PROVE  port'[i].n <= Len(q.buf) /\ (port'[i].n = 0 => q.overflowed = TRUE)
    <3>1. CASE port'[i] = x
      BY <1>7, <1>10, <1>12, <3>1
    <3>2. CASE i \in 1 .. Len(port) /\ port[i] = port'[i] /\ Ended(i, w)
      <4>1. port[i] \in Packets /\ port[i].st # "wake"
        BY <1>1, <3>2 DEF Ended
      <4>2. port[i].n \in Nat
        BY <4>1 DEF Packets
      <4>3. QED
        BY <1>8, <1>10, <2>1, <2>5, <3>2, <4>2
    <3>3. QED
      BY <1>16, <2>6, <3>1, <3>2
  <2>7. Reading(w)' => rd'.n <= Len(q.buf)
    <3>1. Reading(w)' => Reading(w) /\ rd'.n = rd.n /\ rd.n \in Nat
      BY <1>1, <1>13 DEF Reading, PortTypeOK
    <3>2. QED
      BY <1>10, <2>1, <2>5, <3>1
  <2>8. QED
    BY <1>13, <2>4, <2>6, <2>7 DEF BufferOK
<1>18. Ordered(w)'
  <2>1. SUFFICES ASSUME q.overflowed = FALSE, q.overwritten = FALSE
        PROVE  /\ \A i \in 1 .. Len(q.told) : q.told[i] = i
               /\ rd.pc # "closed" => Chain(w)'
    BY <1>13 DEF Ordered
  <2>2. r.overflowed = FALSE /\ r.overwritten = FALSE /\ ~Unread(w)
    BY <1>3, <1>4, <1>8, <2>1 DEF Completed
  <2>3. (\A i \in 1 .. Len(r.told) : r.told[i] = i) /\ (rd.pc # "closed" => Chain(w))
    BY <1>2, <1>4, <2>2 DEF Sound, Ordered
  <2>4. ~Reading(w) /\ ~Reading(w)' /\ \A i \in 1 .. Len(port) : ~Ended(i, w)
    <3>1. DOMAIN port = 1 .. Len(port)
      BY <1>1
    <3>2. QED
      BY <1>13, <2>2, <3>1 DEF Unread, Reading, Ended
  <2>5. ASSUME Chain(w)
        PROVE  Chain(w)'
    <3>1. After(r, 0)
      BY <1>4, <2>4, <2>5 DEF Chain
    <3>2. /\ \A j \in 1 .. m : r.kernel[j] = t + 0 + j
          /\ r.open = TRUE => n = t + 0 + m
      BY <1>6, <3>1 DEF After
    <3>3. Coming(q, 1, k)
      <4>1. ASSUME NEW l \in 1 .. k
            PROVE  q.buf[l].id = t + l + 1 - 1 /\ (q.buf[l].last = TRUE <=> l = k)
        <5>1. l \in 1 .. m /\ t + 0 + l = t + l + 1 - 1
          BY <1>6, <1>7
        <5>2. QED
          BY <1>10, <3>2, <5>1
      <4>2. QED
        BY <1>6, <1>8, <4>1 DEF Coming
    <3>4. After(q, k)
      <4>1. ASSUME NEW j \in 1 .. m - k
            PROVE  q.kernel[j] = t + k + j
        <5>1. k \in Nat /\ j \in Nat /\ k + j \in 1 .. m
          BY <1>6, <1>7
        <5>2. t + 0 + (k + j) = t + k + j
          BY <5>1
        <5>3. QED
          BY <1>9, <3>2, <5>1, <5>2
      <4>2. q.open = TRUE => n = t + k + (m - k)
        <5>1. k \in Nat
          BY <1>7
        <5>2. t + k + (m - k) = t + 0 + m
          BY <5>1
        <5>3. QED
          BY <1>8, <3>2, <5>2
      <4>3. QED
        BY <1>6, <1>8, <1>9, <4>1, <4>2 DEF After
    <3>5. ASSUME NEW i \in 1 .. Len(port'), Ended(i, w)'
          PROVE  i = Len(port) + 1 /\ port'[i].n = k
      BY <1>12, <1>16, <2>4, <3>5
    <3>6. ASSUME \A i \in 1 .. Len(port') : ~Ended(i, w)'
          PROVE  FALSE
      <4>1. PICK j : j = Len(port) + 1
        OBVIOUS
      <4>2. j \in 1 .. Len(port') /\ port'[j] = x
        BY <1>15, <4>1
      <4>3. Ended(j, w)'
        BY <1>12, <4>2 DEF Ended
      <4>4. QED
        BY <3>6, <4>2, <4>3
    <3>7. QED
      BY <1>13, <2>4, <3>3, <3>4, <3>5, <3>6 DEF Chain
  <2>6. QED
    BY <1>8, <2>3, <2>5
<1>19. q.ino = watch[w].ino
  BY <1>4, <1>8
<1>20. QED
  BY <1>3, <1>12, <1>13, <1>14, <1>17, <1>18, <1>19, ReadEnds
-----------------------------------------------------------------------------
(* The reader. *)

\* A step of the reader on the watches in W; d packets leave the port.
LEMMA ReaderStep ==
  ASSUME IInv, WatchTypeOK', Watches \subseteq Watches', NEW W \in SUBSET Watches',
         \A v \in W : Sound(v)',
         \A v \in Watches' : v \notin W =>
           v \in Watches /\ Alike(watch[v], watch'[v]) /\ (InMap(v)' => InMap(v)),
         port' \in Seq(Packets), NEW d \in Nat, NEW N, Shift(d, N),
         \A x \in N : x.st = "aborted" /\ x.for \in Watches',
         \A i \in 1 .. Len(port) : i > d \/ port[i].for \in W \/ port[i].st \notin {"ok", "denied", "error"},
         rd.pc # "closed", \A v \in Ids : v \notin W => (Reading(v)' <=> Reading(v)) /\ (Reading(v) => rd' = rd),
         rd' \in [pc : {"get", "closed"}] \cup [pc : {"parse"}, w : Ids, i : Nat, n : Nat],
         rd'.pc = "parse" => rd'.w \in Watches' /\ rd'.i \in 1 .. rd'.n,
         left' \in [calls : Nat, changes : Nat, faults : Nat], UNCHANGED <<place, used>>
  PROVE  IInv'
<1>1. TreeTypeOK /\ WatchTypeOK /\ PortTypeOK /\ port \in Seq(Packets)
  BY DEF IInv, TypeOK, PortTypeOK
<1>2. ASSUME NEW v \in Watches', v \notin W
      PROVE  Sound(v)'
  <2>1. /\ v \in Watches /\ Alike(watch[v], watch'[v]) /\ (InMap(v)' => InMap(v))
        /\ v \in Ids /\ watch[v] \in Watch /\ Sound(v)
    BY <1>1, <1>2, Made DEF IInv
  <2>2. \A x \in N : ~ (x.for = v /\ x.st = "ok")
    OBVIOUS
  <2>3. ASSUME NEW i \in 1 .. Len(port), Ended(i, v) \/ Waits(i, v)
        PROVE  i > d
    <3>1. port[i] \in Packets /\ port[i].for = v /\ port[i].st # "aborted"
      BY <1>1, <2>3 DEF Ended, Waits
    <3>2. port[i].st \in {"ok", "denied", "error"}
      BY <2>1, <3>1, WatchesAssumption DEF Packets
    <3>3. QED
      BY <1>2, <3>1, <3>2
  <2>4. (Reading(v)' <=> Reading(v)) /\ (Reading(v) => rd' = rd)
    BY <1>2, <2>1
  <2>5. QED
    BY <1>1, <2>1, <2>2, <2>3, <2>4, AlikeSound
<1>3. \A x \in N : x.st # "wake" => x.for \in Watches'
  OBVIOUS
<1>4. \A i \in DOMAIN port' : port'[i].st # "wake" => port'[i].for \in Watches'
  BY <1>1, <1>3, PacketsStep
<1>5. PortTypeOK'
  BY <1>4 DEF PortTypeOK
<1>6. TreeTypeOK'
  BY <1>1 DEF TreeTypeOK
<1>7. \A v \in Watches' : Sound(v)'
  BY <1>2
<1>8. QED
  BY <1>5, <1>6, <1>7 DEF IInv, TypeOK

\* A step of the reader on watch w, after which the watches are as in t.
LEMMA TouchStep ==
  ASSUME IInv, NEW w \in Watches, NEW t \in States, Become(t),
         t.watch[w] \in Watch, t.watch[w].ino = watch[w].ino, Sound(w)',
         \A v \in Watches : v # w => Alike(watch[v], t.watch[v]),
         \A v \in Ids : v \notin Watches => t.watch[v] = None,
         \A f \in Folders : t.watches[f] = watches[f] \/ t.watches[f] = None,
         NEW d \in Nat, Shift(d, {Aborted(w)}),
         \A i \in 1 .. Len(port) : i > d \/ port[i].for = w \/ port[i].st \notin {"ok", "denied", "error"},
         rd.pc # "closed", \A v \in Ids : v # w => (Reading(v)' <=> Reading(v)) /\ (Reading(v) => rd' = rd),
         rd' \in [pc : {"get", "closed"}] \cup [pc : {"parse"}, w : Ids, i : Nat, n : Nat],
         rd'.pc = "parse" => rd'.w \in Watches /\ rd'.i \in 1 .. rd'.n,
         left' \in [calls : Nat, changes : Nat, faults : Nat], UNCHANGED <<place, used>>
  PROVE  IInv'
<1>1. WatchTypeOK
  BY DEF IInv, TypeOK
<1>2. /\ watch' = t.watch /\ watches' = t.watches /\ port' = t.port
      /\ watch' \in [Ids -> Watch \cup {None}] /\ watches' \in [Folders -> Ids \cup {None}]
      /\ port' \in Seq(Packets)
  BY DEF Become, States
<1>3. \A v \in Watches : watch'[v] \in Watch /\ watch'[v].ino = watch[v].ino
  BY <1>2 DEF Alike, SameTold, SameLog
<1>4. WatchTypeOK' /\ Watches \subseteq Watches'
  BY <1>1, <1>2, <1>3, WatchTypeStep
<1>5. Watches' \subseteq Watches
  BY <1>2 DEF Watches
<1>6. ASSUME NEW v \in Watches', v \notin {w}
      PROVE  v \in Watches /\ Alike(watch[v], watch'[v]) /\ (InMap(v)' => InMap(v))
  <2>1. v \in Watches /\ Alike(watch[v], watch'[v])
    BY <1>2, <1>5, <1>6
  <2>2. watch[v].ino \in Folders /\ v # None
    BY <1>1, <2>1, Made, WatchesAssumption DEF Watch
  <2>3. QED
    BY <1>2, <2>1, <2>2 DEF InMap, Alike, SameTold, SameLog
<1>7. PICK W : W = {w}
  OBVIOUS
<1>8. PICK N : N = {Aborted(w)}
  OBVIOUS
<1>9. \A x \in N : x.st = "aborted" /\ x.for \in Watches'
  BY <1>4, <1>8 DEF Aborted
<1>10. W \in SUBSET Watches' /\ (\A v \in W : Sound(v)') /\ Shift(d, N)
  BY <1>4, <1>7, <1>8
<1>11. \A v \in Watches' : v \notin W =>
         v \in Watches /\ Alike(watch[v], watch'[v]) /\ (InMap(v)' => InMap(v))
  BY <1>6, <1>7
<1>12. \A i \in 1 .. Len(port) :
         i > d \/ port[i].for \in W \/ port[i].st \notin {"ok", "denied", "error"}
  BY <1>7
<1>13. \A v \in Ids : v \notin W => (Reading(v)' <=> Reading(v)) /\ (Reading(v) => rd' = rd)
  BY <1>7
<1>14. rd'.pc = "parse" => rd'.w \in Watches' /\ rd'.i \in 1 .. rd'.n
  BY <1>4
<1>15. QED
  BY <1>2, <1>4, <1>9, <1>10, <1>11, <1>12, <1>13, <1>14, ReaderStep

\* startRead at the end of a packet, for a watch whose log is as it was.
LEMMA RestartKeeps ==
  ASSUME IInv, NEW w \in Watches, NEW s \in States, NEW t, Started(s, t, w), Become(t),
         s.watches = watches, port # <<>>, s.port = Tail(port), Alike(watch[w], s.watch[w]),
         \A v \in Ids : v # w => s.watch[v] = watch[v],
         rd.pc = "get", rd' = rd, Packet.for = w \/ Packet.st = "wake",
         Packet.st # "ok" \/ watch[w].overflowed = TRUE,
         left' \in [calls : Nat, changes : Nat, faults : Nat], UNCHANGED <<place, used>>
  PROVE  IInv'
<1>1. WatchTypeOK /\ PortTypeOK /\ port \in Seq(Packets) /\ w \in Ids /\ watch[w] \in Watch /\ Sound(w)
  BY Made DEF IInv, TypeOK, PortTypeOK
<1>2. /\ t \in States /\ t.watch[w] \in Watch /\ SameTold(s.watch[w], t.watch[w])
      /\ \A v \in Ids : v # w => t.watch[v] = s.watch[v]
      /\ watch' = t.watch /\ watches' = t.watches /\ port' = t.port
  BY DEF Started, Touches, Kept, Become
<1>3. /\ SameLog(watch[w], t.watch[w]) /\ t.watch[w].told = watch[w].told
      /\ t.watch[w].failed = watch[w].failed /\ s.watch[w].ino = watch[w].ino
  BY <1>2 DEF Alike, SameTold, SameLog
<1>4. /\ s.watch[w].open = watch[w].open /\ s.watch[w].kernel = watch[w].kernel
      /\ s.watch[w].full = watch[w].full
  BY DEF Alike, SameRead
<1>5. PICK N : N = {Aborted(w)}
  OBVIOUS
<1>6. Shift(1, N) /\ 1 \in Nat
  <2>1. CASE port' = Tail(port)
    BY <1>1, <2>1, ShiftTail DEF Shift
  <2>2. CASE port' = Append(Tail(port), Aborted(w))
    BY <1>1, <1>5, <2>2, ShiftTailAppend
  <2>3. QED
    BY <1>2, <2>1, <2>2 DEF Started
<1>7. Stays(watch[w], watch'[w])
  BY <1>1, <1>2, <1>3, <1>4 DEF Started, Shut, Stays
<1>8. watch'[w].pending = TRUE \/ watches' = [watches EXCEPT ![watch[w].ino] = None]
  BY <1>2, <1>3 DEF Started, Shut
<1>9. \A x \in N : ~ (x.for = w /\ x.st = "ok")
  BY <1>5 DEF Aborted
<1>10. ~Reading(w) /\ ~Reading(w)'
  BY DEF Reading
<1>11. port[1] = Packet
  BY <1>1, HeadTailProperties DEF Packet
<1>12. Listens(w)'
  <2>1. watch[w].ino \in Folders /\ w # None
    BY <1>1, WatchesAssumption DEF Watch
  <2>2. watches \in [Folders -> Ids \cup {None}] /\ watch'[w].ino = watch[w].ino
    BY <1>1, <1>2, <1>3 DEF WatchTypeOK, SameLog
  <2>3. QED
    BY <1>8, <2>1, <2>2 DEF Listens, InMap
<1>13. BufferOK(w)'
  BY <1>1, <1>6, <1>7, <1>9, <1>10, BufferStays DEF Sound
<1>14. Ordered(w)'
  <2>1. CASE watch[w].overflowed = TRUE
    BY <1>2, <1>3, <2>1 DEF Ordered, SameLog
  <2>2. CASE Packet.st # "ok"
    <3>1. ASSUME NEW i \in 1 .. Len(port), Ended(i, w)
          PROVE  i > 1
      BY <1>11, <2>2, <3>1 DEF Ended
    <3>2. watch'[w].told = watch[w].told
      BY <1>2, <1>3
    <3>3. (Reading(w)' <=> Reading(w)) /\ (Reading(w) => rd' = rd) /\ (rd.pc = "closed" => rd'.pc = "closed")
      BY <1>10
    <3>4. QED
      BY <1>1, <1>6, <1>7, <1>9, <3>1, <3>2, <3>3, OrderedStays DEF Sound
  <2>3. QED
    BY <2>1, <2>2
<1>15. Sound(w)'
  BY <1>12, <1>13, <1>14 DEF Sound
<1>16. \A f \in Folders : t.watches[f] = watches[f] \/ t.watches[f] = None
  BY <1>1 DEF Started, Shut, WatchTypeOK
<1>17. ASSUME NEW v \in Watches, v # w
       PROVE  Alike(watch[v], t.watch[v])
  <2>1. v \in Ids /\ watch[v] \in Watch /\ t.watch[v] = watch[v]
    BY <1>1, <1>2, <1>17, Made
  <2>2. QED
    BY <2>1 DEF Alike, SameTold, SameLog, SameRead
<1>18. \A v \in Ids : v \notin Watches => t.watch[v] = None
  BY <1>2 DEF Watches
<1>19. \A i \in 1 .. Len(port) :
         i > 1 \/ port[i].for = w \/ port[i].st \notin {"ok", "denied", "error"}
  BY <1>1, <1>11
<1>20. \A v \in Ids : v # w => (Reading(v)' <=> Reading(v)) /\ (Reading(v) => rd' = rd)
  BY DEF Reading
<1>21. /\ rd' \in [pc : {"get", "closed"}] \cup [pc : {"parse"}, w : Ids, i : Nat, n : Nat]
       /\ rd'.pc = "parse" => rd'.w \in Watches /\ rd'.i \in 1 .. rd'.n
       /\ rd.pc # "closed"
  BY <1>1 DEF PortTypeOK
<1>22. t.watch[w].ino = watch[w].ino
  BY <1>3 DEF SameLog
<1>23. QED
  BY <1>2, <1>5, <1>6, <1>15, <1>16, <1>17, <1>18, <1>19, <1>20, <1>21, <1>22, TouchStep

\* The state after the packet is taken from the port.
LEMMA GotDoes ==
  ASSUME TypeOK, port # <<>>
  PROVE  /\ Got \in States /\ Got.watch = watch /\ Got.watches = watches /\ Got.port = Tail(port)
         /\ Packet \in Packets /\ (Packet.st # "wake" => Packet.for \in Watches)
<1>1. /\ watch \in [Ids -> Watch \cup {None}] /\ watches \in [Folders -> Ids \cup {None}]
      /\ port \in Seq(Packets) /\ DOMAIN port = 1 .. Len(port)
      /\ \A i \in DOMAIN port : port[i].st # "wake" => port[i].for \in Watches
  BY DEF TypeOK, WatchTypeOK, PortTypeOK
<1>2. State \in States /\ State.watch = watch /\ State.watches = watches
  BY <1>1 DEF State, States
<1>3. Tail(port) \in Seq(Packets) /\ Packet = port[1] /\ Packet \in Packets /\ 1 \in DOMAIN port
  BY <1>1, HeadTailProperties DEF Packet
<1>4. Got = [State EXCEPT !.port = Tail(port)]
  BY DEF Got, State
<1>5. QED
  BY <1>1, <1>2, <1>3, <1>4, WithPort

LEMMA AttemptTypes ==
  ASSUME PortTypeOK, NEW fails \in Attempts, Attempt(fails)
  PROVE  left' \in [calls : Nat, changes : Nat, faults : Nat]
<1>1. left \in [calls : Nat, changes : Nat, faults : Nat]
  BY DEF PortTypeOK
<1>2. fails \in BOOLEAN /\ (fails => left.faults > 0)
  BY DEF Attempts
<1>3. left.faults - (IF fails THEN 1 ELSE 0) \in Nat
  <2>1. left.faults \in Nat
    BY <1>1
  <2>2. CASE fails
    BY <1>2, <2>1, <2>2
  <2>3. CASE ~fails
    BY <2>1, <2>3
  <2>4. QED
    BY <2>2, <2>3
<1>4. QED
  BY <1>1, <1>3 DEF Attempt

LEMMA GetDeniedKeeps ==
  ASSUME IInv, GetDenied
  PROVE  IInv'
<1>1. TypeOK /\ PortTypeOK /\ WatchTypeOK
  BY DEF IInv, TypeOK
<1>2. /\ rd.pc = "get" /\ port # <<>> /\ Packet.st = "denied"
      /\ UNCHANGED <<place, used, rd, left>>
      /\ Become(StartRead(DeleteWatch(Got, Packet.for), Packet.for, FALSE))
  BY DEF GetDenied, Get
<1>3. PICK w \in Watches : w = Packet.for
  BY <1>1, <1>2, GotDoes
<1>4. w \in Ids /\ watch[w] \in Watch
  BY <1>1, Made
<1>5. PICK g \in States : /\ g = Got /\ g.watch = watch /\ g.watches = watches
                          /\ g.port = Tail(port)
  BY <1>1, <1>2, GotDoes
<1>6. PICK s : s = DeleteWatch(g, w)
  OBVIOUS
<1>7. Touches(g, s, w) /\ SameRead(watch[w], s.watch[w]) /\ s.watches = watches /\ s.port = Tail(port)
  <2>1. Deleted(g, s, w)
    BY <1>4, <1>5, <1>6, DeleteWatchSpares
  <2>2. QED
    BY <1>5, <2>1 DEF Deleted
<1>8. /\ s \in States /\ s.watch[w] \in Watch /\ Alike(watch[w], s.watch[w])
      /\ \A v \in Ids : v # w => s.watch[v] = watch[v]
  BY <1>5, <1>7 DEF Touches, Kept, Alike
<1>9. PICK t : t = StartRead(s, w, FALSE)
  OBVIOUS
<1>10. Started(s, t, w)
  BY <1>4, <1>8, <1>9, StartReadDoes
<1>11. Become(t)
  BY <1>2, <1>3, <1>5, <1>6, <1>9
<1>12. left' \in [calls : Nat, changes : Nat, faults : Nat]
  BY <1>1, <1>2 DEF PortTypeOK
<1>13. QED
  BY <1>2, <1>3, <1>7, <1>8, <1>10, <1>11, <1>12, RestartKeeps

LEMMA GetOverflowKeeps ==
  ASSUME IInv, GetOverflow
  PROVE  IInv'
<1>1. TypeOK /\ PortTypeOK /\ WatchTypeOK /\ port \in Seq(Packets)
  BY DEF IInv, TypeOK, PortTypeOK
<1>2. /\ rd.pc = "get" /\ port # <<>> /\ Packet.st = "ok" /\ Packet.n = 0
      /\ UNCHANGED <<place, used, rd>>
  BY DEF GetOverflow, Get
<1>3. PICK fails \in Attempts : Become(StartRead(Got, Packet.for, fails)) /\ Attempt(fails)
  BY DEF GetOverflow
<1>4. PICK w \in Watches : w = Packet.for
  BY <1>1, <1>2, GotDoes
<1>5. w \in Ids /\ watch[w] \in Watch /\ Sound(w)
  BY <1>1, Made DEF IInv
<1>6. PICK g \in States : /\ g = Got /\ g.watch = watch /\ g.watches = watches
                          /\ g.port = Tail(port)
  BY <1>1, <1>2, GotDoes
<1>7. Alike(watch[w], g.watch[w])
  BY <1>5, <1>6 DEF Alike, SameTold, SameLog, SameRead
<1>8. PICK t : t = StartRead(g, w, fails)
  OBVIOUS
<1>9. Started(g, t, w)
  BY <1>5, <1>6, <1>8, StartReadDoes
<1>10. Become(t)
  BY <1>3, <1>4, <1>6, <1>8
<1>11. watch[w].overflowed = TRUE
  <2>1. port[1] = Packet /\ 1 \in 1 .. Len(port)
    BY <1>1, <1>2, HeadTailProperties DEF Packet
  <2>2. Ended(1, w)
    BY <1>2, <1>4, <2>1 DEF Ended
  <2>3. QED
    BY <1>2, <1>5, <2>1, <2>2 DEF Sound, BufferOK
<1>12. left' \in [calls : Nat, changes : Nat, faults : Nat]
  BY <1>1, <1>3, AttemptTypes
<1>13. QED
  BY <1>2, <1>4, <1>6, <1>7, <1>9, <1>10, <1>11, <1>12, RestartKeeps

LEMMA MarkedDoes ==
  ASSUME TreeTypeOK, NEW s \in States, NEW w \in Ids, s.watch[w] \in Watch,
         NEW n \in Inodes, Exists(n), NEW on \in BOOLEAN, NEW t, t = Marked(s, w, n, on)
  PROVE  /\ t \in States /\ Alike(s.watch[w], t.watch[w]) /\ SamePath(s.watch[w], t.watch[w])
         /\ t.watches = s.watches /\ t.port = s.port
         /\ \A v \in Ids : v # w => t.watch[v] = s.watch[v]
<1>1. PICK r \in Watch : r = s.watch[w]
  OBVIOUS
<1>2. CASE n \notin Files
  <2>1. PICK q : q = [r EXCEPT !.mask = on]
    OBVIOUS
  <2>2. q \in Watch /\ SameTold(r, q) /\ SameRead(r, q) /\ SamePath(r, q)
    BY <2>1 DEF Watch, SameTold, SameLog, SameRead, SamePath
  <2>3. t = [s EXCEPT !.watch[w] = q]
    BY <1>1, <1>2, <2>1 DEF Marked, States
  <2>4. QED
    BY <1>1, <2>2, <2>3, WithWatch DEF Alike
<1>3. CASE n \in Files
  <2>1. place[n].name \in Names
    <3>1. n # Root
      BY <1>3, WatchesAssumption
    <3>2. place[n] \in Place
      BY <3>1, TreeFacts
    <3>3. QED
      BY <3>2 DEF Place
  <2>2. PICK names : names = IF on THEN r.names \cup {place[n].name} ELSE r.names \ {place[n].name}
    OBVIOUS
  <2>3. names \in SUBSET Names
    BY <2>1, <2>2 DEF Watch
  <2>4. PICK q : q = [r EXCEPT !.names = names]
    OBVIOUS
  <2>5. q \in Watch /\ SameTold(r, q) /\ SameRead(r, q) /\ SamePath(r, q)
    BY <2>3, <2>4 DEF Watch, SameTold, SameLog, SameRead, SamePath
  <2>6. t = [s EXCEPT !.watch[w] = q]
    BY <1>1, <1>3, <2>2, <2>4 DEF Marked, States
  <2>7. QED
    BY <1>1, <2>5, <2>6, WithWatch DEF Alike
<1>4. QED
  BY <1>2, <1>3

\* A request for a watch that is there.
LEMMA MarkKeeps ==
  ASSUME IInv, Get("wake"), UNCHANGED rd, NEW n \in Inodes, Exists(n), NEW on \in BOOLEAN,
         NEW fails \in Attempts, Attempt(fails), watches[FolderOf(n)] # None,
         Become(StartRead(Marked(Got, watches[FolderOf(n)], n, on), watches[FolderOf(n)], fails))
  PROVE  IInv'
<1>1. TypeOK /\ TreeTypeOK /\ PortTypeOK /\ WatchTypeOK
  BY DEF IInv, TypeOK
<1>2. rd.pc = "get" /\ port # <<>> /\ Packet.st = "wake" /\ UNCHANGED <<place, used>>
  BY DEF Get
<1>3. PICK w \in Watches : w = watches[FolderOf(n)]
  BY <1>1, TreeFacts DEF WatchTypeOK
<1>4. w \in Ids /\ watch[w] \in Watch
  BY <1>1, Made
<1>5. PICK g \in States : /\ g = Got /\ g.watch = watch /\ g.watches = watches
                          /\ g.port = Tail(port)
  BY <1>1, <1>2, GotDoes
<1>6. PICK s : s = Marked(g, w, n, on)
  OBVIOUS
<1>7. /\ s \in States /\ Alike(watch[w], s.watch[w]) /\ s.watches = watches /\ s.port = Tail(port)
      /\ \A v \in Ids : v # w => s.watch[v] = watch[v]
  BY <1>1, <1>4, <1>5, <1>6, MarkedDoes
<1>8. PICK t : t = StartRead(s, w, fails)
  OBVIOUS
<1>9. Started(s, t, w)
  BY <1>4, <1>7, <1>8, StartReadDoes DEF Alike
<1>10. Become(t)
  BY <1>3, <1>5, <1>6, <1>8
<1>11. left' \in [calls : Nat, changes : Nat, faults : Nat]
  BY <1>1, AttemptTypes
<1>12. Packet.st # "ok"
  BY <1>2
<1>13. QED
  BY <1>2, <1>3, <1>7, <1>9, <1>10, <1>11, <1>12, RestartKeeps

\* A request that nothing comes of.
LEMMA DropKeeps ==
  ASSUME IInv, Get("wake") \/ Get("aborted"), UNCHANGED rd, Become(Got),
         left' \in [calls : Nat, changes : Nat, faults : Nat]
  PROVE  IInv'
<1>1. TypeOK /\ PortTypeOK /\ WatchTypeOK /\ port \in Seq(Packets)
  BY DEF IInv, TypeOK, PortTypeOK
<1>2. /\ rd.pc = "get" /\ port # <<>> /\ Packet.st \in {"wake", "aborted"}
      /\ UNCHANGED <<place, used>>
  BY DEF Get
<1>3. watch' = watch /\ watches' = watches /\ port' = Tail(port) /\ port' \in Seq(Packets)
  <2>1. watch' = Got.watch /\ watches' = Got.watches /\ port' = Got.port
    BY DEF Become
  <2>2. Got.watch = watch /\ Got.watches = watches /\ Got.port = Tail(port)
    BY <1>1, <1>2, GotDoes
  <2>3. Tail(port) \in Seq(Packets)
    BY <1>1, <1>2, HeadTailProperties
  <2>4. QED
    BY <2>1, <2>2, <2>3
<1>4. PICK W : W = {}
  OBVIOUS
<1>5. PICK N : N = {}
  OBVIOUS
<1>6. Shift(1, N) /\ 1 \in Nat
  BY <1>1, <1>2, <1>3, <1>5, ShiftTail
<1>7. WatchTypeOK' /\ Watches' = Watches
  BY <1>1, <1>3 DEF WatchTypeOK, Watches
<1>8. \A v \in Watches' : v \notin W =>
        v \in Watches /\ Alike(watch[v], watch'[v]) /\ (InMap(v)' => InMap(v))
  BY <1>1, <1>3, <1>7, Made DEF Alike, SameTold, SameLog, SameRead, InMap
<1>9. \A i \in 1 .. Len(port) :
        i > 1 \/ port[i].for \in W \/ port[i].st \notin {"ok", "denied", "error"}
  BY <1>1, <1>2, HeadTailProperties DEF Packet
<1>10. /\ rd' \in [pc : {"get", "closed"}] \cup [pc : {"parse"}, w : Ids, i : Nat, n : Nat]
       /\ rd'.pc = "parse" => rd'.w \in Watches' /\ rd'.i \in 1 .. rd'.n
       /\ rd.pc # "closed"
  BY <1>1, <1>2 DEF PortTypeOK
<1>11. \A v \in Ids : v \notin W => (Reading(v)' <=> Reading(v)) /\ (Reading(v) => rd' = rd)
  BY DEF Reading
<1>12. (\A v \in W : Sound(v)') /\ (\A x \in N : x.st = "aborted" /\ x.for \in Watches')
  BY <1>4, <1>5
<1>13. W \in SUBSET Watches' /\ Watches \subseteq Watches'
  BY <1>4, <1>7
<1>14. QED
  BY <1>2, <1>3, <1>6, <1>7, <1>8, <1>9, <1>10, <1>11, <1>12, <1>13, ReaderStep

LEMMA GetAbortedKeeps ==
  ASSUME IInv, GetAborted
  PROVE  IInv'
<1>1. left \in [calls : Nat, changes : Nat, faults : Nat]
  BY DEF IInv, TypeOK, PortTypeOK
<1>2. QED
  BY <1>1, DropKeeps DEF GetAborted

\* A new watch knows of nothing.
Fresh(r, f) ==
  /\ r \in Watch /\ r.ino = f /\ r.buf = <<>> /\ r.seen = <<>> /\ r.told = <<>>
  /\ r.kernel = <<>> /\ r.full = FALSE

LEMMA NewWatchDoes ==
  ASSUME NEW f \in Folders, NEW p \in Seq(Names), NEW along \in BOOLEAN,
         NEW r, r = NewWatch(f, p, along)
  PROVE  Fresh(r, f)
<1>1. p \in Seq(Texts)
  <2>1. p \in [1 .. Len(p) -> Names] /\ Len(p) \in Nat /\ Names \subseteq Texts
    BY DEF Texts
  <2>2. p \in [1 .. Len(p) -> Texts]
    BY <2>1
  <2>3. QED
    BY <2>1, <2>2
<1>2. <<>> \in Seq(Entries) /\ <<>> \in Seq(Nat) /\ <<>> \in Seq(Acts)
  BY EmptySeq
<1>3. QED
  BY <1>1, <1>2 DEF NewWatch, Watch, Fresh

\* A request for a folder that no watch is for.
LEMMA FreshKeeps ==
  ASSUME IInv, Get("wake"), UNCHANGED rd, NEW n \in Inodes, Exists(n),
         NEW fails \in Attempts, Attempt(fails), watches[FolderOf(n)] = None, Watches # Ids,
         Become(AddWatch(Got, n, fails))
  PROVE  IInv'
<1>1. TypeOK /\ TreeTypeOK /\ PortTypeOK /\ WatchTypeOK /\ port \in Seq(Packets)
  BY DEF IInv, TypeOK, PortTypeOK
<1>2. rd.pc = "get" /\ port # <<>> /\ Packet.st = "wake" /\ UNCHANGED <<place, used>>
  BY DEF Get
<1>3. PICK f \in Folders : f = FolderOf(n) /\ Exists(f) /\ watches[f] = None
  BY <1>1, TreeFacts
<1>4. PICK w \in Ids : w = Min({v \in Ids : watch[v] = None}) /\ watch[w] = None
  <2>1. {v \in Ids : watch[v] = None} \in SUBSET Nat
    BY DEF Ids
  <2>2. {v \in Ids : watch[v] = None} # {}
    BY DEF Watches
  <2>3. QED
    BY <2>1, <2>2, MinId
<1>5. PICK g \in States : /\ g = Got /\ g.watch = watch /\ g.watches = watches
                          /\ g.port = Tail(port)
  BY <1>1, <1>2, GotDoes
<1>6. PICK r : r = NewWatch(f, PathOf(f), Along(g, f))
  OBVIOUS
<1>7. Fresh(r, f) /\ r \in Watch
  <2>1. f \in Inodes
    BY DEF Folders, Inodes
  <2>2. PathOf(f) \in Seq(Names)
    BY <1>1, <1>3, <2>1, TreeFacts
  <2>3. PICK p \in Seq(Names) : p = PathOf(f)
    BY <2>2
  <2>4. PICK along \in BOOLEAN : along = Along(g, f)
    BY DEF Along
  <2>5. r = NewWatch(f, p, along)
    BY <1>6, <2>3, <2>4
  <2>6. Fresh(r, f)
    BY <2>5, NewWatchDoes
  <2>7. QED
    BY <2>6 DEF Fresh
<1>8. PICK u : u = [g EXCEPT !.watch[w] = r, !.watches[f] = w]
  OBVIOUS
<1>9. /\ u \in States /\ u.watch[w] = r /\ u.watches = [watches EXCEPT ![f] = w]
      /\ u.port = Tail(port) /\ \A v \in Ids : v # w => u.watch[v] = watch[v]
  BY <1>5, <1>7, <1>8 DEF States
<1>10. PICK s : s = Marked(u, w, n, TRUE)
  OBVIOUS
<1>11. /\ s \in States /\ Alike(r, s.watch[w]) /\ s.watches = u.watches /\ s.port = Tail(port)
       /\ \A v \in Ids : v # w => s.watch[v] = watch[v]
  <2>1. PICK x \in States : x = u /\ x.watch[w] \in Watch
    BY <1>7, <1>9
  <2>2. PICK on \in BOOLEAN : on = TRUE
    OBVIOUS
  <2>3. s = Marked(x, w, n, on)
    BY <1>10, <2>1, <2>2
  <2>4. /\ s \in States /\ Alike(u.watch[w], s.watch[w])
        /\ s.watches = u.watches /\ s.port = u.port
        /\ \A v \in Ids : v # w => s.watch[v] = u.watch[v]
    BY <1>1, <2>1, <2>3, MarkedDoes
  <2>5. QED
    BY <1>9, <2>4
<1>12. PICK t : t = StartRead(s, w, fails)
  OBVIOUS
<1>13. Started(s, t, w)
  BY <1>11, <1>12, StartReadDoes DEF Alike
<1>14. Become(t)
  <2>1. AddWatch(Got, n, fails) = StartRead(Marked(u, w, n, TRUE), w, fails)
    BY <1>3, <1>4, <1>5, <1>6, <1>8 DEF AddWatch
  <2>2. QED
    BY <1>10, <1>12, <2>1
<1>15. /\ t \in States /\ watch' = t.watch /\ watches' = t.watches /\ port' = t.port
       /\ watch'[w] \in Watch /\ SameTold(s.watch[w], watch'[w])
       /\ \A v \in Ids : v # w => watch'[v] = watch[v]
  BY <1>11, <1>13, <1>14 DEF Started, Touches, Kept, Become
<1>16. PICK q : q = watch'[w]
  OBVIOUS
<1>17. /\ Fresh(q, f) /\ (q.pending = TRUE => q.open = TRUE)
       /\ q.pending = TRUE \/ watches' = [u.watches EXCEPT ![f] = None]
  BY <1>7, <1>11, <1>13, <1>15, <1>16 DEF Fresh, Alike, SameTold, SameLog, SameRead, Started, Shut
<1>18. watch' \in [Ids -> Watch \cup {None}] /\ watches' \in [Folders -> Ids \cup {None}]
       /\ port' \in Seq(Packets)
  BY <1>15 DEF States
<1>19. w \notin Watches /\ Watches' = Watches \cup {w}
  BY <1>4, <1>15, WatchesAssumption DEF Watches
<1>20. /\ watches \in [Folders -> Ids \cup {None}]
       /\ \A e \in Folders : watches'[e] = IF e = f THEN watches'[f] ELSE watches[e]
       /\ watches'[f] \in {w, None}
  <2>1. watches \in [Folders -> Ids \cup {None}]
    BY <1>1 DEF WatchTypeOK
  <2>2. watches' = u.watches \/ watches' = [u.watches EXCEPT ![f] = None]
    BY <1>7, <1>11, <1>13, <1>15 DEF Started, Shut, Alike, SameTold, SameLog, Fresh
  <2>3. QED
    BY <1>9, <2>1, <2>2
<1>21. WatchTypeOK'
  <2>1. ASSUME NEW e \in Folders, watches'[e] # None
        PROVE  watches'[e] \in Watches' /\ watch'[watches'[e]].ino = e
    <3>1. CASE e = f
      BY <1>16, <1>17, <1>19, <1>20, <2>1, <3>1 DEF Fresh
    <3>2. CASE e # f
      <4>1. watches[e] = watches'[e] /\ watches[e] \in Watches /\ watch[watches[e]].ino = e
        BY <1>1, <1>20, <2>1, <3>2 DEF WatchTypeOK
      <4>2. watches[e] \in Ids /\ watches[e] # w
        BY <1>19, <4>1 DEF Watches
      <4>3. QED
        BY <1>15, <1>19, <4>1, <4>2
    <3>3. QED
      BY <3>1, <3>2
  <2>2. QED
    BY <1>18, <2>1 DEF WatchTypeOK
<1>22. PICK W : W = {w}
  OBVIOUS
<1>23. PICK N : N = {Aborted(w)}
  OBVIOUS
<1>24. Shift(1, N) /\ 1 \in Nat
  <2>1. CASE port' = Tail(port)
    BY <1>1, <1>2, <2>1, ShiftTail DEF Shift
  <2>2. CASE port' = Append(Tail(port), Aborted(w))
    BY <1>1, <1>2, <1>23, <2>2, ShiftTailAppend
  <2>3. QED
    BY <1>11, <1>13, <1>15, <2>1, <2>2 DEF Started
<1>25. ASSUME NEW i \in 1 .. Len(port')
       PROVE  ~Ended(i, w)'
  <2>1. CASE port'[i] \in N
    BY <1>23, <2>1 DEF Ended, Aborted
  <2>2. CASE i + 1 \in 1 .. Len(port) /\ port[i + 1] = port'[i]
    <3>1. port[i + 1].st # "wake" => port[i + 1].for \in Watches
      BY <1>1, <2>2 DEF PortTypeOK
    <3>2. QED
      BY <1>19, <2>2, <3>1 DEF Ended
  <2>3. QED
    BY <1>24, <2>1, <2>2 DEF Shift
<1>26. ~Reading(w)'
  BY <1>2 DEF Reading
<1>27. Sound(w)'
  <2>1. Listens(w)'
    <3>1. q.pending = TRUE \/ watches'[f] = None
      BY <1>9, <1>17, <1>20
    <3>2. w # None /\ q.ino = f
      BY <1>17, WatchesAssumption DEF Fresh
    <3>3. QED
      BY <1>16, <3>1, <3>2 DEF Listens, InMap
  <2>2. BufferOK(w)'
    BY <1>16, <1>17, <1>25, <1>26 DEF BufferOK, Stored, Fresh
  <2>3. After(q, 0)
    BY <1>17 DEF After, Fresh
  <2>4. Chain(w)'
    BY <1>16, <1>25, <1>26, <2>3 DEF Chain
  <2>5. Ordered(w)'
    BY <1>16, <1>17, <2>4 DEF Ordered, Fresh
  <2>6. QED
    BY <2>1, <2>2, <2>5 DEF Sound
<1>28. ASSUME NEW v \in Watches', v \notin W
       PROVE  v \in Watches /\ Alike(watch[v], watch'[v]) /\ (InMap(v)' => InMap(v))
  <2>1. v \in Watches /\ v # w
    BY <1>19, <1>22, <1>28
  <2>2. v \in Ids /\ watch[v] \in Watch /\ watch'[v] = watch[v] /\ v # None
    BY <1>1, <1>15, <2>1, Made, WatchesAssumption
  <2>3. watch[v].ino \in Folders
    BY <2>2 DEF Watch
  <2>4. InMap(v)' => InMap(v)
    BY <1>20, <2>1, <2>2, <2>3 DEF InMap
  <2>5. QED
    BY <2>1, <2>2, <2>4 DEF Alike, SameTold, SameLog, SameRead
<1>29. \A i \in 1 .. Len(port) :
         i > 1 \/ port[i].for \in W \/ port[i].st \notin {"ok", "denied", "error"}
  BY <1>1, <1>2, HeadTailProperties DEF Packet
<1>30. /\ rd' \in [pc : {"get", "closed"}] \cup [pc : {"parse"}, w : Ids, i : Nat, n : Nat]
       /\ rd'.pc = "parse" => rd'.w \in Watches' /\ rd'.i \in 1 .. rd'.n
       /\ rd.pc # "closed"
  BY <1>1, <1>2 DEF PortTypeOK
<1>31. \A v \in Ids : v \notin W => (Reading(v)' <=> Reading(v)) /\ (Reading(v) => rd' = rd)
  BY DEF Reading
<1>32. (\A v \in W : Sound(v)') /\ (\A x \in N : x.st = "aborted" /\ x.for \in Watches')
  BY <1>19, <1>22, <1>23, <1>27 DEF Aborted
<1>33. W \in SUBSET Watches' /\ Watches \subseteq Watches'
  BY <1>19, <1>22
<1>34. left' \in [calls : Nat, changes : Nat, faults : Nat]
  BY <1>1, AttemptTypes
<1>35. QED
  BY <1>2, <1>18, <1>21, <1>24, <1>28, <1>29, <1>30, <1>31, <1>32, <1>33, <1>34, ReaderStep

LEMMA GetRequestKeeps ==
  ASSUME IInv, GetRequest
  PROVE  IInv'
<1>1. TypeOK /\ PortTypeOK
  BY DEF IInv, TypeOK
<1>2. Get("wake") /\ UNCHANGED rd /\ port # <<>>
  BY DEF GetRequest, Get
<1>3. Got.watches = watches
  BY <1>1, <1>2, GotDoes
<1>4. CASE Become(Got) /\ UNCHANGED left
  <2>1. left' \in [calls : Nat, changes : Nat, faults : Nat]
    BY <1>1, <1>4 DEF PortTypeOK
  <2>2. QED
    BY <1>2, <1>4, <2>1, DropKeeps
<1>5. ASSUME NEW n \in At(Packet.path), NEW fails \in Attempts, Attempt(fails),
             watches[FolderOf(n)] = None => Watches # Ids, Become(AddWatch(Got, n, fails))
      PROVE  IInv'
  <2>1. n \in Inodes /\ Exists(n)
    BY DEF At
  <2>2. CASE watches[FolderOf(n)] = None
    BY <1>2, <1>5, <2>1, <2>2, FreshKeeps
  <2>3. CASE watches[FolderOf(n)] # None
    <3>1. AddWatch(Got, n, fails)
          = StartRead(Marked(Got, watches[FolderOf(n)], n, TRUE), watches[FolderOf(n)], fails)
      BY <1>3, <2>3 DEF AddWatch
    <3>2. TRUE \in BOOLEAN
      OBVIOUS
    <3>3. QED
      BY <1>2, <1>5, <2>1, <2>3, <3>1, <3>2, MarkKeeps
  <2>4. QED
    BY <2>2, <2>3
<1>6. ASSUME NEW n \in At(Packet.path), NEW fails \in Attempts, Attempt(fails),
             Become(RemWatch(Got, n, fails))
      PROVE  IInv'
  <2>1. n \in Inodes /\ Exists(n)
    BY DEF At
  <2>2. CASE watches[FolderOf(n)] = None
    <3>1. Become(Got)
      BY <1>3, <1>6, <2>2 DEF RemWatch
    <3>2. left' \in [calls : Nat, changes : Nat, faults : Nat]
      BY <1>1, <1>6, AttemptTypes
    <3>3. QED
      BY <1>2, <3>1, <3>2, DropKeeps
  <2>3. CASE watches[FolderOf(n)] # None
    <3>1. RemWatch(Got, n, fails)
          = StartRead(Marked(Got, watches[FolderOf(n)], n, FALSE), watches[FolderOf(n)], fails)
      BY <1>3, <2>3 DEF RemWatch
    <3>2. FALSE \in BOOLEAN
      OBVIOUS
    <3>3. QED
      BY <1>2, <1>6, <2>1, <2>3, <3>1, <3>2, MarkKeeps
  <2>4. QED
    BY <2>2, <2>3
<1>7. QED
  BY <1>4, <1>5, <1>6 DEF GetRequest

LEMMA GetErrorKeeps ==
  ASSUME IInv, GetError
  PROVE  IInv'
<1>1. TypeOK /\ PortTypeOK /\ WatchTypeOK /\ port \in Seq(Packets)
  BY DEF IInv, TypeOK, PortTypeOK
<1>2. /\ rd.pc = "get" /\ port # <<>> /\ Packet.st = "error"
      /\ UNCHANGED <<place, used, rd, left>>
      /\ Become([Got EXCEPT !.watch[Packet.for].failed = TRUE])
  BY DEF GetError, Get
<1>3. PICK w \in Watches : w = Packet.for
  BY <1>1, <1>2, GotDoes
<1>4. w \in Ids /\ watch[w] \in Watch /\ Sound(w)
  BY <1>1, Made DEF IInv
<1>5. PICK g \in States : /\ g = Got /\ g.watch = watch /\ g.watches = watches
                          /\ g.port = Tail(port)
  BY <1>1, <1>2, GotDoes
<1>6. PICK q : q = [watch[w] EXCEPT !.failed = TRUE]
  OBVIOUS
<1>7. /\ q \in Watch /\ SameLog(watch[w], q) /\ SameRead(watch[w], q)
      /\ q.told = watch[w].told /\ q.failed = TRUE
  BY <1>4, <1>6 DEF Watch, SameLog, SameRead
<1>8. PICK t : t = [g EXCEPT !.watch[w] = q]
  OBVIOUS
<1>9. /\ t \in States /\ t.watch[w] = q /\ t.watches = watches /\ t.port = Tail(port)
      /\ \A v \in Ids : v # w => t.watch[v] = watch[v]
  BY <1>4, <1>5, <1>7, <1>8, WithWatch
<1>10. Become(t)
  BY <1>2, <1>3, <1>5, <1>6, <1>8
<1>11. watch'[w] = q /\ port' = Tail(port)
  BY <1>9, <1>10 DEF Become
<1>12. PICK N : N = {Aborted(w)}
  OBVIOUS
<1>13. Shift(1, N) /\ 1 \in Nat
  BY <1>1, <1>2, <1>11, ShiftTail DEF Shift
<1>14. Stays(watch[w], watch'[w])
  BY <1>4, <1>7, <1>11 DEF Stays, SameRead, Sound, BufferOK, Stored
<1>15. \A x \in N : ~ (x.for = w /\ x.st = "ok")
  BY <1>12 DEF Aborted
<1>16. ~Reading(w) /\ ~Reading(w)'
  BY <1>2 DEF Reading
<1>17. port[1] = Packet
  BY <1>1, <1>2, HeadTailProperties DEF Packet
<1>18. Listens(w)'
  BY <1>7, <1>11 DEF Listens
<1>19. BufferOK(w)'
  BY <1>1, <1>4, <1>13, <1>14, <1>15, <1>16, BufferStays DEF Sound
<1>20. Ordered(w)'
  <2>1. ASSUME NEW i \in 1 .. Len(port), Ended(i, w)
        PROVE  i > 1
    BY <1>2, <1>17, <2>1 DEF Ended
  <2>2. watch'[w].told = watch[w].told
    BY <1>7, <1>11
  <2>3. (Reading(w)' <=> Reading(w)) /\ (Reading(w) => rd' = rd) /\ (rd.pc = "closed" => rd'.pc = "closed")
    BY <1>2, <1>16
  <2>4. QED
    BY <1>1, <1>4, <1>13, <1>14, <1>15, <2>1, <2>2, <2>3, OrderedStays DEF Sound
<1>21. Sound(w)'
  BY <1>18, <1>19, <1>20 DEF Sound
<1>22. ASSUME NEW v \in Watches, v # w
       PROVE  Alike(watch[v], t.watch[v])
  <2>1. v \in Ids /\ watch[v] \in Watch /\ t.watch[v] = watch[v]
    BY <1>1, <1>9, <1>22, Made
  <2>2. QED
    BY <2>1 DEF Alike, SameTold, SameLog, SameRead
<1>23. \A v \in Ids : v \notin Watches => t.watch[v] = None
  BY <1>9 DEF Watches
<1>24. \A i \in 1 .. Len(port) :
         i > 1 \/ port[i].for = w \/ port[i].st \notin {"ok", "denied", "error"}
  BY <1>1, <1>3, <1>17
<1>25. \A v \in Ids : v # w => (Reading(v)' <=> Reading(v)) /\ (Reading(v) => rd' = rd)
  BY <1>2 DEF Reading
<1>26. /\ rd' \in [pc : {"get", "closed"}] \cup [pc : {"parse"}, w : Ids, i : Nat, n : Nat]
       /\ rd'.pc = "parse" => rd'.w \in Watches /\ rd'.i \in 1 .. rd'.n
       /\ rd.pc # "closed"
       /\ left' \in [calls : Nat, changes : Nat, faults : Nat]
  BY <1>1, <1>2 DEF PortTypeOK
<1>27. t.watch[w] \in Watch /\ t.watch[w].ino = watch[w].ino
  BY <1>7, <1>9 DEF SameLog
<1>28. \A f \in Folders : t.watches[f] = watches[f] \/ t.watches[f] = None
  BY <1>9
<1>29. QED
  BY <1>2, <1>9, <1>10, <1>12, <1>13, <1>21, <1>22, <1>23, <1>24, <1>25, <1>26, <1>27, <1>28, TouchStep

LEMMA GetChangesKeeps ==
  ASSUME IInv, GetChanges
  PROVE  IInv'
<1>1. TypeOK /\ PortTypeOK /\ WatchTypeOK /\ port \in Seq(Packets)
  BY DEF IInv, TypeOK, PortTypeOK
<1>2. /\ rd.pc = "get" /\ port # <<>> /\ Packet.st = "ok" /\ Packet.n > 0
      /\ rd' = [pc |-> "parse", w |-> Packet.for, i |-> 1, n |-> Packet.n]
      /\ UNCHANGED <<place, used, left>> /\ Become(Got)
  BY DEF GetChanges, Get
<1>3. PICK w \in Watches : w = Packet.for
  BY <1>1, <1>2, GotDoes
<1>4. w \in Ids /\ watch[w] \in Watch /\ Sound(w)
  BY <1>1, Made DEF IInv
<1>5. PICK t \in States : /\ t = Got /\ t.watch = watch /\ t.watches = watches
                          /\ t.port = Tail(port) /\ Packet \in Packets
  BY <1>1, <1>2, GotDoes
<1>6. PICK n \in Nat : n = Packet.n /\ n > 0
  BY <1>2, <1>5 DEF Packets
<1>7. Become(t) /\ watch' = watch /\ watches' = watches /\ port' = Tail(port)
  BY <1>2, <1>5 DEF Become
<1>8. PICK N : N = {Aborted(w)}
  OBVIOUS
<1>9. Shift(1, N) /\ 1 \in Nat
  BY <1>1, <1>2, <1>7, ShiftTail DEF Shift
<1>10. port[1] = Packet /\ 1 \in 1 .. Len(port) /\ Len(port) \in Nat
  BY <1>1, <1>2, HeadTailProperties DEF Packet
<1>11. Ended(1, w)
  BY <1>2, <1>3, <1>10 DEF Ended
<1>12. /\ Reading(w)' /\ ~Reading(w) /\ rd'.i = 1 /\ rd'.n = n /\ rd'.w = w
       /\ rd'.pc = "parse" /\ rd'.i \in 1 .. rd'.n
       /\ rd' \in [pc : {"get", "closed"}] \cup [pc : {"parse"}, w : Ids, i : Nat, n : Nat]
  <2>1. rd' = [pc |-> "parse", w |-> w, i |-> 1, n |-> n]
    BY <1>2, <1>3, <1>6
  <2>2. QED
    BY <1>2, <1>4, <1>6, <2>1 DEF Reading
<1>13. ASSUME NEW i \in 1 .. Len(port'), Ended(i, w)'
       PROVE  i + 1 \in 1 .. Len(port) /\ port[i + 1] = port'[i] /\ Ended(i + 1, w)
  BY <1>8, <1>9, <1>13 DEF Shift, Ended, Aborted
<1>14. Listens(w)'
  BY <1>12 DEF Listens
<1>15. BufferOK(w)'
  <2>1. Stored(watch[w]) /\ n <= Len(watch[w].buf)
    BY <1>4, <1>6, <1>10, <1>11 DEF Sound, BufferOK
  <2>2. ASSUME NEW i \in 1 .. Len(port'), Ended(i, w)'
        PROVE  port'[i].n <= Len(watch[w].buf) /\ (port'[i].n = 0 => watch[w].overflowed = TRUE)
    BY <1>4, <1>13, <2>2 DEF Sound, BufferOK
  <2>3. QED
    BY <1>7, <1>12, <2>1, <2>2 DEF BufferOK
<1>16. Ordered(w)'
  <2>1. SUFFICES ASSUME watch[w].overflowed = FALSE, watch[w].overwritten = FALSE
        PROVE  (\A i \in 1 .. Len(watch[w].told) : watch[w].told[i] = i) /\ Chain(w)'
    BY <1>7 DEF Ordered
  <2>2. (\A i \in 1 .. Len(watch[w].told) : watch[w].told[i] = i) /\ Chain(w)
    BY <1>2, <1>4, <2>1 DEF Sound, Ordered
  <2>3. /\ \A j \in 1 .. Len(port) : Ended(j, w) => 1 = j
        /\ Coming(watch[w], 1, n) /\ After(watch[w], n)
    BY <1>6, <1>10, <1>11, <2>2 DEF Chain
  <2>4. ASSUME NEW i \in 1 .. Len(port')
        PROVE  ~Ended(i, w)'
    <3>1. SUFFICES ASSUME Ended(i, w)'
          PROVE  FALSE
      OBVIOUS
    <3>2. 1 = i + 1
      BY <1>13, <2>3, <3>1
    <3>3. QED
      BY <3>2
  <2>5. n - 1 + 1 = n
    OBVIOUS
  <2>6. Chain(w)'
    BY <1>7, <1>12, <2>3, <2>4, <2>5 DEF Chain
  <2>7. QED
    BY <2>2, <2>6
<1>17. Sound(w)'
  BY <1>14, <1>15, <1>16 DEF Sound
<1>18. ASSUME NEW v \in Watches, v # w
       PROVE  Alike(watch[v], t.watch[v])
  BY <1>1, <1>5, Made DEF Alike, SameTold, SameLog, SameRead
<1>19. \A v \in Ids : v \notin Watches => t.watch[v] = None
  BY <1>5 DEF Watches
<1>20. \A i \in 1 .. Len(port) :
         i > 1 \/ port[i].for = w \/ port[i].st \notin {"ok", "denied", "error"}
  BY <1>1, <1>3, <1>10
<1>21. \A v \in Ids : v # w => (Reading(v)' <=> Reading(v)) /\ (Reading(v) => rd' = rd)
  BY <1>2, <1>12 DEF Reading
<1>22. left' \in [calls : Nat, changes : Nat, faults : Nat] /\ rd.pc # "closed"
  BY <1>1, <1>2 DEF PortTypeOK
<1>23. t.watch[w] \in Watch /\ t.watch[w].ino = watch[w].ino
  BY <1>4, <1>5
<1>24. \A f \in Folders : t.watches[f] = watches[f] \/ t.watches[f] = None
  BY <1>5
<1>25. rd'.pc = "parse" => rd'.w \in Watches /\ rd'.i \in 1 .. rd'.n
  BY <1>12
<1>26. QED
  BY <1>2, <1>7, <1>8, <1>9, <1>12, <1>17, <1>18, <1>19, <1>20, <1>21, <1>22, <1>23, <1>24,
     <1>25, TouchStep

\* A watch of which an entry changes the path or the names.
LEMMA WithPath ==
  ASSUME NEW r \in Watch, NEW p \in Seq(Texts), NEW q, q = [r EXCEPT !.path = p]
  PROVE  Alike(r, q)
BY DEF Watch, Alike, SameTold, SameLog, SameRead

LEMMA WithNames ==
  ASSUME NEW r \in Watch, NEW S \in SUBSET Names, NEW q, q = [r EXCEPT !.names = S]
  PROVE  Alike(r, q)
BY DEF Watch, Alike, SameTold, SameLog, SameRead

LEMMA RenamedType ==
  ASSUME NEW p \in Seq(Texts), NEW old \in Seq(Texts), NEW new \in Seq(Texts)
  PROVE  Renamed(p, old, new) \in Seq(Texts)
<1>1. Len(old) \in Nat /\ Len(p) \in Nat
  OBVIOUS
<1>2. PICK tail : tail = SubSeq(p, Len(old) + 1, Len(p))
  OBVIOUS
<1>3. ASSUME Len(old) <= Len(p)
      PROVE  tail \in Seq(Texts)
  <2>1. CASE Len(old) = Len(p)
    <3>1. tail = <<>>
      BY <1>1, <1>2, <2>1
    <3>2. QED
      BY <3>1, EmptySeq
  <2>2. CASE Len(old) < Len(p)
    <3>1. Len(old) + 1 \in 1 .. Len(p) + 1
      BY <1>1, <2>2
    <3>2. QED
      BY <1>1, <1>2, <3>1, SubSeqProperties
  <2>3. QED
    BY <1>1, <1>3, <2>1, <2>2
<1>4. CASE IsPrefix(old, p)
  <2>1. Len(old) <= Len(p)
    BY <1>4 DEF IsPrefix
  <2>2. Renamed(p, old, new) = new \o tail
    BY <1>2, <1>4 DEF Renamed
  <2>3. QED
    BY <1>3, <2>1, <2>2, ConcatProperties
<1>5. CASE ~IsPrefix(old, p) /\ Sibling(p, old)
  <2>1. Len(old) <= Len(p) /\ <<p[Len(old)], Last(old)>> \in DOMAIN Rest
    BY <1>5 DEF Sibling
  <2>2. PICK x \in Texts : x = Rest[<<p[Len(old)], Last(old)>>]
    BY <2>1 DEF Texts
  <2>3. Append(new, x) \in Seq(Texts)
    BY AppendProperties
  <2>4. Renamed(p, old, new) = Append(new, x) \o tail
    BY <1>2, <1>5, <2>2 DEF Renamed
  <2>5. QED
    BY <1>3, <2>1, <2>3, <2>4, ConcatProperties
<1>6. CASE ~IsPrefix(old, p) /\ ~Sibling(p, old)
  BY <1>6 DEF Renamed
<1>7. QED
  BY <1>4, <1>5, <1>6

\* An entry changes the paths and the names of watches, and nothing of what is read.
Spares(s, t) ==
  /\ t \in States /\ t.watches = s.watches /\ t.port = s.port
  /\ \A v \in Ids : s.watch[v] \in Watch => Alike(s.watch[v], t.watch[v])
  /\ \A v \in Ids : s.watch[v] = None => t.watch[v] = None

LEMMA EffectDoes ==
  ASSUME NEW s \in States, NEW w \in Ids, s.watch[w] \in Watch, NEW e \in Acts,
         NEW t, t = Effect(s, w, e)
  PROVE  Spares(s, t)
<1>1. e.name \in Names /\ e.act \in {"added", "modified", "old", "new", "removed"}
  BY DEF Acts
<1>2. PICK r \in Watch : r = s.watch[w]
  OBVIOUS
<1>3. \A q : Alike(q, q) <=> q \in Watch
  BY DEF Alike, SameTold, SameLog, SameRead
<1>4. ASSUME NEW q, Alike(r, q), NEW u, u = [s EXCEPT !.watch[w] = q]
      PROVE  Spares(s, u)
  <2>1. q \in Watch
    BY <1>4 DEF Alike
  <2>2. /\ u \in States /\ u.watch[w] = q /\ u.watches = s.watches /\ u.port = s.port
        /\ \A v \in Ids : v # w => u.watch[v] = s.watch[v]
    BY <1>4, <2>1, WithWatch
  <2>3. QED
    BY <1>2, <1>3, <1>4, <2>2, WatchesAssumption DEF Spares
<1>5. CASE e.act = "removed"
  <2>1. PICK S \in SUBSET Names : S = r.names \ {e.name}
    BY DEF Watch
  <2>2. PICK q : q = [r EXCEPT !.names = S]
    OBVIOUS
  <2>3. Alike(r, q)
    BY <2>2, WithNames
  <2>4. t = [s EXCEPT !.watch[w] = q]
    BY <1>2, <1>5, <2>1, <2>2 DEF Effect, States
  <2>5. QED
    BY <1>4, <2>3, <2>4
<1>6. CASE e.act = "old"
  <2>1. PICK q : q = [r EXCEPT !.rename = e.name]
    OBVIOUS
  <2>2. Alike(r, q)
    BY <1>1, <2>1 DEF Watch, Alike, SameTold, SameLog, SameRead
  <2>3. t = [s EXCEPT !.watch[w] = q]
    BY <1>2, <1>6, <2>1 DEF Effect, States
  <2>4. QED
    BY <1>4, <2>2, <2>3
<1>7. CASE e.act \in {"added", "modified"}
  BY <1>3, <1>7 DEF Effect, Spares
<1>8. CASE e.act = "new"
  <2>1. PICK u : u = RenameName(s, w, e.name)
    OBVIOUS
  <2>2. /\ u \in States /\ u.watches = s.watches /\ u.port = s.port /\ u.watch[w] \in Watch
        /\ \A v \in Ids : s.watch[v] \in Watch => Alike(s.watch[v], u.watch[v])
        /\ \A v \in Ids : s.watch[v] = None => u.watch[v] = None
    <3>1. CASE u = s
      BY <1>3, <3>1
    <3>2. CASE u = [s EXCEPT !.watch[w].names = (@ \ {s.watch[w].rename}) \cup {e.name}]
      <4>1. PICK S \in SUBSET Names : S = (r.names \ {r.rename}) \cup {e.name}
        BY <1>1 DEF Watch
      <4>2. PICK q : q = [r EXCEPT !.names = S]
        OBVIOUS
      <4>3. Alike(r, q)
        BY <4>2, WithNames
      <4>4. u = [s EXCEPT !.watch[w] = q]
        BY <1>2, <3>2, <4>1, <4>2 DEF States
      <4>5. Spares(s, u)
        BY <1>4, <4>3, <4>4
      <4>6. u.watch[w] \in Watch
        BY <1>2, <4>5 DEF Spares, Alike
      <4>7. QED
        BY <4>5, <4>6 DEF Spares
    <3>3. QED
      BY <2>1, <3>1, <3>2 DEF RenameName
  <2>3. PICK old \in Seq(Texts) : old = Old(u.watch[w])
    <3>1. u.watch[w].path \in Seq(Texts) /\ u.watch[w].rename \in Names \cup {None}
      BY <2>2 DEF Watch
    <3>2. u.watch[w].rename # None => u.watch[w].rename \in Texts
      BY <3>1 DEF Texts
    <3>3. QED
      BY <3>1, <3>2, AppendProperties DEF Old
  <2>4. PICK new \in Seq(Texts) : new = Append(u.watch[w].path, e.name)
    <3>1. u.watch[w].path \in Seq(Texts) /\ e.name \in Texts
      BY <1>1, <2>2 DEF Watch, Texts
    <3>2. QED
      BY <3>1, AppendProperties
  <2>5. PICK f : f = RenamePaths(u, w, e.name)
    OBVIOUS
  <2>6. t = [u EXCEPT !.watch = f]
    <3>1. t = [s EXCEPT !.watch = f]
      BY <1>8, <2>1, <2>5 DEF Effect
    <3>2. \A x \in States, y \in States : x.watches = y.watches /\ x.port = y.port =>
            [x EXCEPT !.watch = f] = [y EXCEPT !.watch = f]
      BY DEF States
    <3>3. QED
      BY <2>2, <3>1, <3>2
  <2>7. f = [v \in Ids |->
               IF u.watch[v] # None /\ u.watches[u.watch[v].ino] = v
               THEN [u.watch[v] EXCEPT !.path = Renamed(u.watch[v].path, old, new)]
               ELSE u.watch[v]]
    BY <2>3, <2>4, <2>5 DEF RenamePaths
  <2>8. ASSUME NEW v \in Ids
        PROVE  /\ u.watch[v] = None => f[v] = None
               /\ u.watch[v] \in Watch => Alike(u.watch[v], f[v])
    <3>1. ASSUME u.watch[v] \in Watch
          PROVE  Alike(u.watch[v], f[v])
      <4>1. u.watch[v].path \in Seq(Texts)
        BY <3>1 DEF Watch
      <4>2. PICK p \in Seq(Texts) : p = Renamed(u.watch[v].path, old, new)
        BY <4>1, RenamedType
      <4>3. f[v] = u.watch[v] \/ f[v] = [u.watch[v] EXCEPT !.path = p]
        BY <2>7, <4>2
      <4>4. QED
        BY <1>3, <3>1, <4>3, WithPath
    <3>2. QED
      BY <2>7, <3>1
  <2>9. u.watch \in [Ids -> Watch \cup {None}]
    BY <2>2 DEF States
  <2>10. f \in [Ids -> Watch \cup {None}]
    <3>1. \A v \in Ids : f[v] \in Watch \cup {None}
      BY <2>8, <2>9 DEF Alike
    <3>2. QED
      BY <2>7, <3>1
  <2>11. t \in States /\ t.watches = u.watches /\ t.port = u.port /\ t.watch = f
    BY <2>2, <2>6, <2>10 DEF States
  <2>12. ASSUME NEW v \in Ids, s.watch[v] \in Watch
         PROVE  Alike(s.watch[v], t.watch[v])
    <3>1. Alike(s.watch[v], u.watch[v]) /\ Alike(u.watch[v], f[v])
      BY <2>2, <2>8, <2>12 DEF Alike
    <3>2. QED
      BY <2>11, <3>1 DEF Alike, SameTold, SameLog, SameRead
  <2>13. QED
    BY <2>2, <2>8, <2>11, <2>12 DEF Spares
<1>9. QED
  BY <1>1, <1>5, <1>6, <1>7, <1>8

LEMMA NextOnes ==
  ASSUME NEW m \in Nat, NEW n \in Nat, NEW i \in Nat, NEW j \in Nat
  PROVE  /\ m + j + 1 - i = (m + 1) + j + 1 - (i + 1)
         /\ m + (n - i + 1) + j = (m + 1) + (n - i) + j
OBVIOUS

\* Entry i, where the reader is, is the next change, and those up to n follow it;
\* and q is watch r when it is past that entry.
AtEntry(r, i, n) ==
  /\ \A k \in 1 .. Len(r.told) : r.told[k] = k
  /\ Coming(r, i, n) /\ After(r, n - i + 1)
PastEntry(r, q, i, n) ==
  /\ \A k \in 1 .. Len(q.told) : q.told[k] = k
  /\ r.buf[i].last = TRUE <=> i = n
  /\ Coming(q, i + 1, n) /\ After(q, n - i)

LEMMA EntryComes ==
  ASSUME NEW r \in Watch, NEW q, Stays(r, q), NEW n \in Nat, NEW i \in 1 .. n,
         q.told = Append(r.told, r.buf[i].id), AtEntry(r, i, n)
  PROVE  PastEntry(r, q, i, n)
<1>0. /\ \A k \in 1 .. Len(r.told) : r.told[k] = k
      /\ Coming(r, i, n) /\ After(r, n - i + 1)
  BY DEF AtEntry
<1>1. PICK m \in Nat : m = Len(r.told)
  BY DEF Watch
<1>2. r.told \in Seq(Nat) /\ i \in Nat /\ n \in Nat /\ m \in Nat
  BY DEF Watch
<1>3. i \in i .. n
  BY <1>2
<1>4. m + i + 1 - i = m + 1
  BY <1>1, <1>2
<1>5. r.buf[i].id = m + 1 /\ (r.buf[i].last = TRUE <=> i = n)
  BY <1>0, <1>1, <1>3, <1>4 DEF Coming
<1>6. /\ Len(q.told) = m + 1 /\ q.told[m + 1] = m + 1
      /\ \A k \in 1 .. m : q.told[k] = r.told[k]
  BY <1>1, <1>2, <1>5, AppendProperties
<1>7. \A k \in 1 .. Len(q.told) : q.told[k] = k
  BY <1>0, <1>1, <1>6
<1>8. q.buf = r.buf /\ q.seen = r.seen
  BY DEF Stays, SameLog
<1>9. ASSUME NEW l \in (i + 1) .. n
      PROVE  /\ q.buf[l].id = Len(q.told) + l + 1 - (i + 1)
             /\ q.buf[l].last = TRUE <=> l = n
  <2>1. l \in i .. n /\ l \in Nat
    BY <1>2
  <2>2. q.buf[l].id = m + l + 1 - i /\ (q.buf[l].last = TRUE <=> l = n)
    BY <1>0, <1>1, <1>8, <2>1 DEF Coming
  <2>3. m + l + 1 - i = (m + 1) + l + 1 - (i + 1)
    BY <1>2, <2>1, NextOnes
  <2>4. QED
    BY <1>6, <2>2, <2>3
<1>10. Coming(q, i + 1, n)
  BY <1>9 DEF Coming
<1>11. \A j \in Nat : m + (n - i + 1) + j = (m + 1) + (n - i) + j
  BY <1>2, NextOnes
<1>12. After(q, n - i)
  <2>1. CASE q.open = r.open /\ q.kernel = r.kernel
    <3>1. Len(r.kernel) \in Nat
      BY DEF Watch
    <3>2. ASSUME NEW j \in 1 .. Len(r.kernel)
          PROVE  r.kernel[j] = (m + 1) + (n - i) + j
      <4>1. j \in Nat
        BY <3>1
      <4>2. r.kernel[j] = m + (n - i + 1) + j
        BY <1>0, <1>1 DEF After
      <4>3. QED
        BY <1>11, <4>1, <4>2
    <3>3. r.open = TRUE => Len(r.seen) = (m + 1) + (n - i) + Len(r.kernel)
      BY <1>0, <1>1, <1>11, <3>1 DEF After
    <3>4. QED
      BY <1>6, <1>8, <2>1, <3>2, <3>3 DEF After
  <2>2. CASE q.open = FALSE /\ q.kernel = <<>>
    BY <2>2 DEF After
  <2>3. QED
    BY <2>1, <2>2 DEF Stays
<1>13. QED
  BY <1>5, <1>7, <1>10, <1>12 DEF PastEntry

\* What an entry makes of the state when the reader comes to it.
Entered(w, e) == Effect([State EXCEPT !.watch[w].told = Append(@, e.id)], w, watch[w].seen[e.id])

\* The entry is come to, and has its effect: s is the state after that.
EntryRead(s, w) ==
  /\ s \in States /\ s.watches = watches /\ s.port = port
  /\ s.watch[w] \in Watch /\ SameLog(watch[w], s.watch[w]) /\ SameRead(watch[w], s.watch[w])
  /\ s.watch[w].failed = watch[w].failed
  /\ s.watch[w].told = Append(watch[w].told, watch[w].buf[rd.i].id)
  /\ \A v \in Watches : v # w => Alike(watch[v], s.watch[v])
  /\ \A v \in Ids : v \notin Watches => s.watch[v] = None

LEMMA EntryReadDoes ==
  ASSUME IInv, NEW w \in Watches, Reading(w), NEW e, e = watch[w].buf[rd.i],
         NEW s, s = Entered(w, e)
  PROVE  EntryRead(s, w)
<1>1. /\ watch \in [Ids -> Watch \cup {None}] /\ watches \in [Folders -> Ids \cup {None}]
      /\ port \in Seq(Packets) /\ w \in Ids
      /\ rd \in [pc : {"parse"}, w : Ids, i : Nat, n : Nat] /\ rd.i \in 1 .. rd.n
  BY Made DEF IInv, TypeOK, WatchTypeOK, PortTypeOK, Reading
<1>2. PICK r \in Watch : r = watch[w]
  BY Made DEF IInv, TypeOK
<1>3. Stored(r) /\ rd.n <= Len(r.buf)
  BY <1>2 DEF IInv, Sound, BufferOK
<1>4. PICK i \in 1 .. Len(r.buf) : i = rd.i
  <2>1. Len(r.buf) \in Nat /\ rd.i \in Nat /\ rd.n \in Nat
    BY <1>1, <1>2 DEF Watch
  <2>2. QED
    BY <1>1, <1>3, <2>1
<1>5. e.id \in 1 .. Len(r.seen) /\ e = r.buf[i]
  <2>1. e = r.buf[i]
    BY <1>2, <1>4
  <2>2. QED
    BY <1>3, <2>1 DEF Stored
<1>6. PICK a \in Acts : a = watch[w].seen[e.id]
  BY <1>2, <1>5 DEF Watch
<1>7. PICK told \in Seq(Nat) : told = Append(r.told, e.id)
  <2>1. r.told \in Seq(Nat) /\ r.seen \in Seq(Acts) /\ Len(r.seen) \in Nat
    <3>1. r.told \in Seq(Nat) /\ r.seen \in Seq(Acts)
      BY DEF Watch
    <3>2. QED
      BY <3>1
  <2>2. e.id \in Nat
    BY <1>5, <2>1
  <2>3. QED
    BY <2>1, <2>2, AppendProperties
<1>8. PICK q : q = [r EXCEPT !.told = told]
  OBVIOUS
<1>9. /\ q \in Watch /\ SameLog(r, q) /\ SameRead(r, q) /\ q.failed = r.failed /\ q.told = told
  BY <1>8 DEF Watch, SameLog, SameRead
<1>10. PICK x \in States : x = State /\ x.watch = watch /\ x.watches = watches /\ x.port = port
  <2>1. State \in States /\ State.watch = watch /\ State.watches = watches /\ State.port = port
    BY <1>1 DEF State, States
  <2>2. QED
    BY <2>1
<1>11. PICK y : y = [x EXCEPT !.watch[w] = q]
  OBVIOUS
<1>12. [State EXCEPT !.watch[w].told = Append(@, e.id)] = y
  BY <1>1, <1>2, <1>7, <1>8, <1>10, <1>11 DEF States
<1>13. /\ y \in States /\ y.watch[w] = q /\ y.watches = watches /\ y.port = port
       /\ \A v \in Ids : v # w => y.watch[v] = watch[v]
  BY <1>1, <1>9, <1>10, <1>11, WithWatch
<1>14. s = Effect(y, w, a)
  BY <1>6, <1>12 DEF Entered
<1>15. Spares(y, s)
  BY <1>1, <1>9, <1>13, <1>14, EffectDoes
<1>16. Alike(q, s.watch[w])
  BY <1>1, <1>9, <1>13, <1>15 DEF Spares
<1>17. /\ s.watch[w] \in Watch /\ SameLog(r, s.watch[w]) /\ SameRead(r, s.watch[w])
       /\ s.watch[w].failed = r.failed /\ s.watch[w].told = told
  BY <1>9, <1>16 DEF Alike, SameTold, SameLog, SameRead
<1>18. ASSUME NEW v \in Watches, v # w
       PROVE  Alike(watch[v], s.watch[v])
  <2>1. v \in Ids /\ watch[v] \in Watch
    BY Made DEF IInv, TypeOK
  <2>2. QED
    BY <1>13, <1>15, <1>18, <2>1 DEF Spares
<1>19. ASSUME NEW v \in Ids, v \notin Watches
       PROVE  s.watch[v] = None
  <2>1. watch[v] = None /\ v # w
    BY <1>19 DEF Watches
  <2>2. QED
    BY <1>13, <1>15, <2>1 DEF Spares
<1>20. told = Append(watch[w].told, watch[w].buf[rd.i].id)
  BY <1>2, <1>7
<1>21. QED
  BY <1>2, <1>13, <1>15, <1>17, <1>18, <1>19, <1>20 DEF EntryRead, Spares

\* The reader is in the chain behind the entry, whether it goes on in the buffer
\* or was at the end of it.
LEMMA EntryOrdered ==
  ASSUME IInv, NEW w \in Watches, Reading(w), Stays(watch[w], watch'[w]),
         watch'[w].told = Append(watch[w].told, watch[w].buf[rd.i].id),
         NEW N, Shift(0, N), \A x \in N : ~ (x.for = w /\ x.st = "ok"),
         NEW last \in BOOLEAN, last = watch[w].buf[rd.i].last,
         IF Ends(last) THEN rd' = [pc |-> "get"] ELSE rd' = [rd EXCEPT !.i = @ + 1]
  PROVE  Ordered(w)'
<1>1. PICK r \in Watch : r = watch[w]
  BY Made DEF IInv, TypeOK
<1>2. PICK q : q = watch'[w]
  OBVIOUS
<1>3. SUFFICES ASSUME r.overflowed = FALSE, r.overwritten = FALSE
      PROVE  (\A k \in 1 .. Len(q.told) : q.told[k] = k) /\ Chain(w)'
  <2>1. q.overflowed = r.overflowed /\ q.overwritten = r.overwritten
    BY <1>1, <1>2 DEF Stays, SameLog
  <2>2. QED
    BY <1>2, <2>1 DEF Ordered
<1>4. rd.pc = "parse"
  BY DEF Reading
<1>5. (\A k \in 1 .. Len(r.told) : r.told[k] = k) /\ Chain(w)
  BY <1>1, <1>3, <1>4 DEF IInv, Sound, Ordered
<1>6. /\ rd \in [pc : {"parse"}, w : Ids, i : Nat, n : Nat] /\ rd.i \in 1 .. rd.n
      /\ port \in Seq(Packets)
  BY <1>4 DEF IInv, TypeOK, PortTypeOK
<1>7. PICK n \in Nat : n = rd.n
  BY <1>6
<1>8. PICK i \in 1 .. n : i = rd.i
  BY <1>6, <1>7
<1>9. Coming(r, i, n) /\ After(r, n - i + 1) /\ \A j \in 1 .. Len(port) : ~Ended(j, w)
  BY <1>1, <1>5, <1>7, <1>8 DEF Chain
<1>10. Stays(r, q) /\ q.told = Append(r.told, r.buf[i].id)
  BY <1>1, <1>2, <1>8
<1>11. /\ \A k \in 1 .. Len(q.told) : q.told[k] = k
       /\ r.buf[i].last = TRUE <=> i = n
       /\ Coming(q, i + 1, n) /\ After(q, n - i)
  <2>1. AtEntry(r, i, n)
    BY <1>5, <1>9 DEF AtEntry
  <2>2. PastEntry(r, q, i, n)
    BY <1>10, <2>1, EntryComes
  <2>3. QED
    BY <2>2 DEF PastEntry
<1>12. ASSUME NEW j \in 1 .. Len(port')
       PROVE  ~Ended(j, w)'
  <2>1. SUFFICES ASSUME Ended(j, w)'
        PROVE  FALSE
    OBVIOUS
  <2>2. j + 0 \in 1 .. Len(port) /\ port[j + 0] = port'[j]
    BY <2>1 DEF Shift, Ended
  <2>3. QED
    BY <1>9, <2>1, <2>2 DEF Ended
<1>13. Ends(last) <=> i = n
  BY <1>1, <1>7, <1>8, <1>11 DEF Ends
<1>14. CASE i = n
  <2>1. ~Reading(w)'
    BY <1>13, <1>14 DEF Reading
  <2>2. n - i = 0
    BY <1>14
  <2>3. QED
    BY <1>2, <1>11, <1>12, <2>1, <2>2 DEF Chain
<1>15. CASE i # n
  <2>1. rd'.i = i + 1 /\ rd'.n = n
    BY <1>6, <1>7, <1>8, <1>13, <1>15
  <2>2. i \in Nat /\ n \in Nat
    BY <1>8
  <2>3. n - (i + 1) + 1 = n - i
    BY <2>2
  <2>4. Reading(w)'
    BY <1>4, <1>6, <1>13, <1>15 DEF Reading
  <2>5. Coming(watch'[w], rd'.i, rd'.n) /\ After(watch'[w], rd'.n - rd'.i + 1)
    BY <1>2, <1>11, <2>1, <2>3
  <2>6. QED
    BY <1>11, <1>12, <2>4, <2>5 DEF Chain
<1>16. QED
  BY <1>11, <1>14, <1>15

\* A step of the reader at an entry: t is the state after it.
LEMMA EntryKeeps ==
  ASSUME IInv, NEW w \in Watches, Reading(w), NEW s, EntryRead(s, w),
         NEW last \in BOOLEAN, last = watch[w].buf[rd.i].last, NEW t, Become(t),
         IF Ends(last) THEN rd' = [pc |-> "get"] /\ Started(s, t, w)
         ELSE rd' = [rd EXCEPT !.i = @ + 1] /\ t = s,
         left' \in [calls : Nat, changes : Nat, faults : Nat], UNCHANGED <<place, used>>
  PROVE  IInv'
<1>1. /\ WatchTypeOK /\ PortTypeOK /\ port \in Seq(Packets) /\ w \in Ids /\ watch[w] \in Watch
      /\ Sound(w)
  BY Made DEF IInv, TypeOK, PortTypeOK
<1>2. /\ rd.pc = "parse" /\ rd \in [pc : {"parse"}, w : Ids, i : Nat, n : Nat]
      /\ rd.i \in 1 .. rd.n /\ rd.w = w
  BY <1>1 DEF PortTypeOK, Reading
<1>3. /\ s \in States /\ s.watches = watches /\ s.port = port /\ s.watch[w] \in Watch
      /\ SameLog(watch[w], s.watch[w]) /\ SameRead(watch[w], s.watch[w])
      /\ s.watch[w].failed = watch[w].failed
      /\ s.watch[w].told = Append(watch[w].told, watch[w].buf[rd.i].id)
  BY DEF EntryRead
<1>4. /\ t \in States /\ t.watch[w] \in Watch /\ SameLog(watch[w], t.watch[w])
      /\ t.watch[w].failed = watch[w].failed /\ t.watch[w].told = s.watch[w].told
      /\ t.port = port \/ t.port = Append(port, Aborted(w))
      /\ \A v \in Ids : v # w => t.watch[v] = s.watch[v]
      /\ \A f \in Folders : t.watches[f] = watches[f] \/ t.watches[f] = None
  <2>1. CASE t = s
    BY <1>3, <2>1
  <2>2. CASE Started(s, t, w)
    <3>1. /\ t \in States /\ t.watch[w] \in Watch /\ SameTold(s.watch[w], t.watch[w])
          /\ \A v \in Ids : v # w => t.watch[v] = s.watch[v]
      BY <2>2 DEF Started, Touches, Kept
    <3>2. /\ SameLog(watch[w], t.watch[w]) /\ t.watch[w].failed = watch[w].failed
          /\ t.watch[w].told = s.watch[w].told
      BY <1>3, <3>1 DEF SameTold, SameLog
    <3>3. t.port = port \/ t.port = Append(port, Aborted(w))
      BY <1>3, <2>2 DEF Started
    <3>4. \A f \in Folders : t.watches[f] = watches[f] \/ t.watches[f] = None
      BY <1>1, <1>3, <2>2 DEF Started, Shut, WatchTypeOK
    <3>5. QED
      BY <3>1, <3>2, <3>3, <3>4
  <2>3. QED
    BY <2>1, <2>2
<1>5. watch' = t.watch /\ watches' = t.watches /\ port' = t.port
  BY DEF Become
<1>6. PICK N : N = {Aborted(w)}
  OBVIOUS
<1>7. Shift(0, N) /\ 0 \in Nat
  <2>1. CASE port' = port
    BY <1>1, <2>1, ShiftSame DEF Shift
  <2>2. CASE port' = Append(port, Aborted(w))
    BY <1>1, <1>6, <2>2, ShiftAppend
  <2>3. QED
    BY <1>4, <1>5, <2>1, <2>2
<1>8. \A x \in N : ~ (x.for = w /\ x.st = "ok")
  BY <1>6 DEF Aborted
<1>9. Stays(watch[w], watch'[w])
  <2>1. s.watch[w].pending = TRUE => s.watch[w].open = TRUE
    BY <1>1, <1>3 DEF Sound, BufferOK, Stored, SameRead
  <2>2. CASE t = s
    BY <1>1, <1>3, <1>4, <1>5, <2>1, <2>2 DEF Stays, SameRead
  <2>3. CASE Started(s, t, w)
    BY <1>1, <1>3, <1>4, <1>5, <2>3 DEF Stays, SameRead, Started, Shut
  <2>4. QED
    BY <2>2, <2>3
<1>10. Listens(w)'
  <2>1. CASE Ends(last)
    <3>1. watch[w].ino \in Folders /\ w # None /\ watches \in [Folders -> Ids \cup {None}]
      BY <1>1, WatchesAssumption DEF Watch, WatchTypeOK
    <3>2. s.watch[w].ino = watch[w].ino /\ watch'[w].ino = watch[w].ino
      BY <1>3, <1>4, <1>5 DEF SameLog
    <3>3. watch'[w].pending = TRUE \/ watches' = [watches EXCEPT ![watch[w].ino] = None]
      BY <1>3, <1>5, <2>1, <3>2 DEF Started, Shut
    <3>4. QED
      BY <3>1, <3>2, <3>3 DEF Listens, InMap
  <2>2. CASE ~Ends(last)
    BY <1>2, <2>2 DEF Listens, Reading
  <2>3. QED
    BY <2>1, <2>2
<1>11. BufferOK(w)'
  <2>1. Reading(w)' => Reading(w) /\ rd'.n = rd.n
    <3>1. CASE Ends(last)
      BY <3>1 DEF Reading
    <3>2. CASE ~Ends(last)
      BY <1>2, <3>2
    <3>3. QED
      BY <3>1, <3>2
  <2>2. QED
    BY <1>1, <1>7, <1>8, <1>9, <2>1, BufferStays DEF Sound
<1>12. Ordered(w)'
  <2>1. watch'[w].told = Append(watch[w].told, watch[w].buf[rd.i].id)
    BY <1>3, <1>4, <1>5
  <2>2. IF Ends(last) THEN rd' = [pc |-> "get"] ELSE rd' = [rd EXCEPT !.i = @ + 1]
    OBVIOUS
  <2>3. QED
    BY <1>7, <1>8, <1>9, <2>1, <2>2, EntryOrdered
<1>13. Sound(w)'
  BY <1>10, <1>11, <1>12 DEF Sound
<1>14. ASSUME NEW v \in Watches, v # w
       PROVE  Alike(watch[v], t.watch[v])
  <2>1. v \in Ids
    BY <1>1, Made
  <2>2. QED
    BY <1>4, <1>14, <2>1 DEF EntryRead
<1>15. ASSUME NEW v \in Ids, v \notin Watches
       PROVE  t.watch[v] = None
  BY <1>4, <1>15 DEF EntryRead
<1>16. \A j \in 1 .. Len(port) :
         j > 0 \/ port[j].for = w \/ port[j].st \notin {"ok", "denied", "error"}
  OBVIOUS
<1>17. /\ rd' \in [pc : {"get", "closed"}] \cup [pc : {"parse"}, w : Ids, i : Nat, n : Nat]
       /\ rd'.pc = "parse" => rd'.w \in Watches /\ rd'.i \in 1 .. rd'.n
       /\ rd.pc # "closed"
       /\ \A v \in Ids : v # w => (Reading(v)' <=> Reading(v)) /\ (Reading(v) => rd' = rd)
  <2>1. CASE Ends(last)
    BY <1>2, <2>1 DEF Reading
  <2>2. CASE ~Ends(last)
    <3>1. PICK n \in Nat : n = rd.n
      BY <1>2
    <3>2. PICK i \in Nat : i = rd.i /\ i \in 1 .. n
      BY <1>2, <3>1
    <3>3. i # n
      BY <2>2, <3>1, <3>2 DEF Ends
    <3>4. i + 1 \in Nat /\ i + 1 \in 1 .. n
      BY <3>1, <3>2, <3>3
    <3>5. /\ rd' \in [pc : {"parse"}, w : Ids, i : Nat, n : Nat]
          /\ rd'.pc = "parse" /\ rd'.w = w /\ rd'.i = i + 1 /\ rd'.n = n
      BY <1>2, <2>2, <3>1, <3>2, <3>4
    <3>6. QED
      BY <1>2, <3>4, <3>5 DEF Reading
  <2>3. QED
    BY <2>1, <2>2
<1>18. t.watch[w].ino = watch[w].ino
  BY <1>4 DEF SameLog
<1>19. t \in States /\ t.watch[w] \in Watch
  BY <1>4
<1>20. \A f \in Folders : t.watches[f] = watches[f] \/ t.watches[f] = None
  BY <1>4
<1>21. QED
  BY <1>6, <1>7, <1>13, <1>14, <1>15, <1>16, <1>17, <1>18, <1>19, <1>20, TouchStep

LEMMA ParseKeeps ==
  ASSUME IInv, Parse
  PROVE  IInv'
<1>1. PortTypeOK /\ rd.pc = "parse" /\ UNCHANGED <<place, used>>
  BY DEF IInv, TypeOK, Parse
<1>2. PICK w \in Watches : w = rd.w /\ Reading(w)
  BY <1>1 DEF PortTypeOK, Reading
<1>3. PICK r \in Watch : r = watch[w]
  BY Made DEF IInv, TypeOK
<1>4. PICK e : e = watch[w].buf[rd.i]
  OBVIOUS
<1>5. PICK s : s = Entered(w, e)
  OBVIOUS
<1>6. EntryRead(s, w)
  BY <1>2, <1>4, <1>5, EntryReadDoes
<1>7. e.last \in BOOLEAN
  <2>1. /\ rd.i \in Nat /\ rd.n \in Nat /\ rd.i \in 1 .. rd.n /\ Len(r.buf) \in Nat
        /\ r.buf \in Seq(Entries)
    BY <1>1 DEF PortTypeOK, Watch
  <2>2. rd.n <= Len(r.buf)
    BY <1>2, <1>3 DEF IInv, Sound, BufferOK
  <2>3. rd.i \in 1 .. Len(r.buf)
    BY <2>1, <2>2
  <2>4. e \in Entries
    BY <1>3, <1>4, <2>1, <2>3
  <2>5. QED
    BY <2>4 DEF Entries
<1>8. PICK last \in BOOLEAN : last = e.last /\ last = watch[w].buf[rd.i].last
  BY <1>4, <1>7
<1>9. IF Ends(last)
      THEN /\ rd' = [pc |-> "get"]
           /\ \E fails \in Attempts : Become(StartRead(s, w, fails)) /\ Attempt(fails)
      ELSE rd' = [rd EXCEPT !.i = @ + 1] /\ Become(s) /\ UNCHANGED left
  BY <1>2, <1>4, <1>5, <1>8 DEF Parse, Restart, Entered
<1>10. CASE Ends(last)
  <2>1. PICK fails \in Attempts : Become(StartRead(s, w, fails)) /\ Attempt(fails)
    BY <1>9, <1>10
  <2>2. PICK t : t = StartRead(s, w, fails)
    OBVIOUS
  <2>3. Started(s, t, w)
    <3>1. s \in States /\ s.watch[w] \in Watch /\ w \in Ids
      BY <1>6, Made DEF EntryRead, IInv, TypeOK
    <3>2. QED
      BY <2>2, <3>1, StartReadDoes
  <2>4. Become(t)
    BY <2>1, <2>2
  <2>5. left' \in [calls : Nat, changes : Nat, faults : Nat]
    BY <1>1, <2>1, AttemptTypes
  <2>6. IF Ends(last) THEN rd' = [pc |-> "get"] /\ Started(s, t, w)
        ELSE rd' = [rd EXCEPT !.i = @ + 1] /\ t = s
    BY <1>9, <1>10, <2>3
  <2>7. QED
    BY <1>1, <1>2, <1>6, <1>8, <2>4, <2>5, <2>6, EntryKeeps
<1>11. CASE ~Ends(last)
  <2>1. Become(s) /\ left' \in [calls : Nat, changes : Nat, faults : Nat]
    BY <1>1, <1>9, <1>11 DEF PortTypeOK
  <2>2. IF Ends(last) THEN rd' = [pc |-> "get"] /\ Started(s, s, w)
        ELSE rd' = [rd EXCEPT !.i = @ + 1] /\ s = s
    BY <1>9, <1>11
  <2>3. QED
    BY <1>1, <1>2, <1>6, <1>8, <2>1, <2>2, EntryKeeps
<1>12. QED
  BY <1>10, <1>11

\* Nothing is in the map any more, and nothing in the port.
LEMMA CloseKeeps ==
  ASSUME IInv, Close
  PROVE  IInv'
<1>1. TreeTypeOK /\ WatchTypeOK /\ PortTypeOK
  BY DEF IInv, TypeOK
<1>2. /\ watches' = [f \in Folders |-> None] /\ port' = <<>> /\ rd' = [pc |-> "closed"]
      /\ rd.pc = "get" /\ UNCHANGED <<place, used, left>>
      /\ watch' = [w \in Ids |->
                     IF w \in Watches /\ InMap(w)
                     THEN StartRead(DeleteWatch(State, w), w, FALSE).watch[w] ELSE watch[w]]
  BY DEF Close, InMap
<1>3. PICK x \in States : x = State /\ x.watch = watch
  <2>1. State \in States /\ State.watch = watch
    BY <1>1 DEF State, States, WatchTypeOK, PortTypeOK
  <2>2. QED
    BY <2>1
<1>4. ASSUME NEW v \in Watches
      PROVE  /\ watch'[v] \in Watch /\ SameTold(watch[v], watch'[v])
             /\ Stays(watch[v], watch'[v])
  <2>1. v \in Ids /\ watch[v] \in Watch /\ Stored(watch[v])
    BY <1>1, Made DEF IInv, Sound, BufferOK
  <2>2. CASE InMap(v)
    <3>1. PICK s : s = DeleteWatch(x, v)
      OBVIOUS
    <3>2. Touches(x, s, v) /\ SameRead(watch[v], s.watch[v])
      BY <1>3, <2>1, <3>1, DeleteWatchSpares DEF Deleted
    <3>3. s \in States /\ s.watch[v] \in Watch /\ SameTold(watch[v], s.watch[v])
      BY <1>3, <3>2 DEF Touches, Kept
    <3>4. PICK t : t = StartRead(s, v, FALSE)
      OBVIOUS
    <3>5. Started(s, t, v)
      BY <2>1, <3>3, <3>4, StartReadDoes
    <3>6. watch'[v] = t.watch[v]
      BY <1>2, <1>3, <2>1, <2>2, <3>1, <3>4
    <3>7. t.watch[v] \in Watch /\ SameTold(s.watch[v], t.watch[v])
      BY <3>5 DEF Started, Touches, Kept
    <3>8. SameTold(watch[v], t.watch[v])
      BY <3>3, <3>7 DEF SameTold, SameLog
    <3>9. Stays(watch[v], t.watch[v])
      BY <2>1, <3>2, <3>5, <3>7, <3>8 DEF Stays, SameTold, SameRead, Started, Shut
    <3>10. QED
      BY <3>6, <3>7, <3>8, <3>9
  <2>3. CASE ~InMap(v)
    <3>1. watch'[v] = watch[v]
      BY <1>2, <2>1, <2>3
    <3>2. QED
      BY <2>1, <3>1 DEF SameTold, SameLog, Stays, Stored
  <2>4. QED
    BY <2>2, <2>3
<1>5. ASSUME NEW v \in Ids, v \notin Watches
      PROVE  watch'[v] = None
  BY <1>2, <1>5 DEF Watches
<1>6. watch' \in [Ids -> Watch \cup {None}]
  <2>1. \A v \in Ids : watch'[v] \in Watch \cup {None}
    BY <1>4, <1>5
  <2>2. QED
    BY <1>2, <2>1
<1>7. watches' \in [Folders -> Ids \cup {None}] /\ \A f \in Folders : watches'[f] = None
  BY <1>2
<1>8. WatchTypeOK' /\ Watches \subseteq Watches'
  <2>1. \A v \in Watches : watch'[v] \in Watch /\ watch'[v].ino = watch[v].ino
    BY <1>4 DEF SameTold, SameLog
  <2>2. QED
    BY <1>1, <1>6, <1>7, <2>1, WatchTypeStep
<1>9. Watches' \subseteq Watches
  BY <1>5 DEF Watches
<1>10. TreeTypeOK'
  BY <1>1, <1>2 DEF TreeTypeOK
<1>11. PortTypeOK'
  <2>1. port' \in Seq(Packets) /\ DOMAIN port' = {}
    BY <1>2, EmptySeq
  <2>2. rd' \in [pc : {"get", "closed"}] /\ rd'.pc = "closed"
    BY <1>2
  <2>3. left' \in [calls : Nat, changes : Nat, faults : Nat]
    BY <1>1, <1>2 DEF PortTypeOK
  <2>4. QED
    BY <2>1, <2>2, <2>3 DEF PortTypeOK
<1>12. ASSUME NEW v \in Watches
       PROVE  Sound(v)'
  <2>1. watch'[v] \in Watch /\ SameTold(watch[v], watch'[v]) /\ Stays(watch[v], watch'[v])
    BY <1>4
  <2>2. v \in Ids /\ watch[v] \in Watch /\ Sound(v) /\ Stored(watch[v])
    BY <1>1, Made DEF IInv, Sound, BufferOK
  <2>3. Listens(v)'
    <3>1. watch'[v].ino \in Folders /\ v # None
      BY <2>1, <2>2, WatchesAssumption DEF Watch
    <3>2. QED
      BY <1>7, <3>1 DEF Listens, InMap
  <2>4. Len(port') = 0 /\ ~Reading(v)'
    BY <1>2 DEF Reading
  <2>5. BufferOK(v)'
    <3>1. Stored(watch'[v])
      BY <2>1, <2>2 DEF Stored, Stays, SameLog
    <3>2. \A i \in 1 .. Len(port') : FALSE
      BY <2>4
    <3>3. QED
      BY <2>4, <3>1, <3>2 DEF BufferOK
  <2>6. Ordered(v)'
    BY <1>2, <2>1, <2>2 DEF Sound, Ordered, SameTold, SameLog
  <2>7. QED
    BY <2>3, <2>5, <2>6 DEF Sound
<1>13. QED
  BY <1>8, <1>9, <1>10, <1>11, <1>12 DEF IInv, TypeOK
-----------------------------------------------------------------------------
(* The theorems. *)

LEMMA InitHolds ==
  ASSUME Init
  PROVE  IInv
<1> PICK s \in Starts :
      /\ place = s.tree /\ used = s.used
      /\ watch = [w \in Ids |-> None] /\ watches = [n \in Folders |-> None]
      /\ port = <<>> /\ rd = [pc |-> "get"]
      /\ left = [calls |-> s.calls, changes |-> s.changes, faults |-> s.faults]
  BY DEF Init
<1>1. TreeTypeOK
  BY StartsAssumption DEF TreeTypeOK
<1>2. Watches = {}
  BY DEF Watches
<1>3. WatchTypeOK
  BY DEF WatchTypeOK
<1>4. PortTypeOK
  <2>1. port \in Seq(Packets) /\ DOMAIN port = {}
    BY EmptySeq
  <2>2. s.calls \in Nat /\ s.changes \in Nat /\ s.faults \in Nat
    BY StartsAssumption
  <2>3. QED
    BY <2>1, <2>2 DEF PortTypeOK
<1>5. QED
  BY <1>1, <1>2, <1>3, <1>4 DEF IInv, TypeOK

LEMMA StutterKeeps ==
  ASSUME IInv, UNCHANGED vars
  PROVE  IInv'
<1>1. /\ place' = place /\ used' = used /\ watch' = watch /\ watches' = watches
      /\ port' = port /\ rd' = rd /\ left' = left
  BY DEF vars
<1>2. TypeOK' /\ Watches' = Watches
  BY <1>1 DEF IInv, TypeOK, TreeTypeOK, WatchTypeOK, PortTypeOK, Watches
<1>3. ASSUME NEW v \in Watches
      PROVE  Sound(v)'
  <2>1. Sound(v)
    BY DEF IInv
  <2>2. QED
    BY <1>1, <2>1 DEF Sound, Listens, BufferOK, Ordered, Chain, InMap, Reading, Ended, Waits
<1>4. QED
  BY <1>2, <1>3 DEF IInv

LEMMA NextKeeps ==
  ASSUME IInv, Next
  PROVE  IInv'
<1>1. CASE Kernel
  BY <1>1, CompleteKeeps, OverflowKeeps DEF Kernel
<1>2. CASE Reader
  BY <1>2, GetRequestKeeps, GetDeniedKeeps, GetAbortedKeeps, GetErrorKeeps, GetOverflowKeeps,
     GetChangesKeeps, ParseKeeps DEF Reader
<1>3. CASE Environment
  BY <1>3, ModifyKeeps, DeleteKeeps, RenameKeeps, CreateKeeps, FaultKeeps, CallKeeps
     DEF Environment
<1>4. CASE Close
  BY <1>4, CloseKeeps
<1>5. QED
  BY <1>1, <1>2, <1>3, <1>4 DEF Next

\* The types, and for each watch that it listens, that its buffers refer to what is
\* there and that its changes are in one chain, hold in every state.
THEOREM Invariance == Spec => []IInv
<1>1. Init => IInv
  BY InitHolds
<1>2. IInv /\ [Next]_vars => IInv'
  BY NextKeeps, StutterKeeps
<1>3. QED
  BY <1>1, <1>2, PTL DEF Spec

\* Every variable has its type: what is there is in a folder that is there, the map
\* holds a watch of the inode it is asked for, and what is in the port is of a watch
\* that was made (backend_windows.go:327-380, 438-479).
THEOREM TypeCorrect == Spec => []TypeOK
<1>1. IInv => TypeOK
  BY DEF IInv
<1>2. QED
  BY <1>1, Invariance, PTL

\* No watch in the map turns deaf, for any tree, any number of watches, callers and
\* changes: its next read is pending, or the reader has yet to start it
\* (backend_windows.go:446-478, 546-548).
THEOREM NoneIsDeaf == Spec => []WatchesListen
<1>1. ASSUME IInv
      PROVE  WatchesListen
  <2>1. SUFFICES ASSUME NEW w \in Watches, InMap(w), ~watch[w].failed
        PROVE  \/ watch[w].pending
               \/ rd.pc = "parse" /\ rd.w = w
               \/ \E i \in DOMAIN port : port[i].for = w /\ port[i].st # "aborted"
    BY DEF WatchesListen
  <2>2. watch[w] \in Watch /\ Listens(w) /\ DOMAIN port = 1 .. Len(port)
    BY <1>1, Made DEF IInv, TypeOK, PortTypeOK, Sound
  <2>3. watch[w].failed = FALSE
    BY <2>1, <2>2 DEF Watch
  <2>4. QED
    BY <2>1, <2>2, <2>3 DEF Listens, Reading, Waits
<1>2. QED
  BY <1>1, Invariance, PTL

\* The reader comes to the changes of each directory once and in order, as long as
\* no buffer overflowed and none was overwritten (backend_windows.go:550-644).
THEOREM EachOnce == Spec => []ReportedOnce
<1>1. ASSUME IInv
      PROVE  ReportedOnce
  <2>1. SUFFICES ASSUME NEW w \in Watches, ~watch[w].overflowed, ~watch[w].overwritten
        PROVE  InOrder(w)
    BY DEF ReportedOnce
  <2>2. watch[w] \in Watch /\ Ordered(w)
    BY <1>1, Made DEF IInv, TypeOK, Sound
  <2>3. /\ watch[w].overflowed = FALSE /\ watch[w].overwritten = FALSE
        /\ DOMAIN watch[w].told = 1 .. Len(watch[w].told)
    BY <2>1, <2>2 DEF Watch
  <2>4. QED
    BY <2>2, <2>3 DEF Ordered, InOrder
<1>2. QED
  BY <1>1, Invariance, PTL
-----------------------------------------------------------------------------
(* The names that were given, and the paths of the watches. *)

\* own[f][name]: whose this name is, or was, in folder f.
Owners == [Folders -> [Names -> Inodes]]
Given == Dirs \cup Files

\* What there is has a name that was given to it.
Placed(own) ==
  \A n \in Given : Exists(n) => place[n].name \in used /\ own[place[n].in][place[n].name] = n

\* Change i in the directory of watch v: the first half of a rename, of what is no
\* longer called that, and the second half, after which what was renamed is called
\* that until it is renamed again.
IsOld(v, i) == i \in 1 .. Len(watch[v].seen) /\ watch[v].seen[i].act = "old"
IsNew(v, i) == i \in 1 .. Len(watch[v].seen) /\ watch[v].seen[i].act = "new"
NameAt(v, i) == watch[v].seen[i].name
OwnerAt(v, i, own) == own[watch[v].ino][NameAt(v, i)]
Left(v, i, own) ==
  /\ IsNew(v, i + 1) /\ OwnerAt(v, i + 1, own) = OwnerAt(v, i, own)
  /\ \A n \in Given : Exists(n) /\ place[n].in = watch[v].ino => place[n].name # NameAt(v, i)
Came(v, i, own) ==
  /\ IsOld(v, i - 1) /\ OwnerAt(v, i, own) \in Given /\ place[OwnerAt(v, i, own)] # New
  /\ \A n \in Given :
       n = OwnerAt(v, i, own) /\ Exists(n) /\ place[n].in = watch[v].ino /\ watch[v].open = TRUE =>
         place[n].name = NameAt(v, i) \/ \E j \in Nat : j > i /\ IsOld(v, j) /\ NameAt(v, j) = NameAt(v, i)
Story(v, own) ==
  /\ \A i \in 1 .. Len(watch[v].seen) : NameAt(v, i) \in used
  /\ \A i \in Nat : IsOld(v, i) => Left(v, i, own)
  /\ \A i \in Nat : IsNew(v, i) => Came(v, i, own)

\* Two watches of one directory saw the same renames, as far as they saw them.
Agree(u, v) ==
  watch[u].ino = watch[v].ino => \A i, j \in Nat :
    IsOld(u, i) /\ IsOld(v, j) /\ NameAt(u, i) = NameAt(v, j) => NameAt(u, i + 1) = NameAt(v, j + 1)
NamesInv(own) == /\ Placed(own) /\ \A v \in Watches : Story(v, own)
                 /\ \A u, v \in Watches : Agree(u, v)

\* The reader knows the old name when it comes to the new one.
Remembers(v) ==
  /\ Len(watch[v].told) <= Len(watch[v].seen)
  /\ IsOld(v, Len(watch[v].told)) => watch[v].rename = NameAt(v, Len(watch[v].told))

\* The paths are of names that were given, and the first is of what is in the root.
Rooted(v, own) ==
  /\ \A i \in 1 .. Len(watch[v].path) : watch[v].path[i] \in used
  /\ watch[v].ino = Root => watch[v].path = <<>>
  /\ watch[v].ino # Root => Len(watch[v].path) >= 1
  /\ watch[v].ino # Root /\ Len(watch[v].path) = 1 => own[Root][watch[v].path[1]] = watch[v].ino

\* Directory d has the name m as far as the reader has got in the directory it is in.
Ahead(d, m, own) ==
  /\ m \in used /\ own[place[d].in][m] = d
  /\ \/ place[d].name = m
     \/ \E i \in Nat : /\ i >= Len(watch[watches[place[d].in]].told)
                       /\ IsOld(watches[place[d].in], i) /\ NameAt(watches[place[d].in], i) = m
Watched(d) ==
  /\ d \in Dirs /\ Exists(d) /\ Older(place[d].in, d)
  /\ place[d].in # Root => Older(Root, place[d].in) /\ watch[watches[d]].along = TRUE
Follows(d, own) ==
  \E m \in Names : /\ Ahead(d, m, own)
                   /\ watch[watches[d]].path = Append(watch[watches[place[d].in]].path, m)
PathInv(own) == /\ \A v \in Watches : Remembers(v) /\ Rooted(v, own)
                /\ \A d \in Dirs : Watched(d) => Follows(d, own)

\* A watch in the map is open, is of what was made, and is newer than those before.
MapInv == /\ \A v \in Watches : InMap(v) => watch[v].open = TRUE
          /\ \A v \in Watches : watch[v].ino # Root => place[watch[v].ino] # New
          /\ \A v \in Watches, u \in Ids : u < v => u \in Watches

Clean == /\ used \cap {pair[1] : pair \in DOMAIN Rest} = {}
         /\ \A w \in Watches : watch[w].overflowed = FALSE /\ watch[w].overwritten = FALSE
PInv == MapInv /\ (Clean => \E own \in Owners : NamesInv(own) /\ PathInv(own))

\* What a step makes of the map and of the handles: watches leave, and none is added.
MapStep ==
  /\ Watches' = Watches
  /\ \A f \in Folders : watches'[f] = watches[f] \/ watches'[f] = None
  /\ \A v \in Watches :
       /\ watch'[v].ino = watch[v].ino /\ watch'[v].along = watch[v].along
       /\ watch'[v].open = TRUE => watch[v].open = TRUE
       /\ InMap(v)' /\ watch[v].open = TRUE => watch'[v].open = TRUE
       /\ watch[v].overflowed = TRUE => watch'[v].overflowed = TRUE
       /\ watch[v].overwritten = TRUE => watch'[v].overwritten = TRUE

LEMMA StaysInMap ==
  ASSUME TypeOK, MapStep, NEW v \in Watches, InMap(v)'
  PROVE  InMap(v) /\ watches'[watch[v].ino] = watches[watch[v].ino]
<1>1. v \in Ids /\ watch[v] \in Watch
  BY Made DEF TypeOK
<1>2. watch[v].ino \in Folders /\ v # None
  BY <1>1, WatchesAssumption DEF Watch
<1>3. watch'[v].ino = watch[v].ino
  BY DEF MapStep
<1>4. watches'[watch[v].ino] = v
  BY <1>3 DEF InMap
<1>5. QED
  BY <1>2, <1>4 DEF MapStep, InMap

LEMMA MapStays ==
  ASSUME TypeOK, MapStep, MapInv, \A n \in Given : place[n] # New => place'[n] # New
  PROVE  MapInv'
<1>1. ASSUME NEW v \in Watches, InMap(v)'
      PROVE  watch'[v].open = TRUE
  BY <1>1, StaysInMap DEF MapInv, MapStep
<1>2. ASSUME NEW v \in Watches, watch'[v].ino # Root
      PROVE  place'[watch'[v].ino] # New
  <2>1. watch'[v].ino = watch[v].ino /\ watch[v].ino \in Folders
    BY Made DEF TypeOK, MapStep, Watch
  <2>2. watch[v].ino \in Given
    BY <1>2, <2>1 DEF Folders, Given
  <2>3. QED
    BY <1>2, <2>1, <2>2 DEF MapInv
<1>3. Watches' = Watches
  BY DEF MapStep
<1>4. QED
  BY <1>1, <1>2, <1>3 DEF MapInv

\* Clean says of the past that it was: if it holds after a step, it did before.
LEMMA CleanBefore ==
  ASSUME TypeOK, Clean', used \subseteq used', Watches \subseteq Watches',
         \A v \in Watches : /\ watch[v].overflowed = TRUE => watch'[v].overflowed = TRUE
                            /\ watch[v].overwritten = TRUE => watch'[v].overwritten = TRUE
  PROVE  Clean
<1>1. ASSUME NEW v \in Watches
      PROVE  watch[v].overflowed = FALSE /\ watch[v].overwritten = FALSE
  <2>1. watch[v].overflowed \in BOOLEAN /\ watch[v].overwritten \in BOOLEAN
    BY Made DEF TypeOK, Watch
  <2>2. watch'[v].overflowed = FALSE /\ watch'[v].overwritten = FALSE
    BY DEF Clean
  <2>3. QED
    BY <2>1, <2>2
<1>2. used \cap {pair[1] : pair \in DOMAIN Rest} = {}
  BY DEF Clean
<1>3. QED
  BY <1>1, <1>2 DEF Clean

\* What was seen stays seen, and a new watch has seen nothing.
SeenStays(v) == /\ v \in Watches /\ watch'[v].ino = watch[v].ino /\ watch'[v].seen = watch[v].seen
                /\ watch'[v].open = TRUE => watch[v].open = TRUE
SeesNothing(v) == watch[v].seen = <<>>

LEMMA NothingSeen ==
  ASSUME NEW v, SeesNothing(v)
  PROVE  \A i \in Nat : ~IsOld(v, i) /\ ~IsNew(v, i)
<1>1. Len(watch[v].seen) = 0
  BY DEF SeesNothing
<1>2. QED
  BY <1>1 DEF IsOld, IsNew

LEMMA StoryStays ==
  ASSUME NEW own \in Owners, NEW v, SeenStays(v), Story(v, own), UNCHANGED <<place, used>>
  PROVE  Story(v, own)'
<1>1. ASSUME NEW i
      PROVE  /\ IsOld(v, i)' <=> IsOld(v, i)
             /\ IsNew(v, i)' <=> IsNew(v, i)
             /\ NameAt(v, i)' = NameAt(v, i)
             /\ OwnerAt(v, i, own)' = OwnerAt(v, i, own)
  BY DEF SeenStays, IsOld, IsNew, NameAt, OwnerAt
<1>2. \A n \in Given : Exists(n)' <=> Exists(n)
  BY DEF Exists
<1>3. ASSUME NEW i \in 1 .. Len(watch'[v].seen)
      PROVE  NameAt(v, i)' \in used'
  BY <1>1 DEF SeenStays, Story
<1>4. ASSUME NEW i \in Nat, IsOld(v, i)'
      PROVE  Left(v, i, own)'
  <2>1. Left(v, i, own)
    BY <1>1, <1>4 DEF Story
  <2>2. QED
    BY <1>1, <1>2, <2>1 DEF Left, SeenStays
<1>5. ASSUME NEW i \in Nat, IsNew(v, i)'
      PROVE  Came(v, i, own)'
  <2>1. Came(v, i, own)
    BY <1>1, <1>5 DEF Story
  <2>2. QED
    BY <1>1, <1>2, <2>1 DEF Came, SeenStays
<1>6. QED
  BY <1>3, <1>4, <1>5 DEF Story

LEMMA NamesStay ==
  ASSUME NEW own \in Owners, NamesInv(own), UNCHANGED <<place, used>>,
         \A v \in Watches' : SeenStays(v) \/ SeesNothing(v)'
  PROVE  NamesInv(own)'
<1>1. Placed(own)'
  BY DEF NamesInv, Placed, Exists
<1>2. ASSUME NEW v \in Watches'
      PROVE  Story(v, own)'
  <2>1. CASE SeenStays(v)
    BY <2>1, StoryStays DEF NamesInv, SeenStays
  <2>2. CASE SeesNothing(v)'
    <3>1. Len(watch'[v].seen) = 0
      BY <2>2 DEF SeesNothing
    <3>2. \A i \in Nat : ~IsOld(v, i)' /\ ~IsNew(v, i)'
      BY <3>1 DEF IsOld, IsNew
    <3>3. QED
      BY <3>1, <3>2 DEF Story
  <2>3. QED
    BY <1>2, <2>1, <2>2
<1>3. ASSUME NEW u \in Watches', NEW v \in Watches'
      PROVE  Agree(u, v)'
  <2>1. CASE SeesNothing(u)' \/ SeesNothing(v)'
    <3>1. Len(watch'[u].seen) = 0 \/ Len(watch'[v].seen) = 0
      BY <2>1 DEF SeesNothing
    <3>2. \A i, j \in Nat : ~(IsOld(u, i)' /\ IsOld(v, j)')
      BY <3>1 DEF IsOld
    <3>3. QED
      BY <3>2 DEF Agree
  <2>2. CASE SeenStays(u) /\ SeenStays(v)
    <3>1. Agree(u, v)
      BY <2>2 DEF NamesInv, SeenStays
    <3>2. \A i \in Nat : /\ IsOld(u, i)' <=> IsOld(u, i)
                         /\ IsOld(v, i)' <=> IsOld(v, i)
      BY <2>2 DEF SeenStays, IsOld
    <3>3. \A i : NameAt(u, i)' = NameAt(u, i) /\ NameAt(v, i)' = NameAt(v, i)
      BY <2>2 DEF SeenStays, NameAt
    <3>4. watch'[u].ino = watch[u].ino /\ watch'[v].ino = watch[v].ino
      BY <2>2 DEF SeenStays
    <3>5. QED
      BY <3>1, <3>2, <3>3, <3>4 DEF Agree
  <2>3. QED
    BY <1>3, <2>1, <2>2
<1>4. QED
  BY <1>1, <1>2, <1>3 DEF NamesInv


LEMMA FolderFacts ==
  ASSUME TypeOK, NEW n \in Given, Exists(n)
  PROVE  /\ place[n] \in Place /\ place[n] \notin {New, Gone}
         /\ place[n].in \in Folders /\ place[n].name \in Names
         /\ place[n].in # Root =>
              /\ place[n].in \in Dirs /\ Exists(place[n].in) /\ place[place[n].in].in = Root
<1>1. n # Root /\ n \in Dirs \cup Files
  BY WatchesAssumption DEF Given
<1>2. place[n] \notin {New, Gone}
  BY <1>1 DEF Exists
<1>3. place \in [Dirs \cup Files -> Place \cup {New, Gone}] /\ Nested(place)
  BY DEF TypeOK, TreeTypeOK
<1>4. place[n] \in Place
  BY <1>1, <1>2, <1>3
<1>5. place[n].in \in Folders /\ place[n].name \in Names
  BY <1>4 DEF Place
<1>6. ASSUME place[n].in # Root
      PROVE  place[n].in \in Dirs /\ Exists(place[n].in) /\ place[place[n].in].in = Root
  <2>1. place[n].in \in Dirs
    BY <1>5, <1>6 DEF Folders
  <2>2. place[place[n].in] \notin {New, Gone} /\ place[place[n].in].in = Root
    BY <1>1, <1>2, <1>3, <1>6 DEF Nested
  <2>3. QED
    BY <2>1, <2>2 DEF Exists
<1>7. QED
  BY <1>2, <1>4, <1>5, <1>6

\* The watches of a watched directory, and of the one it is in.
LEMMA WatchedFacts ==
  ASSUME TypeOK, NEW d \in Dirs, Watched(d)
  PROVE  /\ Exists(d) /\ place[d].in \in Folders
         /\ watches[d] \in Watches /\ watch[watches[d]].ino = d
         /\ watches[place[d].in] \in Watches /\ watch[watches[place[d].in]].ino = place[d].in
         /\ InMap(watches[d]) /\ InMap(watches[place[d].in])
         /\ place[d].in # Root => /\ Watched(place[d].in) /\ place[d].in \in Dirs
                                  /\ place[place[d].in].in = Root
<1>1. Exists(d) /\ Older(place[d].in, d)
  BY DEF Watched
<1>2. /\ place[d].in \in Folders
      /\ place[d].in # Root =>
           place[d].in \in Dirs /\ Exists(place[d].in) /\ place[place[d].in].in = Root
  BY <1>1, FolderFacts DEF Given
<1>3. d \in Folders /\ watches[d] # None /\ watches[place[d].in] # None
  BY <1>1 DEF Older, Folders
<1>4. /\ watches[d] \in Watches /\ watch[watches[d]].ino = d
      /\ watches[place[d].in] \in Watches /\ watch[watches[place[d].in]].ino = place[d].in
  BY <1>2, <1>3 DEF TypeOK, WatchTypeOK
<1>5. ASSUME place[d].in # Root
      PROVE  Watched(place[d].in)
  BY <1>2, <1>5 DEF Watched
<1>6. QED
  BY <1>1, <1>2, <1>4, <1>5 DEF InMap

LEMMA StaysWatched ==
  ASSUME TypeOK, TypeOK', MapStep, NEW d \in Dirs, Watched(d)', Exists(d), place'[d].in = place[d].in
  PROVE  /\ Watched(d) /\ watches'[d] = watches[d]
         /\ watches'[place[d].in] = watches[place[d].in]
<1>1. Older(place[d].in, d)' /\ Exists(d)'
  BY DEF Watched
<1>2. place[d].in \in Folders /\ d \in Folders /\ Root \in Folders
  BY FolderFacts DEF Given, Folders
<1>3. watches'[d] = watches[d] /\ watches'[place[d].in] = watches[place[d].in]
  BY <1>1, <1>2 DEF Older, MapStep
<1>4. Older(place[d].in, d)
  BY <1>1, <1>3 DEF Older
<1>5. ASSUME place[d].in # Root
      PROVE  Older(Root, place[d].in) /\ watch[watches[d]].along = TRUE
  <2>1. Older(Root, place[d].in)' /\ watch'[watches'[d]].along = TRUE
    BY <1>5 DEF Watched
  <2>2. watches'[Root] = watches[Root]
    BY <1>2, <2>1 DEF Older, MapStep
  <2>3. watches[d] \in Watches
    BY <1>2, <1>4 DEF Older, TypeOK, WatchTypeOK
  <2>4. QED
    BY <1>3, <2>1, <2>2, <2>3 DEF Older, MapStep
<1>6. QED
  BY <1>3, <1>4, <1>5 DEF Watched
-----------------------------------------------------------------------------
(* Steps that no path depends on. *)

\* How far the reader has got in the directory of a watch, and what it knows there.
PathStays(v) == /\ SamePath(watch[v], watch'[v])
                /\ watch'[v].told = watch[v].told /\ watch'[v].seen = watch[v].seen
CalmStep == MapStep /\ UNCHANGED <<place, used>> /\ \A v \in Watches : PathStays(v)

LEMMA CalmPaths ==
  ASSUME TypeOK, TypeOK', CalmStep, NEW own \in Owners, PathInv(own)
  PROVE  PathInv(own)'
<1>1. /\ Watches' = Watches
      /\ \A v \in Watches : PathStays(v) /\ watch'[v].ino = watch[v].ino
  BY DEF CalmStep, MapStep
<1>2. ASSUME NEW v \in Watches
      PROVE  Remembers(v)' /\ Rooted(v, own)'
  <2>1. Remembers(v) /\ Rooted(v, own) /\ PathStays(v)
    BY <1>1 DEF PathInv
  <2>2. \A i : IsOld(v, i)' <=> IsOld(v, i)
    BY <2>1 DEF PathStays, IsOld
  <2>3. Remembers(v)'
    BY <2>1, <2>2 DEF Remembers, PathStays, SamePath, NameAt
  <2>4. Rooted(v, own)'
    BY <1>1, <2>1 DEF Rooted, PathStays, SamePath, CalmStep
  <2>5. QED
    BY <2>3, <2>4
<1>3. ASSUME NEW d \in Dirs, Watched(d)'
      PROVE  Follows(d, own)'
  <2>1. place' = place /\ used' = used /\ Exists(d)
    BY <1>3 DEF CalmStep, Watched, Exists
  <2>2. /\ Watched(d) /\ watches'[d] = watches[d]
        /\ watches'[place[d].in] = watches[place[d].in]
    BY <1>3, <2>1, StaysWatched DEF CalmStep
  <2>3. watches[d] \in Watches /\ watches[place[d].in] \in Watches
    BY <2>2, WatchedFacts
  <2>4. PICK u \in Watches : u = watches[d] /\ u = watches'[d] /\ PathStays(u)
    BY <1>1, <2>2, <2>3
  <2>5. PICK v \in Watches : v = watches[place[d].in] /\ v = watches'[place'[d].in] /\ PathStays(v)
    BY <1>1, <2>1, <2>2, <2>3
  <2>6. PICK m \in Names : Ahead(d, m, own) /\ watch[u].path = Append(watch[v].path, m)
    BY <2>2, <2>4, <2>5 DEF PathInv, Follows
  <2>7. watch'[u].path = Append(watch'[v].path, m)
    BY <2>4, <2>5, <2>6 DEF PathStays, SamePath
  <2>8. Ahead(d, m, own)'
    <3>1. \A i : IsOld(v, i)' <=> IsOld(v, i)
      BY <2>5 DEF PathStays, IsOld
    <3>2. \A i : NameAt(v, i)' = NameAt(v, i)
      BY <2>5 DEF PathStays, NameAt
    <3>3. watch'[v].told = watch[v].told
      BY <2>5 DEF PathStays
    <3>4. QED
      BY <2>1, <2>5, <2>6, <3>1, <3>2, <3>3 DEF Ahead
  <2>9. QED
    BY <2>4, <2>5, <2>7, <2>8 DEF Follows
<1>4. QED
  BY <1>1, <1>2, <1>3 DEF PathInv

LEMMA CalmKeeps ==
  ASSUME TypeOK, TypeOK', CalmStep, PInv
  PROVE  PInv'
<1>1. MapStep /\ place' = place /\ used' = used /\ Watches' = Watches
  BY DEF CalmStep, MapStep
<1>2. MapInv'
  BY <1>1, MapStays DEF PInv
<1>3. ASSUME Clean'
      PROVE  \E own \in Owners : NamesInv(own)' /\ PathInv(own)'
  <2>1. Clean
    BY <1>1, <1>3, CleanBefore DEF MapStep
  <2>2. PICK own \in Owners : NamesInv(own) /\ PathInv(own)
    BY <2>1 DEF PInv
  <2>3. \A v \in Watches' : SeenStays(v)
    BY <1>1 DEF CalmStep, MapStep, PathStays, SeenStays
  <2>4. NamesInv(own)'
    BY <1>1, <2>2, <2>3, NamesStay
  <2>5. PathInv(own)'
    BY <2>2, CalmPaths
  <2>6. QED
    BY <2>4, <2>5
<1>4. QED
  BY <1>2, <1>3 DEF PInv


\* What an operation has to leave as it was in the watches for MapStep.
SameHandle(r, q) ==
  /\ q.ino = r.ino /\ q.along = r.along /\ q.open = r.open
  /\ q.overflowed = r.overflowed /\ q.overwritten = r.overwritten

LEMMA StartedMap ==
  ASSUME TypeOK, TypeOK', NEW w \in Watches, NEW s \in States, NEW t, Become(t),
         Started(s, t, w) \/ t = s, s.watches = watches,
         \A v \in Watches : s.watch[v] \in Watch /\ SameHandle(watch[v], s.watch[v]),
         \A v \in Ids : v \notin Watches => s.watch[v] = None
  PROVE  MapStep /\ \A v \in Watches : Kept(s.watch[v], watch'[v])
<1>1. watch' = t.watch /\ watches' = t.watches
  BY DEF Become
<1>2. /\ \A v \in Watches : watch'[v] \in Watch /\ Kept(s.watch[v], watch'[v])
      /\ \A v \in Ids : v # w => watch'[v] = s.watch[v]
  <2>1. CASE t = s
    BY <1>1, <2>1 DEF Kept, SameTold, SameLog, SamePath
  <2>2. CASE Started(s, t, w)
    <3>1. /\ t.watch[w] \in Watch /\ Kept(s.watch[w], t.watch[w])
          /\ \A v \in Ids : v # w => t.watch[v] = s.watch[v]
      BY <2>2 DEF Started, Touches
    <3>2. ASSUME NEW v \in Watches
          PROVE  watch'[v] \in Watch /\ Kept(s.watch[v], watch'[v])
      <4>1. v \in Ids
        BY DEF Watches
      <4>2. CASE v = w
        BY <1>1, <3>1, <4>2
      <4>3. CASE v # w
        BY <1>1, <3>1, <4>1, <4>3 DEF Kept, SameTold, SameLog, SamePath
      <4>4. QED
        BY <4>2, <4>3
    <3>3. QED
      BY <1>1, <3>1, <3>2
  <2>3. QED
    BY <2>1, <2>2
<1>3. Watches' = Watches
  <2>1. None \notin Watch
    BY WatchesAssumption
  <2>2. \A v \in Ids : v \notin Watches => watch'[v] = None
    BY <1>2
  <2>3. QED
    BY <1>2, <2>1, <2>2 DEF Watches
<1>4. w \in Ids /\ watch[w].ino \in Folders /\ watch'[w].ino = watch[w].ino /\ w # None
  <2>1. w \in Ids /\ watch[w] \in Watch
    BY Made DEF TypeOK
  <2>2. QED
    BY <1>2, <2>1, WatchesAssumption DEF Watch, Kept, SameTold, SameLog, SameHandle
<1>5. \A f \in Folders : watches'[f] = watches[f] \/ watches'[f] = None
  <2>1. watches \in [Folders -> Ids \cup {None}]
    BY DEF TypeOK, WatchTypeOK
  <2>2. CASE t = s
    BY <1>1, <2>2
  <2>3. CASE Started(s, t, w)
    BY <1>1, <2>1, <2>3 DEF Started, Shut
  <2>4. QED
    BY <2>2, <2>3
<1>6. ASSUME NEW v \in Watches
      PROVE  /\ watch'[v].open = TRUE => watch[v].open = TRUE
             /\ InMap(v)' /\ watch[v].open = TRUE => watch'[v].open = TRUE
  <2>1. s.watch[v].open = watch[v].open
    BY DEF SameHandle
  <2>2. CASE v # w \/ t = s
    <3>1. watch'[v] = s.watch[v]
      BY <1>1, <1>2, <2>2, Made DEF TypeOK
    <3>2. QED
      BY <2>1, <3>1
  <2>3. CASE v = w /\ Started(s, t, w)
    <3>1. CASE s.watch[w].open = TRUE /\ t.watch[w].open = TRUE
      BY <1>1, <2>1, <2>3, <3>1
    <3>2. CASE Shut(s, t, w)
      <4>1. watches'[watch'[w].ino] = None
        <5>1. s.watch[w].ino = watch[w].ino
          BY DEF SameHandle
        <5>2. watches' = [watches EXCEPT ![watch[w].ino] = None]
          BY <1>1, <3>2, <5>1 DEF Shut
        <5>3. watches \in [Folders -> Ids \cup {None}]
          BY DEF TypeOK, WatchTypeOK
        <5>4. QED
          BY <1>4, <5>2, <5>3
      <4>2. ~InMap(w)' /\ watch'[w].open = FALSE
        BY <1>1, <1>4, <3>2, <4>1 DEF InMap, Shut
      <4>3. QED
        BY <2>3, <4>2
    <3>3. QED
      BY <2>3, <3>1, <3>2 DEF Started
  <2>4. QED
    BY <2>2, <2>3
<1>7. ASSUME NEW v \in Watches
      PROVE  /\ watch'[v].ino = watch[v].ino /\ watch'[v].along = watch[v].along
             /\ watch'[v].overflowed = watch[v].overflowed
             /\ watch'[v].overwritten = watch[v].overwritten
  <2>1. Kept(s.watch[v], watch'[v]) /\ SameHandle(watch[v], s.watch[v])
    BY <1>2
  <2>2. QED
    BY <2>1 DEF Kept, SameTold, SameLog, SamePath, SameHandle
<1>8. QED
  BY <1>2, <1>3, <1>5, <1>6, <1>7 DEF MapStep

LEMMA StartedCalm ==
  ASSUME TypeOK, TypeOK', NEW w \in Watches, NEW s \in States, NEW t, Become(t),
         Started(s, t, w), s.watches = watches, UNCHANGED <<place, used>>,
         Alike(watch[w], s.watch[w]), SamePath(watch[w], s.watch[w]),
         \A v \in Ids : v # w => s.watch[v] = watch[v]
  PROVE  CalmStep
<1>1. ASSUME NEW v \in Watches
      PROVE  /\ s.watch[v] \in Watch /\ SameHandle(watch[v], s.watch[v])
             /\ Kept(watch[v], s.watch[v])
  <2>1. v \in Ids /\ watch[v] \in Watch
    BY Made DEF TypeOK
  <2>2. CASE v = w
    BY <2>2 DEF Alike, SameTold, SameLog, SameRead, SamePath, SameHandle, Kept
  <2>3. CASE v # w
    BY <2>1, <2>3 DEF SameTold, SameLog, SameRead, SamePath, SameHandle, Kept
  <2>4. QED
    BY <2>2, <2>3
<1>2. ASSUME NEW v \in Ids, v \notin Watches
      PROVE  s.watch[v] = None
  BY <1>2 DEF Watches
<1>3. MapStep /\ \A v \in Watches : Kept(s.watch[v], watch'[v])
  BY <1>1, <1>2, StartedMap
<1>4. ASSUME NEW v \in Watches
      PROVE  PathStays(v)
  <2>1. Kept(watch[v], s.watch[v]) /\ Kept(s.watch[v], watch'[v])
    BY <1>1, <1>3
  <2>2. QED
    BY <2>1 DEF Kept, SameTold, SameLog, SamePath, PathStays
<1>5. QED
  BY <1>3, <1>4 DEF CalmStep

\* A step in which one watch has its read, its buffer or its failure changed.
LEMMA OneCalm ==
  ASSUME TypeOK, NEW w \in Watches, NEW q \in Watch, watch' = [watch EXCEPT ![w] = q],
         UNCHANGED <<place, used, watches>>, SamePath(watch[w], q), q.ino = watch[w].ino,
         q.seen = watch[w].seen, q.told = watch[w].told, q.open = watch[w].open,
         watch[w].overflowed = TRUE => q.overflowed = TRUE,
         watch[w].overwritten = TRUE => q.overwritten = TRUE
  PROVE  CalmStep
<1>1. watch \in [Ids -> Watch \cup {None}] /\ w \in Ids
  BY Made DEF TypeOK, WatchTypeOK
<1>2. watch'[w] = q /\ \A v \in Ids : v # w => watch'[v] = watch[v]
  BY <1>1
<1>3. Watches' = Watches
  BY <1>2, WatchesAssumption DEF Watches
<1>4. ASSUME NEW v \in Watches
      PROVE  /\ PathStays(v) /\ watch'[v].ino = watch[v].ino /\ watch'[v].open = watch[v].open
             /\ watch'[v].along = watch[v].along
             /\ watch[v].overflowed = TRUE => watch'[v].overflowed = TRUE
             /\ watch[v].overwritten = TRUE => watch'[v].overwritten = TRUE
  <2>1. CASE v = w
    BY <1>2, <2>1 DEF PathStays, SamePath
  <2>2. CASE v # w
    BY <1>1, <1>2, <2>2, Made DEF TypeOK, PathStays, SamePath
  <2>3. QED
    BY <2>1, <2>2
<1>5. QED
  BY <1>3, <1>4 DEF CalmStep, MapStep

\* A step that changes no watch.
LEMMA NoneCalm ==
  ASSUME TypeOK, UNCHANGED <<place, used, watch, watches>>
  PROVE  CalmStep
<1>1. Watches' = Watches
  BY DEF Watches
<1>2. QED
  BY <1>1 DEF CalmStep, MapStep, PathStays, SamePath


LEMMA CompleteCalm ==
  ASSUME IInv, NEW w \in Watches, Complete(w)
  PROVE  CalmStep
<1>1. TypeOK /\ WatchTypeOK /\ w \in Ids /\ watch[w] \in Watch
  BY Made DEF IInv, TypeOK
<1>2. PICK k \in 1 .. Len(watch[w].kernel), q \in Watch :
        Completed(w, q, k) /\ watch' = [watch EXCEPT ![w] = q]
  BY CompletedDoes
<1>3. UNCHANGED <<place, used, watches>>
  BY DEF Complete
<1>4. watch'[w] = q
  BY <1>1, <1>2 DEF WatchTypeOK
<1>5. PICK r \in Watch : r = watch[w]
  BY <1>1
<1>6. SamePath(r, q)
  <2>1. PICK i \in 1 .. Len(r.kernel) : watch' = [watch EXCEPT
             ![w].pending = FALSE, ![w].kernel = SubSeq(@, i + 1, Len(@)),
             ![w].buf = [j \in 1 .. i |-> [id |-> r.kernel[j], last |-> j = i]]
                        \o SubSeq(@, i + 1, Len(@)),
             ![w].overwritten = @ \/ Unread(w)]
    BY <1>5 DEF Complete
  <2>2. q = [r EXCEPT
             !.pending = FALSE, !.kernel = SubSeq(@, i + 1, Len(@)),
             !.buf = [j \in 1 .. i |-> [id |-> r.kernel[j], last |-> j = i]]
                        \o SubSeq(@, i + 1, Len(@)),
             !.overwritten = @ \/ Unread(w)]
    BY <1>1, <1>4, <1>5, <2>1 DEF WatchTypeOK
  <2>3. QED
    BY <2>2 DEF SamePath, Watch
<1>7. /\ q.ino = r.ino /\ q.seen = r.seen /\ q.told = r.told /\ q.open = r.open
      /\ r.overflowed = TRUE => q.overflowed = TRUE
      /\ r.overwritten = TRUE => q.overwritten = TRUE
  <2>1. q.overwritten \in BOOLEAN
    BY DEF Watch
  <2>2. QED
    BY <1>2, <1>5, <2>1 DEF Completed
<1>8. QED
  BY <1>1, <1>2, <1>3, <1>5, <1>6, <1>7, OneCalm

LEMMA OverflowCalm ==
  ASSUME IInv, NEW w \in Watches, Overflow(w)
  PROVE  CalmStep
<1>1. TypeOK /\ WatchTypeOK /\ w \in Ids
  BY Made DEF IInv, TypeOK
<1>2. PICK r \in Watch : r = watch[w]
  BY <1>1, Made
<1>3. PICK q : q = [r EXCEPT !.pending = FALSE, !.full = FALSE]
  OBVIOUS
<1>4. /\ q \in Watch /\ SamePath(r, q) /\ q.ino = r.ino /\ q.seen = r.seen /\ q.told = r.told
      /\ q.open = r.open /\ q.overflowed = r.overflowed /\ q.overwritten = r.overwritten
  BY <1>3 DEF Watch, SamePath
<1>5. watch' = [watch EXCEPT ![w] = q] /\ UNCHANGED <<place, used, watches>>
  BY <1>1, <1>2, <1>3 DEF Overflow, WatchTypeOK
<1>6. QED
  BY <1>1, <1>2, <1>4, <1>5, OneCalm

LEMMA FaultCalm ==
  ASSUME IInv, NEW w \in Watches, Fault(w)
  PROVE  CalmStep
<1>1. TypeOK /\ WatchTypeOK /\ w \in Ids
  BY Made DEF IInv, TypeOK
<1>2. PICK r \in Watch : r = watch[w]
  BY <1>1, Made
<1>3. PICK q : q = [r EXCEPT !.pending = FALSE]
  OBVIOUS
<1>4. /\ q \in Watch /\ SamePath(r, q) /\ q.ino = r.ino /\ q.seen = r.seen /\ q.told = r.told
      /\ q.open = r.open /\ q.overflowed = r.overflowed /\ q.overwritten = r.overwritten
  BY <1>3 DEF Watch, SamePath
<1>5. watch' = [watch EXCEPT ![w] = q] /\ UNCHANGED <<place, used, watches>>
  BY <1>1, <1>2, <1>3 DEF Fault, WatchTypeOK
<1>6. QED
  BY <1>1, <1>2, <1>4, <1>5, OneCalm

LEMMA GetErrorCalm ==
  ASSUME IInv, GetError
  PROVE  CalmStep
<1>1. TypeOK /\ WatchTypeOK
  BY DEF IInv, TypeOK
<1>2. /\ port # <<>> /\ Packet.st = "error" /\ UNCHANGED <<place, used>>
      /\ Become([Got EXCEPT !.watch[Packet.for].failed = TRUE])
  BY DEF GetError, Get
<1>3. PICK w \in Watches : w = Packet.for
  BY <1>1, <1>2, GotDoes
<1>4. PICK g \in States : g = Got /\ g.watch = watch /\ g.watches = watches
  BY <1>1, <1>2, GotDoes
<1>5. PICK r \in Watch : r = watch[w]
  BY <1>1, Made
<1>6. PICK q : q = [r EXCEPT !.failed = TRUE]
  OBVIOUS
<1>7. /\ q \in Watch /\ SamePath(r, q) /\ q.ino = r.ino /\ q.seen = r.seen /\ q.told = r.told
      /\ q.open = r.open /\ q.overflowed = r.overflowed /\ q.overwritten = r.overwritten
  BY <1>6 DEF Watch, SamePath
<1>8. watch' = [watch EXCEPT ![w] = q] /\ watches' = watches
  <2>1. Become([g EXCEPT !.watch[w].failed = TRUE])
    BY <1>2, <1>3, <1>4
  <2>2. QED
    BY <1>4, <1>5, <1>6, <2>1 DEF Become, States
<1>9. QED
  BY <1>1, <1>2, <1>5, <1>7, <1>8, OneCalm

LEMMA GetDeniedCalm ==
  ASSUME IInv, TypeOK', GetDenied
  PROVE  CalmStep
<1>1. TypeOK
  BY DEF IInv
<1>2. /\ port # <<>> /\ Packet.st = "denied" /\ UNCHANGED <<place, used>>
      /\ Become(StartRead(DeleteWatch(Got, Packet.for), Packet.for, FALSE))
  BY DEF GetDenied, Get
<1>3. PICK w \in Watches : w = Packet.for
  BY <1>1, <1>2, GotDoes
<1>4. w \in Ids /\ watch[w] \in Watch
  BY <1>1, Made DEF TypeOK
<1>5. PICK g \in States : g = Got /\ g.watch = watch /\ g.watches = watches
  BY <1>1, <1>2, GotDoes
<1>6. PICK s : s = DeleteWatch(g, w)
  OBVIOUS
<1>7. Touches(g, s, w) /\ SameRead(watch[w], s.watch[w]) /\ s.watches = watches
  <2>1. Deleted(g, s, w)
    BY <1>4, <1>5, <1>6, DeleteWatchSpares
  <2>2. QED
    BY <1>5, <2>1 DEF Deleted
<1>8. /\ s \in States /\ Alike(watch[w], s.watch[w]) /\ SamePath(watch[w], s.watch[w])
      /\ \A v \in Ids : v # w => s.watch[v] = watch[v]
  BY <1>5, <1>7 DEF Touches, Kept, Alike
<1>9. PICK t : t = StartRead(s, w, FALSE)
  OBVIOUS
<1>10. Started(s, t, w)
  BY <1>4, <1>8, <1>9, StartReadDoes DEF Alike
<1>11. Become(t)
  BY <1>2, <1>3, <1>5, <1>6, <1>9
<1>12. QED
  BY <1>1, <1>2, <1>7, <1>8, <1>10, <1>11, StartedCalm

LEMMA GetOverflowCalm ==
  ASSUME IInv, TypeOK', GetOverflow
  PROVE  CalmStep
<1>1. TypeOK
  BY DEF IInv
<1>2. port # <<>> /\ Packet.st = "ok" /\ UNCHANGED <<place, used>>
  BY DEF GetOverflow, Get
<1>3. PICK fails \in Attempts : Become(StartRead(Got, Packet.for, fails))
  BY DEF GetOverflow
<1>4. PICK w \in Watches : w = Packet.for
  BY <1>1, <1>2, GotDoes
<1>5. w \in Ids /\ watch[w] \in Watch
  BY <1>1, Made DEF TypeOK
<1>6. PICK s \in States : s = Got /\ s.watch = watch /\ s.watches = watches
  BY <1>1, <1>2, GotDoes
<1>7. PICK t : t = StartRead(s, w, fails)
  OBVIOUS
<1>8. Started(s, t, w)
  BY <1>5, <1>6, <1>7, StartReadDoes
<1>9. Become(t)
  BY <1>3, <1>4, <1>6, <1>7
<1>10. Alike(watch[w], s.watch[w]) /\ SamePath(watch[w], s.watch[w])
  BY <1>5, <1>6 DEF Alike, SameTold, SameLog, SameRead, SamePath
<1>11. QED
  BY <1>1, <1>2, <1>6, <1>8, <1>9, <1>10, StartedCalm

LEMMA MarkCalm ==
  ASSUME IInv, TypeOK', Get("wake"), NEW n \in Inodes, Exists(n), NEW on \in BOOLEAN,
         NEW fails \in Attempts, watches[FolderOf(n)] # None,
         Become(StartRead(Marked(Got, watches[FolderOf(n)], n, on), watches[FolderOf(n)], fails))
  PROVE  CalmStep
<1>1. TypeOK /\ TreeTypeOK /\ WatchTypeOK
  BY DEF IInv, TypeOK
<1>2. port # <<>> /\ Packet.st = "wake" /\ UNCHANGED <<place, used>>
  BY DEF Get
<1>3. PICK w \in Watches : w = watches[FolderOf(n)]
  BY <1>1, TreeFacts DEF WatchTypeOK
<1>4. w \in Ids /\ watch[w] \in Watch
  BY <1>1, Made
<1>5. PICK g \in States : g = Got /\ g.watch = watch /\ g.watches = watches
  BY <1>1, <1>2, GotDoes
<1>6. PICK s : s = Marked(g, w, n, on)
  OBVIOUS
<1>7. /\ s \in States /\ Alike(watch[w], s.watch[w]) /\ s.watches = watches
      /\ SamePath(watch[w], s.watch[w])
      /\ \A v \in Ids : v # w => s.watch[v] = watch[v]
  BY <1>1, <1>4, <1>5, <1>6, MarkedDoes
<1>8. PICK t : t = StartRead(s, w, fails)
  OBVIOUS
<1>9. Started(s, t, w)
  BY <1>4, <1>7, <1>8, StartReadDoes DEF Alike
<1>10. Become(t)
  BY <1>3, <1>5, <1>6, <1>8
<1>11. QED
  BY <1>1, <1>2, <1>7, <1>9, <1>10, StartedCalm

LEMMA DropCalm ==
  ASSUME IInv, port # <<>>, UNCHANGED <<place, used>>, Become(Got)
  PROVE  CalmStep
<1>1. TypeOK
  BY DEF IInv
<1>2. Got.watch = watch /\ Got.watches = watches
  BY <1>1, GotDoes
<1>3. QED
  BY <1>1, <1>2, NoneCalm DEF Become

LEMMA CloseCalm ==
  ASSUME IInv, TypeOK', Close
  PROVE  CalmStep
<1>1. TypeOK /\ WatchTypeOK /\ PortTypeOK
  BY DEF IInv, TypeOK
<1>2. /\ watches' = [f \in Folders |-> None] /\ UNCHANGED <<place, used>>
      /\ watch' = [w \in Ids |->
                     IF w \in Watches /\ InMap(w)
                     THEN StartRead(DeleteWatch(State, w), w, FALSE).watch[w] ELSE watch[w]]
  BY DEF Close, InMap
<1>3. PICK x \in States : x = State /\ x.watch = watch
  <2>1. State \in States /\ State.watch = watch
    BY <1>1 DEF State, States, WatchTypeOK, PortTypeOK
  <2>2. QED
    BY <2>1
<1>4. ASSUME NEW v \in Watches
      PROVE  /\ watch'[v] \in Watch /\ Kept(watch[v], watch'[v])
             /\ watch'[v].open = TRUE => watch[v].open = TRUE
  <2>1. v \in Ids /\ watch[v] \in Watch
    BY <1>1, Made
  <2>2. CASE InMap(v)
    <3>1. PICK s : s = DeleteWatch(x, v)
      OBVIOUS
    <3>2. Touches(x, s, v) /\ SameRead(watch[v], s.watch[v])
      BY <1>3, <2>1, <3>1, DeleteWatchSpares DEF Deleted
    <3>3. s \in States /\ s.watch[v] \in Watch /\ Kept(watch[v], s.watch[v])
      BY <1>3, <3>2 DEF Touches
    <3>4. PICK t : t = StartRead(s, v, FALSE)
      OBVIOUS
    <3>5. Started(s, t, v)
      BY <2>1, <3>3, <3>4, StartReadDoes
    <3>6. watch'[v] = t.watch[v]
      BY <1>2, <1>3, <2>1, <2>2, <3>1, <3>4
    <3>7. t.watch[v] \in Watch /\ Kept(s.watch[v], t.watch[v])
      BY <3>5 DEF Started, Touches
    <3>8. Kept(watch[v], t.watch[v])
      BY <3>3, <3>7 DEF Kept, SameTold, SameLog, SamePath
    <3>9. t.watch[v].open = TRUE => watch[v].open = TRUE
      BY <3>2, <3>5 DEF Started, Shut, SameRead
    <3>10. QED
      BY <3>6, <3>7, <3>8, <3>9
  <2>3. CASE ~InMap(v)
    <3>1. watch'[v] = watch[v]
      BY <1>2, <2>1, <2>3
    <3>2. QED
      BY <2>1, <3>1 DEF Kept, SameTold, SameLog, SamePath
  <2>4. QED
    BY <2>2, <2>3
<1>5. Watches' = Watches
  <2>1. \A v \in Ids : v \notin Watches => watch'[v] = None
    BY <1>2 DEF Watches
  <2>2. None \notin Watch
    BY WatchesAssumption
  <2>3. QED
    BY <1>4, <2>1, <2>2 DEF Watches
<1>6. ASSUME NEW v \in Watches
      PROVE  ~InMap(v)' /\ watch'[v].ino = watch[v].ino
  <2>1. watch'[v].ino \in Folders /\ v # None
    BY <1>4, Made, <1>1, WatchesAssumption DEF Watch
  <2>2. QED
    BY <1>2, <1>4, <2>1 DEF InMap, Kept, SameTold, SameLog
<1>7. MapStep
  BY <1>2, <1>4, <1>5, <1>6 DEF MapStep, Kept, SameTold, SameLog, SamePath
<1>8. \A v \in Watches : PathStays(v)
  BY <1>4 DEF PathStays, Kept, SameTold, SameLog, SamePath
<1>9. QED
  BY <1>2, <1>7, <1>8 DEF CalmStep


\* A new watch w of folder f: nothing is known of it but the path that the folder has.
IsFresh(f, w) ==
  /\ f \in Folders /\ Exists(f) /\ watches[f] = None
  /\ w \in Ids /\ w \notin Watches /\ \A u \in Ids : u < w => u \in Watches
  /\ watch'[w] \in Watch /\ watch'[w].ino = f /\ watch'[w].path = PathOf(f)
  /\ watch'[w].seen = <<>> /\ watch'[w].told = <<>>
  /\ watch'[w].along = TRUE =>
       \A g \in Above(f) : watches[g] # None => watch[watches[g]].path = PathOf(g)
  /\ \A v \in Ids : v # w => watch'[v] = watch[v]
  /\ watches'[f] = None \/ (watches'[f] = w /\ watch'[w].open = TRUE)
  /\ \A g \in Folders : g # f => watches'[g] = watches[g]

LEMMA FreshDoes ==
  ASSUME IInv, Get("wake"), NEW n \in Inodes, Exists(n), NEW fails \in Attempts,
         watches[FolderOf(n)] = None, Watches # Ids, Become(AddWatch(Got, n, fails))
  PROVE  \E f \in Folders, w \in Ids : IsFresh(f, w)
<1>1. TypeOK /\ TreeTypeOK /\ WatchTypeOK
  BY DEF IInv, TypeOK
<1>2. port # <<>> /\ UNCHANGED <<place, used>>
  BY DEF Get
<1>3. PICK f \in Folders : f = FolderOf(n) /\ Exists(f) /\ watches[f] = None
  BY <1>1, TreeFacts
<1>4. PICK w \in Ids : /\ w = Min({v \in Ids : watch[v] = None}) /\ watch[w] = None
                       /\ \A u \in Ids : u < w => u \in Watches
  <2>1. {v \in Ids : watch[v] = None} \in SUBSET Nat
    BY DEF Ids
  <2>2. {v \in Ids : watch[v] = None} # {}
    BY DEF Watches
  <2>3. PICK w \in Ids : w = Min({v \in Ids : watch[v] = None}) /\ watch[w] = None
                         /\ \A u \in {v \in Ids : watch[v] = None} : w <= u
    BY <2>1, <2>2, MinId
  <2>4. ASSUME NEW u \in Ids, u < w
        PROVE  u \in Watches
    <3>1. ~ (w <= u)
      BY <2>4 DEF Ids
    <3>2. QED
      BY <2>3, <3>1 DEF Watches
  <2>5. QED
    BY <2>3, <2>4
<1>5. PICK g \in States : g = Got /\ g.watch = watch /\ g.watches = watches
  BY <1>1, <1>2, GotDoes
<1>6. PICK p \in Seq(Names) : p = PathOf(f)
  <2>1. f \in Inodes
    BY DEF Folders, Inodes
  <2>2. QED
    BY <1>1, <1>3, <2>1, TreeFacts
<1>7. PICK along \in BOOLEAN : along = Along(g, f)
  BY DEF Along
<1>8. PICK r : r = NewWatch(f, p, along)
  OBVIOUS
<1>9. /\ Fresh(r, f) /\ r \in Watch /\ r.path = p /\ r.along = along
      /\ r.ino = f /\ r.seen = <<>> /\ r.told = <<>>
  <2>1. Fresh(r, f)
    BY <1>8, NewWatchDoes
  <2>2. QED
    BY <1>8, <2>1 DEF Fresh, NewWatch
<1>10. PICK u : u = [g EXCEPT !.watch[w] = r, !.watches[f] = w]
  OBVIOUS
<1>11. /\ u \in States /\ u.watch[w] = r /\ u.watches = [watches EXCEPT ![f] = w]
       /\ \A v \in Ids : v # w => u.watch[v] = watch[v]
  BY <1>5, <1>9, <1>10 DEF States
<1>12. PICK s : s = Marked(u, w, n, TRUE)
  OBVIOUS
<1>13. /\ s \in States /\ Alike(r, s.watch[w]) /\ SamePath(r, s.watch[w]) /\ s.watches = u.watches
       /\ \A v \in Ids : v # w => s.watch[v] = watch[v]
  <2>1. PICK x \in States : x = u /\ x.watch[w] \in Watch
    BY <1>9, <1>11
  <2>2. PICK on \in BOOLEAN : on = TRUE
    OBVIOUS
  <2>3. s = Marked(x, w, n, on)
    BY <1>12, <2>1, <2>2
  <2>4. /\ s \in States /\ Alike(u.watch[w], s.watch[w]) /\ SamePath(u.watch[w], s.watch[w])
        /\ s.watches = u.watches
        /\ \A v \in Ids : v # w => s.watch[v] = u.watch[v]
    BY <1>1, <2>1, <2>3, MarkedDoes
  <2>5. QED
    BY <1>11, <2>4
<1>14. PICK t : t = StartRead(s, w, fails)
  OBVIOUS
<1>15. Started(s, t, w)
  BY <1>13, <1>14, StartReadDoes DEF Alike
<1>16. Become(t)
  <2>1. AddWatch(Got, n, fails) = StartRead(Marked(u, w, n, TRUE), w, fails)
    BY <1>3, <1>4, <1>5, <1>6, <1>7, <1>8, <1>10 DEF AddWatch
  <2>2. QED
    BY <1>12, <1>14, <2>1
<1>17. /\ watch' = t.watch /\ watches' = t.watches
       /\ watch'[w] \in Watch /\ Kept(s.watch[w], watch'[w])
       /\ \A v \in Ids : v # w => watch'[v] = watch[v]
  BY <1>13, <1>15, <1>16 DEF Started, Touches, Become
<1>18. /\ watch'[w].ino = f /\ watch'[w].path = p /\ watch'[w].along = along
       /\ watch'[w].seen = <<>> /\ watch'[w].told = <<>> /\ s.watch[w].ino = f
  BY <1>9, <1>13, <1>17 DEF Alike, Kept, SameTold, SameLog, SamePath
<1>19. /\ watches'[f] = None \/ (watches'[f] = w /\ watch'[w].open = TRUE)
       /\ \A h \in Folders : h # f => watches'[h] = watches[h]
  <2>1. watches \in [Folders -> Ids \cup {None}]
    BY <1>1 DEF WatchTypeOK
  <2>2. CASE watches' = u.watches /\ watch'[w].open = TRUE
    BY <1>11, <2>1, <2>2
  <2>3. CASE Shut(s, t, w)
    <3>1. watches' = [u.watches EXCEPT ![f] = None]
      BY <1>13, <1>17, <1>18, <2>3 DEF Shut
    <3>2. QED
      BY <1>11, <2>1, <3>1
  <2>4. QED
    BY <1>13, <1>15, <1>17, <2>2, <2>3 DEF Started
<1>20. along = TRUE => \A h \in Above(f) : watches[h] # None => watch[watches[h]].path = PathOf(h)
  BY <1>5, <1>7 DEF Along
<1>21. w \notin Watches
  BY <1>4 DEF Watches
<1>22. IsFresh(f, w)
  BY <1>3, <1>4, <1>6, <1>17, <1>18, <1>19, <1>20, <1>21 DEF IsFresh
<1>23. QED
  BY <1>22

LEMMA FreshMap ==
  ASSUME TypeOK, TypeOK', MapInv, NEW f \in Folders, NEW w \in Ids, IsFresh(f, w),
         UNCHANGED <<place, used>>
  PROVE  MapInv' /\ Watches' = Watches \cup {w}
<1>1. Watches' = Watches \cup {w}
  BY WatchesAssumption DEF IsFresh, Watches
<1>2. \A v \in Watches : v # w /\ v \in Ids /\ watch'[v] = watch[v]
  BY DEF IsFresh, Watches
<1>3. ASSUME NEW v \in Watches', InMap(v)'
      PROVE  watch'[v].open = TRUE
  <2>1. watch'[v].ino \in Folders /\ v \in Ids /\ v # None
    BY Made, WatchesAssumption DEF TypeOK, WatchTypeOK, Watch, Watches
  <2>2. watches'[watch'[v].ino] = v
    BY <1>3 DEF InMap
  <2>3. CASE v = w
    BY <2>1, <2>2, <2>3 DEF IsFresh
  <2>4. CASE v \in Watches
    <3>1. watch'[v].ino # f
      BY <1>2, <2>1, <2>2, <2>4 DEF IsFresh
    <3>2. InMap(v)
      BY <1>2, <2>1, <2>2, <2>4, <3>1 DEF InMap, IsFresh
    <3>3. QED
      BY <1>2, <2>4, <3>2 DEF MapInv
  <2>5. QED
    BY <1>1, <2>3, <2>4
<1>4. ASSUME NEW v \in Watches', watch'[v].ino # Root
      PROVE  place'[watch'[v].ino] # New
  <2>1. CASE v = w
    <3>1. watch'[w].ino = f /\ f # Root /\ Exists(f)
      BY <1>4, <2>1 DEF IsFresh
    <3>2. QED
      BY <2>1, <3>1 DEF Exists
  <2>2. CASE v \in Watches
    BY <1>2, <1>4, <2>2 DEF MapInv
  <2>3. QED
    BY <1>1, <2>1, <2>2
<1>5. ASSUME NEW v \in Watches', NEW u \in Ids, u < v
      PROVE  u \in Watches'
  BY <1>1, <1>5 DEF IsFresh, MapInv
<1>6. QED
  BY <1>1, <1>3, <1>4, <1>5 DEF MapInv

\* The directory of the new watch has its path, and it is the only one whose path
\* comes to be claimed: those in it had their watches before, if any.
LEMMA FreshFollows ==
  ASSUME TypeOK, TypeOK', MapInv, NEW f \in Folders, NEW w \in Ids, IsFresh(f, w),
         UNCHANGED <<place, used>>, NEW own \in Owners, Placed(own), PathInv(own),
         NEW d \in Dirs, Watched(d)'
  PROVE  Follows(d, own)'
<1>1. Exists(d) /\ place' = place /\ used' = used /\ Exists(d)'
  BY DEF Watched, Exists
<1>2. PICK h \in Folders : h = place[d].in
  BY <1>1, FolderFacts DEF Given
<1>3. place[d].name \in Names /\ d \in Given
  BY <1>1, FolderFacts DEF Given
<1>4. h # Root => h \in Dirs /\ Exists(h) /\ place[h].in = Root
  BY <1>1, <1>2, FolderFacts DEF Given
<1>5. /\ watches'[h] # None /\ watches'[d] # None /\ watches'[h] < watches'[d]
      /\ h # Root => /\ watches'[Root] # None /\ watches'[Root] < watches'[h]
                     /\ watch'[watches'[d]].along = TRUE
  BY <1>1, <1>2 DEF Watched, Older
<1>6. d \in Folders /\ Root \in Folders /\ watches \in [Folders -> Ids \cup {None}]
  BY DEF Folders, TypeOK, WatchTypeOK
<1>7. ASSUME NEW g \in Folders, g # f, watches'[f] # None, watches'[g] # None
      PROVE  ~ (watches'[f] < watches'[g])
  <2>1. watches'[f] = w /\ watches'[g] = watches[g] /\ watches[g] \in Watches
    BY <1>7 DEF IsFresh, TypeOK, WatchTypeOK
  <2>2. QED
    BY <2>1 DEF IsFresh, MapInv
<1>8. h # f
  <2>1. SUFFICES ASSUME h = f
        PROVE  FALSE
    OBVIOUS
  <2>2. CASE d = f
    <3>1. watches'[f] \in Ids /\ watches'[f] < watches'[f]
      BY <1>5, <2>1, <2>2 DEF IsFresh
    <3>2. QED
      BY <3>1 DEF Ids
  <2>3. CASE d # f
    BY <1>5, <1>6, <1>7, <2>1, <2>3
  <2>4. QED
    BY <2>2, <2>3
<1>9. watches'[h] = watches[h] /\ watches[h] \in Watches /\ watch[watches[h]].ino = h
  <2>1. watches'[h] = watches[h]
    BY <1>8 DEF IsFresh
  <2>2. QED
    BY <1>5, <2>1 DEF TypeOK, WatchTypeOK
<1>10. PICK v \in Watches : v = watches[h] /\ watch'[v] = watch[v] /\ watch[v].ino = h
  BY <1>9 DEF IsFresh, Watches
<1>11. CASE d = f
  <2>1. watches'[d] = w /\ watch'[w].path = PathOf(d)
    BY <1>5, <1>11 DEF IsFresh
  <2>2. d # Root
    BY WatchesAssumption
  <2>3. PathOf(d) = Append(watch[v].path, place[d].name)
    <3>1. CASE h = Root
      <4>1. watch[v].path = <<>>
        BY <1>10, <3>1 DEF PathInv, Rooted
      <4>2. PathOf(d) = <<place[d].name>>
        BY <1>2, <2>2, <3>1 DEF PathOf
      <4>3. QED
        BY <4>1, <4>2
    <3>2. CASE h # Root
      <4>1. h \in Above(d)
        BY <1>2, <2>2 DEF Above
      <4>2. watch'[w].along = TRUE
        BY <1>5, <2>1, <3>2
      <4>3. watch[v].path = PathOf(h)
        BY <1>5, <1>9, <1>10, <1>11, <4>1, <4>2 DEF IsFresh
      <4>4. PathOf(h) = <<place[h].name>>
        BY <1>4, <3>2 DEF PathOf
      <4>5. PathOf(d) = <<place[h].name, place[d].name>>
        BY <1>2, <2>2, <3>2 DEF PathOf
      <4>6. QED
        BY <4>3, <4>4, <4>5
    <3>3. QED
      BY <3>1, <3>2
  <2>4. Ahead(d, place[d].name, own)'
    <3>1. place[d].name \in used /\ own[place[d].in][place[d].name] = d
      BY <1>1, <1>3 DEF Placed
    <3>2. QED
      BY <1>1, <3>1 DEF Ahead
  <2>5. watch'[watches'[d]].path = Append(watch'[watches'[place'[d].in]].path, place[d].name)
    BY <1>1, <1>2, <1>9, <1>10, <2>1, <2>3
  <2>6. QED
    BY <1>3, <2>4, <2>5 DEF Follows
<1>12. CASE d # f
  <2>1. watches'[d] = watches[d] /\ watches[d] \in Watches
    <3>1. watches'[d] = watches[d]
      BY <1>6, <1>12 DEF IsFresh
    <3>2. QED
      BY <1>5, <1>6, <3>1 DEF TypeOK, WatchTypeOK
  <2>2. PICK u \in Watches : u = watches[d] /\ watch'[u] = watch[u]
    BY <2>1 DEF IsFresh, Watches
  <2>3. Older(h, d)
    BY <1>5, <1>9, <2>1 DEF Older
  <2>4. ASSUME h # Root
        PROVE  Older(Root, h) /\ watch[watches[d]].along = TRUE
    <3>1. Root # f
      BY <1>5, <1>6, <1>7, <1>8, <2>4
    <3>2. watches'[Root] = watches[Root]
      BY <1>6, <3>1 DEF IsFresh
    <3>3. QED
      BY <1>5, <1>9, <2>1, <2>2, <2>4, <3>2 DEF Older
  <2>5. Watched(d)
    BY <1>1, <1>2, <2>3, <2>4 DEF Watched
  <2>6. PICK m \in Names : Ahead(d, m, own) /\ watch[u].path = Append(watch[v].path, m)
    BY <1>2, <1>10, <2>2, <2>5 DEF PathInv, Follows
  <2>7. Ahead(d, m, own)'
    BY <1>1, <1>2, <1>9, <1>10, <2>6 DEF Ahead, IsOld, NameAt
  <2>8. watch'[watches'[d]].path = Append(watch'[watches'[place'[d].in]].path, m)
    BY <1>1, <1>2, <1>9, <1>10, <2>1, <2>2, <2>6
  <2>9. QED
    BY <2>7, <2>8 DEF Follows
<1>13. QED
  BY <1>11, <1>12

LEMMA FreshPaths ==
  ASSUME IInv, TypeOK', PInv, Get("wake"), NEW n \in Inodes, Exists(n), NEW fails \in Attempts,
         watches[FolderOf(n)] = None, Watches # Ids, Become(AddWatch(Got, n, fails))
  PROVE  PInv'
<1>1. TypeOK /\ MapInv /\ place' = place /\ used' = used
  BY DEF IInv, PInv, Get
<1>2. PICK f \in Folders, w \in Ids : IsFresh(f, w)
  BY FreshDoes
<1>3. MapInv' /\ Watches' = Watches \cup {w}
  BY <1>1, <1>2, FreshMap
<1>4. \A v \in Watches : v \in Ids /\ v # w /\ watch'[v] = watch[v]
  BY <1>2 DEF IsFresh, Watches
<1>5. ASSUME Clean'
      PROVE  \E own \in Owners : NamesInv(own)' /\ PathInv(own)'
  <2>1. Clean
    BY <1>1, <1>3, <1>4, <1>5, CleanBefore
  <2>2. PICK own \in Owners : NamesInv(own) /\ PathInv(own)
    BY <2>1 DEF PInv
  <2>3. SeesNothing(w)'
    BY <1>2 DEF IsFresh, SeesNothing
  <2>4. \A v \in Watches : SeenStays(v)
    BY <1>4 DEF SeenStays
  <2>5. NamesInv(own)'
    BY <1>1, <1>3, <2>2, <2>3, <2>4, NamesStay
  <2>6. ASSUME NEW v \in Watches'
        PROVE  Remembers(v)' /\ Rooted(v, own)'
    <3>1. CASE v \in Watches
      <4>1. Remembers(v) /\ Rooted(v, own) /\ watch'[v] = watch[v]
        BY <1>4, <2>2, <3>1 DEF PathInv
      <4>2. QED
        BY <1>1, <4>1 DEF Remembers, Rooted, IsOld, NameAt
    <3>2. CASE v = w
      <4>1. /\ watch'[w].seen = <<>> /\ watch'[w].told = <<>>
            /\ watch'[w].ino = f /\ watch'[w].path = PathOf(f) /\ Exists(f)
        BY <1>2 DEF IsFresh
      <4>2. Len(watch'[w].seen) = 0 /\ Len(watch'[w].told) = 0
        BY <4>1
      <4>3. Remembers(w)'
        BY <4>2 DEF Remembers, IsOld
      <4>4. Rooted(w, own)'
        <5>1. CASE f = Root
          <6>1. watch'[w].path = <<>> /\ Len(watch'[w].path) = 0
            BY <4>1, <5>1 DEF PathOf
          <6>2. QED
            BY <4>1, <5>1, <6>1 DEF Rooted
        <5>2. CASE f # Root
          <6>1. f \in Given
            BY <5>2 DEF Folders, Given
          <6>2. place[f].name \in used /\ own[place[f].in][place[f].name] = f
            BY <2>2, <4>1, <6>1 DEF NamesInv, Placed
          <6>3. CASE place[f].in = Root
            <7>1. watch'[w].path = <<place[f].name>>
              BY <4>1, <5>2, <6>3 DEF PathOf
            <7>2. Len(watch'[w].path) = 1 /\ watch'[w].path[1] = place[f].name
              BY <7>1
            <7>3. QED
              BY <1>1, <4>1, <5>2, <6>2, <6>3, <7>2 DEF Rooted
          <6>4. CASE place[f].in # Root
            <7>1. Exists(place[f].in) /\ place[f].in \in Given
              BY <1>1, <4>1, <6>1, <6>4, FolderFacts DEF Given
            <7>2. place[place[f].in].name \in used
              BY <2>2, <7>1 DEF NamesInv, Placed
            <7>3. watch'[w].path = <<place[place[f].in].name, place[f].name>>
              BY <4>1, <5>2, <6>4 DEF PathOf
            <7>4. /\ Len(watch'[w].path) = 2 /\ watch'[w].path[1] = place[place[f].in].name
                  /\ watch'[w].path[2] = place[f].name
              BY <7>3
            <7>5. QED
              BY <1>1, <4>1, <5>2, <6>2, <7>2, <7>4 DEF Rooted
          <6>5. QED
            BY <6>3, <6>4
        <5>3. QED
          BY <5>1, <5>2
      <4>5. QED
        BY <3>2, <4>3, <4>4
    <3>3. QED
      BY <1>3, <3>1, <3>2
  <2>7. ASSUME NEW d \in Dirs, Watched(d)'
        PROVE  Follows(d, own)'
    BY <1>1, <1>2, <2>2, <2>7, FreshFollows DEF NamesInv
  <2>8. PathInv(own)'
    BY <2>6, <2>7 DEF PathInv
  <2>9. QED
    BY <2>5, <2>8
<1>6. QED
  BY <1>3, <1>5 DEF PInv

-----------------------------------------------------------------------------
(* What happens in a directory is seen by the open watches of it. *)

Hears(f, ns) ==
  /\ Watches' = Watches /\ watches' = watches
  /\ \A v \in Watches :
       /\ watch'[v].ino = watch[v].ino /\ watch'[v].open = watch[v].open
       /\ watch'[v].told = watch[v].told /\ SamePath(watch[v], watch'[v])
       /\ watch[v].overflowed = TRUE => watch'[v].overflowed = TRUE
       /\ watch'[v].overwritten = watch[v].overwritten
       /\ watch'[v].seen = IF watch[v].open = TRUE /\ watch[v].ino = f
                           THEN watch[v].seen \o ns ELSE watch[v].seen

LEMMA NotedPath ==
  ASSUME NEW r \in Watch, NEW ns \in Seq(Acts)
  PROVE  SamePath(r, Noted(r, ns))
BY DEF Noted, SamePath, Watch

\* A watch that hears of it, and one that does not.
HearsAll(r, q, ns) ==
  /\ q \in Watch /\ q.ino = r.ino /\ q.open = r.open /\ q.told = r.told /\ SamePath(r, q)
  /\ r.overflowed = TRUE => q.overflowed = TRUE
  /\ q.overwritten = r.overwritten /\ q.seen = r.seen \o ns

LEMMA OneHears ==
  ASSUME NEW r \in Watch, NEW ns \in Seq(Acts)
  PROVE  HearsAll(r, Noted(r, ns), ns)
<1>1. PICK q : q = Noted(r, ns)
  OBVIOUS
<1>2. Heard(r, q, ns) /\ SamePath(r, q)
  BY <1>1, NotedDoes, NotedPath
<1>3. QED
  BY <1>1, <1>2 DEF Heard, HearsAll

LEMMA NoteHears ==
  ASSUME TypeOK, NEW f, NEW ns \in Seq(Acts), Note(f, ns), watches' = watches
  PROVE  Hears(f, ns)
<1>1. watch' = [w \in Ids |-> IF w \in Watches /\ watch[w].open /\ watch[w].ino = f
                              THEN Noted(watch[w], ns) ELSE watch[w]]
  BY DEF Note
<1>2. ASSUME NEW v \in Watches
      PROVE  /\ watch'[v] \in Watch
             /\ watch'[v].ino = watch[v].ino /\ watch'[v].open = watch[v].open
             /\ watch'[v].told = watch[v].told /\ SamePath(watch[v], watch'[v])
             /\ watch[v].overflowed = TRUE => watch'[v].overflowed = TRUE
             /\ watch'[v].overwritten = watch[v].overwritten
             /\ watch'[v].seen = IF watch[v].open = TRUE /\ watch[v].ino = f
                                 THEN watch[v].seen \o ns ELSE watch[v].seen
  <2>1. v \in Ids /\ watch[v] \in Watch /\ watch[v].open \in BOOLEAN
    BY Made DEF TypeOK, Watch
  <2>2. CASE watch[v].open = TRUE /\ watch[v].ino = f
    <3>0. HearsAll(watch[v], Noted(watch[v], ns), ns)
      BY <2>1, OneHears
    <3>1. watch'[v] = Noted(watch[v], ns)
      BY <1>1, <2>1, <2>2
    <3>2. QED
      BY <2>1, <2>2, <3>1, <3>0 DEF HearsAll
  <2>3. CASE ~ (watch[v].open = TRUE /\ watch[v].ino = f)
    <3>1. watch'[v] = watch[v]
      BY <1>1, <2>1, <2>3
    <3>2. QED
      BY <2>1, <2>3, <3>1 DEF SamePath
  <2>4. QED
    BY <2>2, <2>3
<1>3. \A v \in Ids : v \notin Watches => watch'[v] = None
  BY <1>1 DEF Watches
<1>4. Watches' = Watches
  BY <1>2, <1>3, WatchesAssumption DEF Watches
<1>5. QED
  BY <1>2, <1>4 DEF Hears

LEMMA DeleteHears ==
  ASSUME TypeOK, NEW n \in Given, Delete(n)
  PROVE  Hears(place[n].in, <<Act("removed", place[n].name)>>)
<1>0. Exists(n) /\ ~ \E m \in Dirs \cup Files : Exists(m) /\ place[m].in = n
  BY Zenon DEF Delete
<1>10. place[n].in \in Folders /\ place[n].name \in Names
  BY <1>0, FolderFacts
<1>1. PICK f \in Folders, name \in Names : f = place[n].in /\ name = place[n].name
  BY <1>10
<1>20. PICK a \in Acts : a = Act("removed", name)
  BY DEF Act, Acts
<1>2. PICK ns \in Seq(Acts) : ns = <<Act("removed", name)>>
  <2>1. <<a>> \in Seq(Acts)
    OBVIOUS
  <2>2. QED
    BY <1>20, <2>1
<1>3. f # n
  BY <1>0, <1>1 DEF Given
<1>4. PICK denied : denied = {w \in Watches : watch[w].ino = n /\ watch[w].pending}
  OBVIOUS
<1>5. watches' = watches /\ watch' = [w \in Ids |->
             IF w \in denied THEN [watch[w] EXCEPT !.pending = FALSE]
             ELSE IF w \in Watches /\ watch[w].open /\ watch[w].ino = f
             THEN Noted(watch[w], ns) ELSE watch[w]]
  BY <1>1, <1>2, <1>4 DEF Delete, Change
<1>6. ASSUME NEW v \in Watches
      PROVE  /\ watch'[v] \in Watch
             /\ watch'[v].ino = watch[v].ino /\ watch'[v].open = watch[v].open
             /\ watch'[v].told = watch[v].told /\ SamePath(watch[v], watch'[v])
             /\ watch[v].overflowed = TRUE => watch'[v].overflowed = TRUE
             /\ watch'[v].overwritten = watch[v].overwritten
             /\ watch'[v].seen = IF watch[v].open = TRUE /\ watch[v].ino = f
                                 THEN watch[v].seen \o ns ELSE watch[v].seen
  <2>1. v \in Ids /\ watch[v] \in Watch /\ watch[v].open \in BOOLEAN
    BY Made DEF TypeOK, Watch
  <2>2. CASE v \in denied
    <3>1. watch[v].ino # f
      BY <1>3, <1>4, <2>2
    <3>2. PICK r \in Watch : r = watch[v]
      BY <2>1
    <3>3. watch'[v] = [r EXCEPT !.pending = FALSE]
      BY <1>5, <2>1, <2>2, <3>2
    <3>4. /\ watch'[v] \in Watch /\ watch'[v].ino = r.ino /\ watch'[v].open = r.open
          /\ watch'[v].told = r.told /\ SamePath(r, watch'[v])
          /\ watch'[v].overflowed = r.overflowed
          /\ watch'[v].overwritten = r.overwritten /\ watch'[v].seen = r.seen
      BY <3>3 DEF Watch, SamePath
    <3>5. QED
      BY <3>1, <3>2, <3>4
  <2>3. CASE v \notin denied /\ watch[v].open = TRUE /\ watch[v].ino = f
    <3>0. HearsAll(watch[v], Noted(watch[v], ns), ns)
      BY <2>1, OneHears
    <3>1. watch'[v] = Noted(watch[v], ns)
      BY <1>5, <2>1, <2>3
    <3>2. QED
      BY <2>1, <2>3, <3>0, <3>1 DEF HearsAll
  <2>4. CASE v \notin denied /\ ~ (watch[v].open = TRUE /\ watch[v].ino = f)
    <3>1. watch'[v] = watch[v]
      BY <1>5, <2>1, <2>4
    <3>2. QED
      BY <2>1, <2>4, <3>1 DEF SamePath
  <2>5. QED
    BY <2>2, <2>3, <2>4
<1>7. \A v \in Ids : v \notin Watches => watch'[v] = None
  BY <1>4, <1>5 DEF Watches
<1>8. Watches' = Watches
  BY <1>6, <1>7, WatchesAssumption DEF Watches
<1>9. QED
  BY <1>1, <1>2, <1>5, <1>6, <1>8 DEF Hears

LEMMA HearsMap ==
  ASSUME NEW f, NEW ns, Hears(f, ns)
  PROVE  MapStep
BY DEF Hears, MapStep, SamePath

\* The changes seen before stay where they are, and the new ones are behind them.
Grows(v, f, ns, L) ==
  /\ L \in Nat /\ L <= Len(watch'[v].seen) /\ Len(watch'[v].seen) \in Nat /\ Len(ns) \in Nat
  /\ \A i \in Nat : i <= L => /\ IsOld(v, i)' <=> IsOld(v, i)
                              /\ IsNew(v, i)' <=> IsNew(v, i)
  /\ \A i \in 1 .. L : NameAt(v, i)' = NameAt(v, i) /\ i \in 1 .. Len(watch'[v].seen)
  /\ watch[v].open = TRUE /\ watch[v].ino = f =>
       /\ Len(watch'[v].seen) = L + Len(ns)
       /\ \A i \in 1 .. Len(ns) : watch'[v].seen[L + i] = ns[i]
  /\ ~ (watch[v].open = TRUE /\ watch[v].ino = f) => Len(watch'[v].seen) = L

LEMMA Grown ==
  ASSUME TypeOK, NEW f, NEW ns \in Seq(Acts), Hears(f, ns), NEW v \in Watches
  PROVE  \E L : L = Len(watch[v].seen) /\ Grows(v, f, ns, L)
<1>0. PICK L : L = Len(watch[v].seen)
  OBVIOUS
<1>1. PICK seen \in Seq(Acts) : seen = watch[v].seen
  BY Made DEF TypeOK, Watch
<1>2. L \in Nat /\ L = Len(seen) /\ Len(ns) \in Nat
  BY <1>0, <1>1
<1>3. PICK later : later = watch'[v].seen
  OBVIOUS
<1>4. later = IF watch[v].open = TRUE /\ watch[v].ino = f THEN seen \o ns ELSE seen
  BY <1>1, <1>3 DEF Hears
<1>5. /\ Len(seen \o ns) = L + Len(ns)
      /\ \A i \in 1 .. L : (seen \o ns)[i] = seen[i]
      /\ \A i \in 1 .. Len(ns) : (seen \o ns)[L + i] = ns[i]
  <2>1. /\ Len(seen \o ns) = Len(seen) + Len(ns)
        /\ \A i \in 1 .. Len(seen) + Len(ns) :
             (seen \o ns)[i] = IF i <= Len(seen) THEN seen[i] ELSE ns[i - Len(seen)]
    BY ConcatProperties
  <2>2. ASSUME NEW i \in 1 .. Len(ns)
        PROVE  (seen \o ns)[L + i] = ns[i]
    <3>1. L + i \in 1 .. L + Len(ns) /\ ~ (L + i <= L) /\ (L + i) - L = i
      BY <1>2
    <3>2. QED
      BY <1>2, <2>1, <3>1
  <2>3. QED
    BY <1>2, <2>1, <2>2
<1>6. /\ Len(later) >= L /\ Len(later) \in Nat
      /\ \A i \in 1 .. L : later[i] = seen[i]
  BY <1>2, <1>4, <1>5
<1>7. ASSUME NEW i \in Nat, i <= L
      PROVE  (IsOld(v, i)' <=> IsOld(v, i)) /\ (IsNew(v, i)' <=> IsNew(v, i))
  <2>1. i \in 1 .. Len(later) <=> i \in 1 .. L
    BY <1>2, <1>6, <1>7
  <2>2. i \in 1 .. L => later[i] = seen[i]
    BY <1>6
  <2>3. QED
    BY <1>1, <1>2, <1>3, <2>1, <2>2 DEF IsOld, IsNew
<1>8. ASSUME NEW i \in 1 .. L
      PROVE  NameAt(v, i)' = NameAt(v, i) /\ i \in 1 .. Len(watch'[v].seen)
  BY <1>1, <1>2, <1>3, <1>6 DEF NameAt
<1>9. Grows(v, f, ns, L)
  <2>1. L \in Nat /\ L <= Len(watch'[v].seen) /\ Len(watch'[v].seen) \in Nat /\ Len(ns) \in Nat
    BY <1>2, <1>3, <1>6
  <2>2. ~ (watch[v].open = TRUE /\ watch[v].ino = f) => Len(watch'[v].seen) = L
    BY <1>2, <1>3, <1>4
  <2>3. watch[v].open = TRUE /\ watch[v].ino = f =>
          /\ Len(watch'[v].seen) = L + Len(ns)
          /\ \A i \in 1 .. Len(ns) : watch'[v].seen[L + i] = ns[i]
    BY <1>3, <1>4, <1>5
  <2>4. QED
    BY <1>7, <1>8, <2>1, <2>2, <2>3 DEF Grows
<1>10. QED
  BY <1>0, <1>9

\* What it makes of the paths: what is renamed has its old name in the part of the
\* directory's changes that the reader has not come to.
LEMMA HearsPaths ==
  ASSUME TypeOK, TypeOK', MapInv, NEW f, NEW ns \in Seq(Acts), Hears(f, ns), used \subseteq used',
         NEW own \in Owners, NEW own2 \in Owners,
         \A g \in Folders, m \in used : own2[g][m] = own[g][m],
         \A d \in Dirs : Exists(d)' /\ place[d] # New =>
           /\ Exists(d) /\ place'[d].in = place[d].in
           /\ \/ place'[d].name = place[d].name
              \/ f = place[d].in /\ Len(ns) >= 1 /\ ns[1].act = "old" /\ ns[1].name = place[d].name,
         PathInv(own)
  PROVE  PathInv(own2)'
<1>1. Watches' = Watches /\ watches' = watches
  BY DEF Hears
<1>2. ASSUME NEW v \in Watches
      PROVE  Remembers(v)' /\ Rooted(v, own2)'
  <2>1. Remembers(v) /\ Rooted(v, own)
    BY DEF PathInv
  <2>2. watch'[v].told = watch[v].told /\ SamePath(watch[v], watch'[v]) /\ watch'[v].ino = watch[v].ino
    BY DEF Hears
  <2>3. PICK L \in Nat : /\ L = Len(watch[v].seen) /\ L <= Len(watch'[v].seen)
                         /\ \A i \in Nat : i <= L => (IsOld(v, i)' <=> IsOld(v, i))
                         /\ \A i \in 1 .. L : NameAt(v, i)' = NameAt(v, i)
    <3>1. PICK L : L = Len(watch[v].seen) /\ Grows(v, f, ns, L)
      BY Grown
    <3>2. QED
      BY <3>1 DEF Grows
  <2>4. Len(watch[v].told) \in Nat /\ Len(watch'[v].seen) \in Nat
    <3>1. watch[v] \in Watch /\ watch'[v] \in Watch
      BY <1>1, Made DEF TypeOK, WatchTypeOK, Watches
    <3>2. watch[v].told \in Seq(Nat) /\ watch'[v].seen \in Seq(Acts)
      BY <3>1 DEF Watch
    <3>3. QED
      BY <3>2
  <2>5. Remembers(v)'
    <3>1. Len(watch'[v].told) <= Len(watch'[v].seen)
      BY <2>1, <2>2, <2>3, <2>4 DEF Remembers
    <3>2. PICK t \in Nat : t = Len(watch[v].told) /\ t = Len(watch'[v].told)
      BY <2>2, <2>4
    <3>3. ASSUME IsOld(v, t)'
          PROVE  watch'[v].rename = NameAt(v, t)'
      <4>1. t <= L
        BY <2>1, <2>3, <3>2 DEF Remembers
      <4>2. IsOld(v, t)
        BY <2>3, <3>3, <4>1
      <4>3. t \in 1 .. L
        BY <2>3, <4>2 DEF IsOld
      <4>4. watch[v].rename = NameAt(v, t)
        BY <2>1, <3>2, <4>2 DEF Remembers
      <4>5. QED
        BY <2>2, <2>3, <4>3, <4>4 DEF SamePath
    <3>4. QED
      BY <3>1, <3>2, <3>3 DEF Remembers
  <2>6. Rooted(v, own2)'
    <3>1. watch'[v].path = watch[v].path
      BY <2>2 DEF SamePath
    <3>2. \A i \in 1 .. Len(watch[v].path) : watch[v].path[i] \in used
      BY <2>1 DEF Rooted
    <3>3. Len(watch[v].path) = 1 => own2[Root][watch[v].path[1]] = own[Root][watch[v].path[1]]
      BY <3>2 DEF Folders
    <3>4. QED
      BY <2>1, <2>2, <3>1, <3>2, <3>3 DEF Rooted
  <2>7. QED
    BY <2>5, <2>6
<1>3. ASSUME NEW d \in Dirs, Watched(d)'
      PROVE  Follows(d, own2)'
  <2>1. Exists(d)' /\ d # Root
    BY <1>3, WatchesAssumption DEF Watched
  <2>2. watches[d] \in Watches /\ watch[watches[d]].ino = d
    <3>1. d \in Folders /\ watches'[d] # None
      BY <1>3 DEF Watched, Older, Folders
    <3>2. QED
      BY <1>1, <3>1 DEF TypeOK, WatchTypeOK
  <2>3. place[d] # New
    BY <2>1, <2>2 DEF MapInv
  <2>4. /\ Exists(d) /\ place'[d].in = place[d].in
        /\ \/ place'[d].name = place[d].name
           \/ f = place[d].in /\ Len(ns) >= 1 /\ ns[1].act = "old" /\ ns[1].name = place[d].name
    BY <2>1, <2>3
  <2>5. MapStep
    BY HearsMap
  <2>6. Watched(d)
    BY <1>3, <2>4, <2>5, StaysWatched
  <2>7. PICK g \in Folders : g = place[d].in /\ g = place'[d].in
    BY <2>4, <2>6, WatchedFacts
  <2>80. /\ watches[place[d].in] \in Watches /\ watch[watches[place[d].in]].ino = place[d].in
         /\ InMap(watches[place[d].in])
    BY <2>6, WatchedFacts
  <2>81. PICK v : v = watches[g]
    OBVIOUS
  <2>8. v \in Watches /\ v = watches[g] /\ watch[v].ino = g /\ InMap(v)
    BY <2>7, <2>80, <2>81
  <2>9. PICK m \in Names : Ahead(d, m, own) /\ watch[watches[d]].path = Append(watch[v].path, m)
    <3>1. Follows(d, own)
      BY <2>6 DEF PathInv
    <3>2. QED
      BY <2>7, <2>8, <3>1 DEF Follows
  <2>10. watch'[watches'[d]].path = Append(watch'[watches'[place'[d].in]].path, m)
    <3>1. PICK u \in Watches : u = watches[d] /\ u = watches'[d]
      BY <1>1, <2>2
    <3>2. watch'[u].path = watch[u].path /\ watch'[v].path = watch[v].path
      BY <2>8 DEF Hears, SamePath
    <3>3. v = watches'[place'[d].in]
      BY <1>1, <2>7, <2>8
    <3>4. QED
      BY <2>9, <3>1, <3>2, <3>3
  <2>11. watch'[v].told = watch[v].told /\ watch[v].open = TRUE
    <3>1. watch[v].open = TRUE
      BY <2>8 DEF MapInv
    <3>2. watch'[v].told = watch[v].told
      BY <2>8 DEF Hears
    <3>3. QED
      BY <3>1, <3>2
  <2>12. PICK L : L = Len(watch[v].seen) /\ Grows(v, f, ns, L)
    BY <2>8, Grown
  <2>13. m \in used' /\ own2[g][m] = d
    BY <2>7, <2>9 DEF Ahead
  <2>14. ASSUME place[d].name = m
         PROVE  Ahead(d, m, own2)'
    <3>1. ASSUME place'[d].name = place[d].name
          PROVE  Ahead(d, m, own2)'
      BY <2>7, <2>13, <2>14, <3>1 DEF Ahead
    <3>2. ASSUME f = place[d].in /\ Len(ns) >= 1 /\ ns[1].act = "old" /\ ns[1].name = place[d].name
          PROVE  Ahead(d, m, own2)'
      <4>1. Len(watch'[v].seen) = L + Len(ns) /\ watch'[v].seen[L + 1] = ns[1]
        <5>1. 1 \in 1 .. Len(ns)
          BY <3>2
        <5>2. QED
          BY <2>7, <2>8, <2>11, <2>12, <3>2, <5>1 DEF Grows
      <4>2. L + 1 \in 1 .. Len(watch'[v].seen) /\ L + 1 \in Nat
        BY <2>12, <3>2, <4>1 DEF Grows
      <4>3. IsOld(v, L + 1)' /\ NameAt(v, L + 1)' = m
        BY <2>14, <3>2, <4>1, <4>2 DEF IsOld, NameAt
      <4>4. L + 1 >= Len(watch'[v].told)
        <5>1. Len(watch[v].told) <= L
          BY <2>8, <2>12 DEF PathInv, Remembers
        <5>2. Len(watch[v].told) \in Nat
          BY Made DEF TypeOK, Watch
        <5>3. QED
          BY <2>11, <2>12, <5>1, <5>2 DEF Grows
      <4>5. QED
        BY <1>1, <2>7, <2>8, <2>13, <4>2, <4>3, <4>4 DEF Ahead
    <3>3. QED
      BY <2>4, <3>1, <3>2
  <2>15. ASSUME NEW i \in Nat, i >= Len(watch[v].told), IsOld(v, i), NameAt(v, i) = m
         PROVE  Ahead(d, m, own2)'
    <3>1. i \in 1 .. L
      BY <2>12, <2>15 DEF IsOld
    <3>2. IsOld(v, i)' /\ NameAt(v, i)' = m
      BY <2>12, <2>15, <3>1 DEF Grows
    <3>3. QED
      BY <1>1, <2>7, <2>8, <2>11, <2>13, <2>15, <3>2 DEF Ahead
  <2>16. Ahead(d, m, own2)'
    BY <2>7, <2>8, <2>9, <2>14, <2>15 DEF Ahead
  <2>17. QED
    BY <2>10, <2>16 DEF Follows
<1>4. QED
  BY <1>1, <1>2, <1>3 DEF PathInv

-----------------------------------------------------------------------------
(* Steps in which something is given a name, loses it, or only has it. *)

\* Nothing is called as before, in two halves of which the second is the new name,
\* or there is no word of a rename.
Word(f, ns, own) ==
  \/ Len(ns) = 1 /\ ns[1].act \notin {"old", "new"}
  \/ /\ Len(ns) = 2 /\ ns[1].act = "old" /\ ns[2].act = "new" /\ ns[1].name \in used
     /\ \E n \in Given : Exists(n) /\ place[n].in = f /\ place[n].name = ns[1].name
     /\ own[f][ns[1].name] = own[f][ns[2].name]
     /\ own[f][ns[2].name] \in Given
     /\ \A n \in Given : n = own[f][ns[2].name] => place'[n] # New /\ place'[n].name = ns[2].name
     /\ \A n \in Given : Exists(n)' /\ place'[n].in = f => place'[n].name # ns[1].name
NameStep(f, ns, own, own2) ==
  /\ Hears(f, ns) /\ used \subseteq used'
  /\ \A g \in Folders, m \in used : own2[g][m] = own[g][m]
  /\ \A n \in Given : place[n] # New => place'[n] # New
  /\ \A n \in Given : Exists(n)' =>
       /\ place'[n].name \in used' /\ own2[place'[n].in][place'[n].name] = n
       /\ \/ Exists(n) /\ place'[n].in = place[n].in /\ place'[n].name = place[n].name
          \/ place'[n].name \notin used
  /\ \A n \in Given : Exists(n)' /\ place[n] # New =>
       /\ Exists(n) /\ place'[n].in = place[n].in
       /\ \/ place'[n].name = place[n].name
          \/ f = place[n].in /\ Len(ns) >= 1 /\ ns[1].act = "old" /\ ns[1].name = place[n].name
  /\ \A i \in 1 .. Len(ns) : ns[i].name \in used'
  /\ Word(f, ns, own2)

\* What a watch has now heard, it had heard before, or it is in the notes.
HalfOld(v, i, L, f, ns) ==
  /\ i = L + 1 /\ watch[v].open = TRUE /\ watch[v].ino = f /\ Len(ns) = 2
  /\ ns[1].act = "old" /\ NameAt(v, i)' = ns[1].name
  /\ IsNew(v, i + 1)' /\ NameAt(v, i + 1)' = ns[2].name
HalfNew(v, i, L, f, ns) ==
  /\ i = L + 2 /\ watch[v].open = TRUE /\ watch[v].ino = f /\ Len(ns) = 2
  /\ ns[2].act = "new" /\ NameAt(v, i)' = ns[2].name
  /\ IsOld(v, i - 1)' /\ NameAt(v, i - 1)' = ns[1].name

LEMMA HeardNow ==
  ASSUME NEW f, NEW ns, NEW own, Word(f, ns, own), NEW v, NEW L, Grows(v, f, ns, L), NEW i \in Nat
  PROVE  /\ IsOld(v, i)' => (i <= L /\ IsOld(v, i)) \/ HalfOld(v, i, L, f, ns)
         /\ IsNew(v, i)' => (i <= L /\ IsNew(v, i)) \/ HalfNew(v, i, L, f, ns)
<1>1. L \in Nat /\ Len(ns) \in {1, 2}
  BY DEF Grows, Word
<1>2. CASE i <= L
  BY <1>2 DEF Grows
<1>3. CASE i > L /\ ~ (watch[v].open = TRUE /\ watch[v].ino = f)
  <2>1. ~ (i \in 1 .. Len(watch'[v].seen))
    BY <1>1, <1>3 DEF Grows
  <2>2. QED
    BY <2>1 DEF IsOld, IsNew
<1>4. CASE i > L /\ watch[v].open = TRUE /\ watch[v].ino = f
  <2>1. /\ Len(watch'[v].seen) = L + Len(ns) /\ watch'[v].seen[L + 1] = ns[1]
        /\ Len(ns) = 2 => watch'[v].seen[L + 2] = ns[2]
    <3>1. 1 \in 1 .. Len(ns) /\ (Len(ns) = 2 => 2 \in 1 .. Len(ns))
      BY <1>1
    <3>2. QED
      BY <1>4, <3>1 DEF Grows
  <2>2. i \in 1 .. Len(watch'[v].seen) => i = L + 1 \/ (i = L + 2 /\ Len(ns) = 2)
    <3>1. CASE Len(ns) = 1
      BY <1>1, <1>4, <2>1, <3>1
    <3>2. CASE Len(ns) = 2
      BY <1>1, <1>4, <2>1, <3>2
    <3>3. QED
      BY <1>1, <3>1, <3>2
  <2>3. CASE Len(ns) = 1 /\ ns[1].act \notin {"old", "new"}
    BY <2>1, <2>2, <2>3 DEF IsOld, IsNew
  <2>4. CASE Len(ns) = 2 /\ ns[1].act = "old" /\ ns[2].act = "new"
    <3>1. L + 1 \in 1 .. Len(watch'[v].seen) /\ L + 2 \in 1 .. Len(watch'[v].seen)
      BY <1>1, <2>1, <2>4
    <3>2. (L + 1) + 1 = L + 2 /\ (L + 2) - 1 = L + 1
      BY <1>1
    <3>3. ~IsOld(v, L + 2)' /\ ~IsNew(v, L + 1)' /\ IsOld(v, L + 1)' /\ IsNew(v, L + 2)'
      BY <2>1, <2>4, <3>1 DEF IsOld, IsNew
    <3>4. NameAt(v, L + 1)' = ns[1].name /\ NameAt(v, L + 2)' = ns[2].name
      BY <2>1, <2>4 DEF NameAt
    <3>5. IsOld(v, i)' \/ IsNew(v, i)' => i = L + 1 \/ i = L + 2
      BY <2>2 DEF IsOld, IsNew
    <3>6. CASE i = L + 1
      BY <1>4, <2>4, <3>2, <3>3, <3>4, <3>6 DEF HalfOld
    <3>7. CASE i = L + 2
      BY <1>4, <2>4, <3>2, <3>3, <3>4, <3>7 DEF HalfNew
    <3>8. QED
      BY <3>5, <3>6, <3>7
  <2>5. QED
    BY <2>3, <2>4 DEF Word
<1>5. QED
  <2>1. i <= L \/ i > L
    BY <1>1
  <2>2. QED
    BY <1>2, <1>3, <1>4, <2>1, Zenon

LEMMA NamesHeard ==
  ASSUME TypeOK, NEW f \in Folders, NEW ns \in Seq(Acts), NEW own \in Owners, NEW own2 \in Owners,
         NameStep(f, ns, own, own2), NamesInv(own), NEW v \in Watches
  PROVE  Story(v, own2)'
<1>1. PICK L : L = Len(watch[v].seen) /\ Grows(v, f, ns, L)
  BY Grown DEF NameStep
<1>2. L \in Nat /\ Len(ns) \in Nat
  BY <1>1 DEF Grows
<1>3. PICK g \in Folders : g = watch[v].ino /\ g = watch'[v].ino
  BY Made DEF TypeOK, NameStep, Hears, Watch
<1>4. watch'[v].open = watch[v].open
  BY DEF NameStep, Hears
<1>5. Story(v, own)
  BY DEF NamesInv
\* Of a change that had been seen.
<1>6. ASSUME NEW i \in 1 .. L
      PROVE  /\ NameAt(v, i)' = NameAt(v, i) /\ NameAt(v, i) \in used
             /\ OwnerAt(v, i, own2)' = OwnerAt(v, i, own)
  <2>1. NameAt(v, i)' = NameAt(v, i)
    BY <1>1 DEF Grows
  <2>2. NameAt(v, i) \in used
    BY <1>1, <1>5 DEF Story
  <2>3. own2[g][NameAt(v, i)] = own[g][NameAt(v, i)]
    BY <2>2 DEF NameStep
  <2>4. QED
    BY <1>3, <2>1, <2>2, <2>3 DEF OwnerAt
<1>7. ASSUME NEW i \in 1 .. Len(watch'[v].seen)
      PROVE  NameAt(v, i)' \in used'
  <2>1. CASE i <= L
    BY <1>2, <1>6, <2>1 DEF NameStep
  <2>2. CASE i > L
    <3>1. watch[v].open = TRUE /\ watch[v].ino = f /\ i \in L + 1 .. L + Len(ns)
      BY <1>1, <1>2, <2>2 DEF Grows
    <3>2. i - L \in 1 .. Len(ns) /\ L + (i - L) = i
      BY <1>2, <3>1
    <3>3. watch'[v].seen[i] = ns[i - L]
      BY <1>1, <3>1, <3>2 DEF Grows
    <3>4. QED
      BY <3>2, <3>3 DEF NameAt, NameStep
  <2>3. QED
    BY <1>2, <2>1, <2>2
<1>8. ASSUME NEW i \in Nat, IsOld(v, i)'
      PROVE  Left(v, i, own2)'
  <2>1. CASE i <= L /\ IsOld(v, i)
    <3>1. Left(v, i, own)
      BY <1>5, <2>1 DEF Story
    <3>2. i \in 1 .. L /\ i + 1 \in 1 .. L /\ IsNew(v, i + 1)
      BY <1>1, <1>2, <2>1, <3>1 DEF Left, IsOld, IsNew
    <3>3. IsNew(v, i + 1)'
      BY <1>1, <1>2, <3>2 DEF Grows
    <3>4. OwnerAt(v, i + 1, own2)' = OwnerAt(v, i, own2)'
      BY <1>6, <3>1, <3>2 DEF Left
    <3>5. ASSUME NEW n \in Given, Exists(n)', place'[n].in = g
          PROVE  place'[n].name # NameAt(v, i)
      <4>1. CASE Exists(n) /\ place'[n].in = place[n].in /\ place'[n].name = place[n].name
        BY <1>3, <3>1, <3>5, <4>1 DEF Left
      <4>2. CASE place'[n].name \notin used
        BY <1>6, <3>2, <4>2
      <4>3. QED
        BY <3>5, <4>1, <4>2 DEF NameStep
    <3>6. QED
      BY <1>3, <1>6, <3>2, <3>3, <3>4, <3>5 DEF Left
  <2>2. CASE HalfOld(v, i, L, f, ns)
    <3>1. /\ own2[f][ns[1].name] = own2[f][ns[2].name]
          /\ \A n \in Given : Exists(n)' /\ place'[n].in = f => place'[n].name # ns[1].name
      BY <2>2 DEF NameStep, Word, HalfOld
    <3>2. OwnerAt(v, i + 1, own2)' = OwnerAt(v, i, own2)'
      BY <1>3, <2>2, <3>1 DEF OwnerAt, HalfOld
    <3>3. QED
      BY <1>3, <2>2, <3>1, <3>2 DEF Left, HalfOld
  <2>3. Word(f, ns, own2)
    BY DEF NameStep
  <2>4. QED
    BY <1>1, <1>8, <2>1, <2>2, <2>3, HeardNow
<1>9. ASSUME NEW i \in Nat, IsNew(v, i)'
      PROVE  Came(v, i, own2)'
  <2>1. CASE i <= L /\ IsNew(v, i)
    <3>1. Came(v, i, own)
      BY <1>5, <2>1 DEF Story
    <3>2. i \in 1 .. L /\ i - 1 \in 1 .. L /\ IsOld(v, i - 1)
      BY <1>1, <1>2, <2>1, <3>1 DEF Came, IsOld, IsNew
    <3>3. IsOld(v, i - 1)'
      BY <1>1, <1>2, <3>2 DEF Grows
    <3>4. PICK o : o = OwnerAt(v, i, own) /\ o = OwnerAt(v, i, own2)'
      BY <1>6, <3>2
    <3>5. o \in Given /\ place[o] # New /\ place'[o] # New
      BY <3>1, <3>4 DEF Came, NameStep
    <3>6. ASSUME Exists(o)', place'[o].in = g, watch'[v].open = TRUE
          PROVE  place'[o].name = NameAt(v, i)' \/ \E j \in Nat : j > i /\ IsOld(v, j)' /\ NameAt(v, j)' = NameAt(v, i)'
      <4>1. /\ Exists(o) /\ place'[o].in = place[o].in
            /\ \/ place'[o].name = place[o].name
               \/ f = place[o].in /\ Len(ns) >= 1 /\ ns[1].act = "old" /\ ns[1].name = place[o].name
        BY <3>5, <3>6 DEF NameStep
      <4>2. \/ place[o].name = NameAt(v, i)
            \/ \E j \in Nat : j > i /\ IsOld(v, j) /\ NameAt(v, j) = NameAt(v, i)
        BY <1>3, <1>4, <3>1, <3>4, <3>5, <3>6, <4>1 DEF Came
      <4>3. CASE place'[o].name = place[o].name /\ place[o].name = NameAt(v, i)
        BY <1>6, <3>2, <4>3
      <4>4. ASSUME NEW j \in Nat, j > i, IsOld(v, j), NameAt(v, j) = NameAt(v, i)
            PROVE  IsOld(v, j)' /\ NameAt(v, j)' = NameAt(v, i)'
        <5>1. j \in 1 .. L
          BY <1>1, <4>4 DEF IsOld
        <5>2. IsOld(v, j)'
          BY <1>1, <1>2, <4>4, <5>1 DEF Grows
        <5>3. QED
          BY <1>6, <3>2, <4>4, <5>1, <5>2
      <4>5. CASE /\ f = place[o].in /\ Len(ns) >= 1 /\ ns[1].act = "old" /\ ns[1].name = place[o].name
                 /\ place[o].name = NameAt(v, i)
        <5>1. 1 \in 1 .. Len(ns) /\ watch[v].open = TRUE /\ watch[v].ino = f
          BY <1>2, <1>3, <1>4, <3>6, <4>1, <4>5
        <5>2. Len(watch'[v].seen) = L + Len(ns) /\ watch'[v].seen[L + 1] = ns[1]
          BY <1>1, <5>1 DEF Grows
        <5>3. L + 1 \in 1 .. Len(watch'[v].seen) /\ L + 1 \in Nat /\ L + 1 > i
          BY <1>2, <3>2, <4>5, <5>2
        <5>4. IsOld(v, L + 1)' /\ NameAt(v, L + 1)' = NameAt(v, i)'
          BY <1>6, <3>2, <4>5, <5>2, <5>3 DEF IsOld, NameAt
        <5>5. QED
          BY <5>3, <5>4
      <4>6. QED
        BY <4>1, <4>2, <4>3, <4>4, <4>5
    <3>7. QED
      BY <1>3, <3>3, <3>4, <3>5, <3>6 DEF Came
  <2>2. CASE HalfNew(v, i, L, f, ns)
    <3>1. /\ own2[f][ns[2].name] \in Given
          /\ \A n \in Given : n = own2[f][ns[2].name] => place'[n] # New /\ place'[n].name = ns[2].name
      BY <2>2 DEF NameStep, Word, HalfNew
    <3>2. OwnerAt(v, i, own2)' = own2[f][ns[2].name]
      BY <1>3, <2>2 DEF OwnerAt, HalfNew
    <3>3. QED
      BY <2>2, <3>1, <3>2 DEF Came, HalfNew
  <2>3. Word(f, ns, own2)
    BY DEF NameStep
  <2>4. QED
    BY <1>1, <1>9, <2>1, <2>2, <2>3, HeardNow
<1>10. QED
  BY <1>7, <1>8, <1>9 DEF Story


LEMMA AgreeHeard ==
  ASSUME TypeOK, NEW f \in Folders, NEW ns \in Seq(Acts), NEW own \in Owners, NEW own2 \in Owners,
         NameStep(f, ns, own, own2), NamesInv(own), NEW u \in Watches, NEW v \in Watches
  PROVE  Agree(u, v)'
<1>1. PICK K : K = Len(watch[u].seen) /\ Grows(u, f, ns, K)
  BY Grown DEF NameStep
<1>2. PICK L : L = Len(watch[v].seen) /\ Grows(v, f, ns, L)
  BY Grown DEF NameStep
<1>3. Agree(u, v) /\ Agree(v, u) /\ Story(u, own) /\ Story(v, own)
  BY DEF NamesInv
<1>4. watch'[u].ino = watch[u].ino /\ watch'[v].ino = watch[v].ino
  BY DEF NameStep, Hears
<1>5. Word(f, ns, own2)
  BY DEF NameStep
\* One watch heard of the name before, the other does now: the name was current.
<1>6. ASSUME NEW x \in Watches, NEW J, J = Len(watch[x].seen), NEW i \in Nat, i <= J, IsOld(x, i),
             watch[x].ino = f, Len(ns) = 2
      PROVE  NameAt(x, i) # ns[1].name
  <2>1. Left(x, i, own)
    BY <1>6 DEF NamesInv, Story
  <2>2. PICK n \in Given : Exists(n) /\ place[n].in = f /\ place[n].name = ns[1].name
    BY <1>5, <1>6 DEF Word
  <2>3. QED
    BY <1>6, <2>1, <2>2 DEF Left
<1>7. ASSUME watch[u].ino = watch[v].ino, NEW i \in Nat, NEW j \in Nat,
             IsOld(u, i)', IsOld(v, j)', NameAt(u, i)' = NameAt(v, j)'
      PROVE  NameAt(u, i + 1)' = NameAt(v, j + 1)'
  <2>1. (i <= K /\ IsOld(u, i)) \/ HalfOld(u, i, K, f, ns)
    BY <1>1, <1>5, <1>7, HeardNow
  <2>2. (j <= L /\ IsOld(v, j)) \/ HalfOld(v, j, L, f, ns)
    BY <1>2, <1>5, <1>7, HeardNow
  <2>3. ASSUME i <= K, IsOld(u, i)
        PROVE  i \in 1 .. K /\ i + 1 \in 1 .. K
    <3>1. Left(u, i, own)
      BY <1>3, <2>3 DEF Story
    <3>2. QED
      BY <1>1, <2>3, <3>1 DEF Left, IsOld, IsNew
  <2>4. ASSUME j <= L, IsOld(v, j)
        PROVE  j \in 1 .. L /\ j + 1 \in 1 .. L
    <3>1. Left(v, j, own)
      BY <1>3, <2>4 DEF Story
    <3>2. QED
      BY <1>2, <2>4, <3>1 DEF Left, IsOld, IsNew
  <2>5. \A k \in 1 .. K : NameAt(u, k)' = NameAt(u, k)
    BY <1>1 DEF Grows
  <2>6. \A k \in 1 .. L : NameAt(v, k)' = NameAt(v, k)
    BY <1>2 DEF Grows
  <2>7. CASE i <= K /\ IsOld(u, i) /\ j <= L /\ IsOld(v, j)
    <3>1. NameAt(u, i) = NameAt(v, j)
      BY <1>7, <2>3, <2>4, <2>5, <2>6, <2>7
    <3>2. NameAt(u, i + 1) = NameAt(v, j + 1)
      BY <1>3, <1>7, <2>7, <3>1 DEF Agree
    <3>3. QED
      BY <2>3, <2>4, <2>5, <2>6, <2>7, <3>2
  <2>8. CASE HalfOld(u, i, K, f, ns) /\ HalfOld(v, j, L, f, ns)
    BY <2>8 DEF HalfOld
  <2>9. CASE i <= K /\ IsOld(u, i) /\ HalfOld(v, j, L, f, ns)
    <3>1. NameAt(u, i) = ns[1].name /\ watch[u].ino = f /\ Len(ns) = 2
      BY <1>7, <2>3, <2>5, <2>9 DEF HalfOld
    <3>2. NameAt(u, i) # ns[1].name
      BY <1>1, <1>6, <2>9, <3>1
    <3>3. QED
      BY <3>1, <3>2
  <2>10. CASE HalfOld(u, i, K, f, ns) /\ j <= L /\ IsOld(v, j)
    <3>1. NameAt(v, j) = ns[1].name /\ watch[v].ino = f /\ Len(ns) = 2
      BY <1>7, <2>4, <2>6, <2>10 DEF HalfOld
    <3>2. NameAt(v, j) # ns[1].name
      BY <1>2, <1>6, <2>10, <3>1
    <3>3. QED
      BY <3>1, <3>2
  <2>11. QED
    BY <2>1, <2>2, <2>7, <2>8, <2>9, <2>10
<1>8. QED
  BY <1>4, <1>7 DEF Agree

LEMMA NameStepKeeps ==
  ASSUME TypeOK, TypeOK', MapInv, NEW f \in Folders, NEW ns \in Seq(Acts),
         NEW own \in Owners, NEW own2 \in Owners,
         NameStep(f, ns, own, own2), NamesInv(own), PathInv(own)
  PROVE  NamesInv(own2)' /\ PathInv(own2)'
<1>1. Watches' = Watches
  BY DEF NameStep, Hears
<1>2. Placed(own2)'
  BY DEF NameStep, Placed
<1>3. \A v \in Watches' : Story(v, own2)'
  BY <1>1, NamesHeard
<1>4. \A u, v \in Watches' : Agree(u, v)'
  BY <1>1, AgreeHeard
<1>5. NamesInv(own2)'
  BY <1>2, <1>3, <1>4 DEF NamesInv
<1>6. \A d \in Dirs : Exists(d)' /\ place[d] # New =>
        /\ Exists(d) /\ place'[d].in = place[d].in
        /\ \/ place'[d].name = place[d].name
           \/ f = place[d].in /\ Len(ns) >= 1 /\ ns[1].act = "old" /\ ns[1].name = place[d].name
  BY DEF NameStep, Given
<1>7. Hears(f, ns) /\ used \subseteq used' /\ \A g \in Folders, m \in used : own2[g][m] = own[g][m]
  BY DEF NameStep
<1>8. PathInv(own2)'
  BY <1>6, <1>7, HearsPaths
<1>9. QED
  BY <1>5, <1>8

LEMMA NameStepPaths ==
  ASSUME TypeOK, TypeOK', PInv, NEW f \in Folders, NEW ns \in Seq(Acts), Hears(f, ns),
         used \subseteq used', \A n \in Given : place[n] # New => place'[n] # New,
         \A own \in Owners : Placed(own) => \E own2 \in Owners : NameStep(f, ns, own, own2)
  PROVE  PInv'
<1>1. MapStep
  BY HearsMap
<1>2. MapInv'
  BY <1>1, MapStays DEF PInv
<1>3. ASSUME Clean'
      PROVE  \E own \in Owners : NamesInv(own)' /\ PathInv(own)'
  <2>1. Clean
    BY <1>1, <1>3, CleanBefore DEF MapStep
  <2>2. PICK own \in Owners : NamesInv(own) /\ PathInv(own)
    BY <2>1 DEF PInv
  <2>3. PICK own2 \in Owners : NameStep(f, ns, own, own2)
    BY <2>2 DEF NamesInv
  <2>4. NamesInv(own2)' /\ PathInv(own2)'
    BY <2>2, <2>3, NameStepKeeps DEF PInv
  <2>5. QED
    BY <2>4
<1>4. QED
  BY <1>2, <1>3 DEF PInv

\* A name is given.
LEMMA NameGiven ==
  ASSUME NEW own \in Owners, NEW f \in Folders, NEW name \in Names, NEW n \in Given
  PROVE  \E own2 \in Owners :
           /\ own2[f][name] = n
           /\ \A g \in Folders, m \in Names : g # f \/ m # name => own2[g][m] = own[g][m]
<1>1. PICK row \in [Names -> Inodes] : row = [own[f] EXCEPT ![name] = n]
  BY DEF Owners, Given, Inodes
<1>2. row[name] = n /\ \A m \in Names : m # name => row[m] = own[f][m]
  BY <1>1 DEF Owners
<1>3. PICK own2 \in Owners : own2 = [own EXCEPT ![f] = row]
  BY DEF Owners
<1>4. own2[f] = row /\ \A g \in Folders : g # f => own2[g] = own[g]
  BY <1>3 DEF Owners
<1>5. QED
  BY <1>2, <1>4

LEMMA CreatePaths ==
  ASSUME TypeOK, TypeOK', PInv, NEW n \in Given, NEW f \in Folders, NEW name \in Names,
         Create(n, f, name)
  PROVE  PInv'
<1>1. PICK a \in Acts : a = Act("added", name)
  BY DEF Act, Acts
<1>10. <<a>> \in Seq(Acts)
  OBVIOUS
<1>2. PICK ns \in Seq(Acts) : ns = <<a>>
  BY <1>10
<1>3. PICK p \in Place : p = [in |-> f, name |-> name]
  BY DEF Place
<1>4. /\ place[n] = New /\ place' = [place EXCEPT ![n] = p]
      /\ name \notin used /\ used' = used \cup {name}
      /\ Note(f, ns) /\ watches' = watches
  BY <1>1, <1>2, <1>3 DEF Create, Named, Change
<1>5. Hears(f, ns)
  BY <1>4, NoteHears
<1>6. /\ place'[n] = p /\ p.in = f /\ p.name = name
      /\ \A m \in Given : m # n => place'[m] = place[m] /\ (Exists(m)' <=> Exists(m))
  BY <1>3, <1>4 DEF TypeOK, TreeTypeOK, Given, Exists
<1>7. \A m \in Given : place[m] # New => place'[m] # New
  BY <1>4, <1>6
<1>8. ASSUME NEW own \in Owners, Placed(own)
      PROVE  \E own2 \in Owners : NameStep(f, ns, own, own2)
  <2>1. PICK own2 \in Owners :
          /\ own2[f][name] = n
          /\ \A g \in Folders, m \in Names : g # f \/ m # name => own2[g][m] = own[g][m]
    BY NameGiven
  <2>2. used \subseteq Names
    BY DEF TypeOK, TreeTypeOK
  <2>3. \A g \in Folders, m \in used : own2[g][m] = own[g][m]
    BY <1>4, <2>1, <2>2
  <2>4. ASSUME NEW m \in Given, Exists(m)'
        PROVE  /\ place'[m].name \in used' /\ own2[place'[m].in][place'[m].name] = m
               /\ \/ Exists(m) /\ place'[m].in = place[m].in /\ place'[m].name = place[m].name
                  \/ place'[m].name \notin used
               /\ place[m] # New =>
                    Exists(m) /\ place'[m].in = place[m].in /\ place'[m].name = place[m].name
    <3>1. CASE m = n
      BY <1>4, <1>6, <2>1, <3>1
    <3>2. CASE m # n
      <4>1. Exists(m) /\ place'[m] = place[m]
        BY <1>6, <2>4, <3>2
      <4>2. place[m].in \in Folders /\ place[m].name \in used /\ own[place[m].in][place[m].name] = m
        BY <1>8, <4>1, FolderFacts DEF Placed
      <4>3. own2[place[m].in][place[m].name] = m
        BY <2>3, <4>2
      <4>4. QED
        BY <1>4, <4>1, <4>2, <4>3
    <3>3. QED
      BY <3>1, <3>2
  <2>5. Len(ns) = 1 /\ ns[1] = a /\ a.act = "added" /\ a.name = name
    BY <1>1, <1>2 DEF Act
  <2>6. Word(f, ns, own2) /\ \A i \in 1 .. Len(ns) : ns[i].name \in used'
    BY <1>4, <2>5 DEF Word
  <2>7. QED
    BY <1>4, <1>5, <1>7, <2>3, <2>4, <2>6 DEF NameStep
<1>9. QED
  BY <1>4, <1>5, <1>7, <1>8, NameStepPaths

\* What there is keeps its name, and what goes is not spoken of in two halves.
LEMMA WordOnly ==
  ASSUME TypeOK, NEW own \in Owners, Placed(own), NEW f, NEW ns \in Seq(Acts), Hears(f, ns),
         used' = used, Len(ns) = 1, ns[1].act \notin {"old", "new"}, ns[1].name \in used,
         \A m \in Given : place[m] # New => place'[m] # New,
         \A m \in Given : Exists(m)' => Exists(m) /\ place'[m] = place[m]
  PROVE  NameStep(f, ns, own, own)
<1>1. ASSUME NEW m \in Given, Exists(m)'
      PROVE  /\ place'[m].name \in used' /\ own[place'[m].in][place'[m].name] = m
             /\ Exists(m) /\ place'[m].in = place[m].in /\ place'[m].name = place[m].name
  BY <1>1 DEF Placed
<1>2. Word(f, ns, own) /\ \A i \in 1 .. Len(ns) : ns[i].name \in used'
  BY DEF Word
<1>3. QED
  BY <1>1, <1>2 DEF NameStep

LEMMA ModifyPaths ==
  ASSUME TypeOK, TypeOK', PInv, NEW n \in Files, Modify(n)
  PROVE  PInv'
<1>1. /\ n \in Given /\ Exists(n) /\ place' = place /\ used' = used /\ watches' = watches
      /\ Note(place[n].in, <<Act("modified", place[n].name)>>)
  BY DEF Modify, Change, Given
<1>2. PICK f \in Folders, name \in Names : f = place[n].in /\ name = place[n].name
  BY <1>1, FolderFacts
<1>3. PICK a \in Acts : a = Act("modified", name)
  BY DEF Act, Acts
<1>4. <<a>> \in Seq(Acts)
  OBVIOUS
<1>5. PICK ns \in Seq(Acts) : ns = <<a>>
  BY <1>4
<1>6. Note(f, ns)
  BY <1>1, <1>2, <1>3, <1>5
<1>7. Hears(f, ns)
  BY <1>1, <1>6, NoteHears
<1>8. Len(ns) = 1 /\ ns[1].act = "modified" /\ ns[1].name = name
  BY <1>3, <1>5 DEF Act
<1>9. \A m \in Given : Exists(m)' => Exists(m) /\ place'[m] = place[m]
  BY <1>1 DEF Exists
<1>10. ASSUME NEW own \in Owners, Placed(own)
       PROVE  NameStep(f, ns, own, own)
  <2>1. name \in used
    BY <1>1, <1>2, <1>10 DEF Placed
  <2>2. QED
    BY <1>1, <1>7, <1>8, <1>9, <1>10, <2>1, WordOnly
<1>11. QED
  BY <1>1, <1>7, <1>10, NameStepPaths

LEMMA DeletePaths ==
  ASSUME TypeOK, TypeOK', PInv, NEW n \in Given, Delete(n)
  PROVE  PInv'
<1>1. Exists(n) /\ place' = [place EXCEPT ![n] = Gone] /\ used' = used
  BY Zenon DEF Delete
<1>2. PICK f \in Folders, name \in Names : f = place[n].in /\ name = place[n].name
  BY <1>1, FolderFacts
<1>3. PICK a \in Acts : a = Act("removed", name)
  BY DEF Act, Acts
<1>4. <<a>> \in Seq(Acts)
  OBVIOUS
<1>5. PICK ns \in Seq(Acts) : ns = <<a>>
  BY <1>4
<1>6. Hears(place[n].in, <<Act("removed", place[n].name)>>)
  BY DeleteHears
<1>7. Hears(f, ns)
  BY <1>2, <1>3, <1>5, <1>6
<1>8. Len(ns) = 1 /\ ns[1].act = "removed" /\ ns[1].name = name
  BY <1>3, <1>5 DEF Act
<1>9. place'[n] = Gone /\ \A m \in Given : m # n => place'[m] = place[m]
  BY <1>1 DEF TypeOK, TreeTypeOK, Given
<1>10. \A m \in Given : Exists(m)' => Exists(m) /\ place'[m] = place[m]
  BY <1>9, WatchesAssumption DEF Exists, Given
<1>11. \A m \in Given : place[m] # New => place'[m] # New
  BY <1>9, WatchesAssumption
<1>12. ASSUME NEW own \in Owners, Placed(own)
       PROVE  NameStep(f, ns, own, own)
  <2>1. name \in used
    BY <1>1, <1>2, <1>12 DEF Placed
  <2>2. QED
    BY <1>1, <1>7, <1>8, <1>10, <1>11, <1>12, <2>1, WordOnly
<1>13. QED
  BY <1>1, <1>7, <1>11, <1>12, NameStepPaths

LEMMA RenamePathsOf ==
  ASSUME TypeOK, TypeOK', PInv, NEW n \in Given, NEW name \in Names, Rename(n, name)
  PROVE  PInv'
<1>1. /\ Exists(n) /\ place' = [place EXCEPT ![n].name = name]
      /\ name \notin used /\ used' = used \cup {name} /\ watches' = watches
      /\ Note(place[n].in, <<Act("old", place[n].name), Act("new", name)>>)
  BY DEF Rename, Named, Change
<1>2. PICK f \in Folders, o \in Names : f = place[n].in /\ o = place[n].name
  BY <1>1, FolderFacts
<1>3. PICK a \in Acts : a = Act("old", o)
  BY DEF Act, Acts
<1>4. PICK b \in Acts : b = Act("new", name)
  BY DEF Act, Acts
<1>5. <<a, b>> \in Seq(Acts)
  OBVIOUS
<1>6. PICK ns \in Seq(Acts) : ns = <<a, b>>
  BY <1>5
<1>7. Note(f, ns)
  BY <1>1, <1>2, <1>3, <1>4, <1>6
<1>8. Hears(f, ns)
  BY <1>1, <1>7, NoteHears
<1>9. /\ Len(ns) = 2 /\ ns[1].act = "old" /\ ns[1].name = o
      /\ ns[2].act = "new" /\ ns[2].name = name
  BY <1>3, <1>4, <1>6 DEF Act
<1>10. place[n] \in Place /\ place[n] \notin {New, Gone} /\ n # Root
  BY <1>1, FolderFacts, WatchesAssumption DEF Given
<1>11. PICK p : p = [place[n] EXCEPT !.name = name]
  OBVIOUS
<1>12. p \in Place /\ p.in = f /\ p.name = name /\ place' = [place EXCEPT ![n] = p]
  BY <1>1, <1>2, <1>10, <1>11 DEF Place
<1>13. /\ place'[n] = p
       /\ \A m \in Given : m # n => place'[m] = place[m] /\ (Exists(m)' <=> Exists(m))
  BY <1>12 DEF TypeOK, TreeTypeOK, Given, Exists
<1>14. p # New
  BY <1>12, WatchesAssumption
<1>15. \A m \in Given : place[m] # New => place'[m] # New
  BY <1>13, <1>14
<1>16. ASSUME NEW own \in Owners, Placed(own)
       PROVE  \E own2 \in Owners : NameStep(f, ns, own, own2)
  <2>1. PICK own2 \in Owners :
          /\ own2[f][name] = n
          /\ \A g \in Folders, m \in Names : g # f \/ m # name => own2[g][m] = own[g][m]
    BY NameGiven
  <2>2. used \subseteq Names
    BY DEF TypeOK, TreeTypeOK
  <2>3. \A g \in Folders, m \in used : own2[g][m] = own[g][m]
    BY <1>1, <2>1, <2>2
  <2>4. o \in used /\ own[f][o] = n /\ own2[f][o] = n
    BY <1>1, <1>2, <1>16, <2>3 DEF Placed
  <2>5. ASSUME NEW m \in Given, Exists(m)'
        PROVE  /\ place'[m].name \in used' /\ own2[place'[m].in][place'[m].name] = m
               /\ \/ Exists(m) /\ place'[m].in = place[m].in /\ place'[m].name = place[m].name
                  \/ place'[m].name \notin used
               /\ Exists(m) /\ place'[m].in = place[m].in
               /\ \/ place'[m].name = place[m].name
                  \/ f = place[m].in /\ Len(ns) >= 1 /\ ns[1].act = "old" /\ ns[1].name = place[m].name
               /\ place'[m].in = f => place'[m].name # o
    <3>1. CASE m = n
      BY <1>1, <1>2, <1>9, <1>12, <1>13, <2>1, <2>4, <3>1
    <3>2. CASE m # n
      <4>1. Exists(m) /\ place'[m] = place[m]
        BY <1>13, <2>5, <3>2
      <4>2. place[m].in \in Folders /\ place[m].name \in used /\ own[place[m].in][place[m].name] = m
        BY <1>16, <4>1, FolderFacts DEF Placed
      <4>3. own2[place[m].in][place[m].name] = m
        BY <2>3, <4>2
      <4>4. place[m].in = f => place[m].name # o
        BY <2>4, <3>2, <4>2
      <4>5. place[m].name \in used'
        BY <1>1, <4>2
      <4>6. PICK q : q = place[m] /\ q = place'[m]
        BY <4>1
      <4>7. QED
        BY <4>1, <4>2, <4>3, <4>4, <4>5, <4>6
    <3>3. QED
      BY <3>1, <3>2
  <2>6. Word(f, ns, own2)
    BY <1>1, <1>2, <1>9, <1>12, <1>13, <1>14, <2>1, <2>4, <2>5 DEF Word
  <2>7. \A i \in 1 .. Len(ns) : ns[i].name \in used'
    BY <1>1, <1>9, <2>4
  <2>8. QED
    BY <1>1, <1>8, <1>15, <2>3, <2>5, <2>6, <2>7 DEF NameStep
<1>17. QED
  BY <1>1, <1>8, <1>15, <1>16, NameStepPaths

-----------------------------------------------------------------------------
(* The reader at an entry: what a new name makes of the paths. *)

LEMMA PrefixIs ==
  ASSUME NEW s \in Seq(Texts), NEW p \in Seq(Texts)
  PROVE  IsPrefix(s, p) <=> Len(s) <= Len(p) /\ \A i \in 1 .. Len(s) : s[i] = p[i]
<1>1. Len(s) \in Nat /\ Len(p) \in Nat
  OBVIOUS
<1>2. IsPrefix(s, p) <=> Len(s) <= Len(p) /\ SubSeq(s, 1, Len(s)) = SubSeq(p, 1, Len(s))
  BY DEF IsPrefix
<1>3. CASE Len(s) = 0
  <2>1. SubSeq(s, 1, Len(s)) = <<>> /\ SubSeq(p, 1, Len(s)) = <<>>
    BY <1>3
  <2>2. QED
    BY <1>1, <1>2, <1>3, <2>1
<1>4. CASE Len(s) \in 1 .. Len(p)
  <2>1. PICK a : a = SubSeq(s, 1, Len(s))
    OBVIOUS
  <2>2. PICK b : b = SubSeq(p, 1, Len(s))
    OBVIOUS
  <2>3. a = [i \in 1 .. Len(s) |-> s[i]] /\ b = [i \in 1 .. Len(s) |-> p[i]]
    BY <1>1, <1>4, <2>1, <2>2
  <2>4. a = b <=> \A i \in 1 .. Len(s) : s[i] = p[i]
    BY <2>3
  <2>5. QED
    BY <1>1, <1>2, <1>4, <2>1, <2>2, <2>4
<1>5. CASE ~ (Len(s) <= Len(p))
  BY <1>2, <1>5
<1>6. QED
  BY <1>1, <1>3, <1>4, <1>5

\* What is renamed here: name o in the folder with path q, to name m.  Without siblings
\* one name is replaced, if the names before it are those of the folder it is in.
Alone(p, q, o) == Len(q) + 1 <= Len(p) => <<p[Len(q) + 1], o>> \notin DOMAIN Rest
NewPath(p, q, o, m) == Renamed(p, Append(q, o), Append(q, m))

Replaces(r, p, q, o, m) ==
  /\ r \in Seq(Texts) /\ Len(r) = Len(p)
  /\ IF IsPrefix(Append(q, o), p)
     THEN \A i \in 1 .. Len(p) : r[i] = IF i = Len(q) + 1 THEN m ELSE p[i]
     ELSE r = p

LEMMA NewPathDoes ==
  ASSUME NEW p \in Seq(Texts), NEW q \in Seq(Texts), NEW o \in Texts, NEW m \in Texts,
         Alone(p, q, o)
  PROVE  Replaces(NewPath(p, q, o, m), p, q, o, m)
<1>0. PICK r : r = NewPath(p, q, o, m)
  OBVIOUS
<1>1. PICK old \in Seq(Texts) : old = Append(q, o)
  BY AppendProperties
<1>2. PICK new \in Seq(Texts) : new = Append(q, m)
  BY AppendProperties
<1>3. PICK l \in Nat : l = Len(q)
  OBVIOUS
<1>4. /\ Len(old) = l + 1 /\ old[l + 1] = o /\ \A i \in 1 .. l : old[i] = q[i]
      /\ Len(new) = l + 1 /\ new[l + 1] = m /\ \A i \in 1 .. l : new[i] = q[i]
  BY <1>1, <1>2, <1>3, AppendProperties
<1>5. r = Renamed(p, old, new) /\ r \in Seq(Texts)
  BY <1>0, <1>1, <1>2, RenamedType DEF NewPath
<1>6. CASE IsPrefix(old, p)
  <2>1. l + 1 <= Len(p) /\ \A i \in 1 .. l + 1 : old[i] = p[i]
    BY <1>4, <1>6, PrefixIs
  <2>2. PICK tail : tail = SubSeq(p, l + 2, Len(p))
    OBVIOUS
  <2>3. r = new \o tail
    <3>1. Len(old) + 1 = l + 2
      BY <1>4
    <3>2. QED
      BY <1>5, <1>6, <2>2, <3>1 DEF Renamed
  <2>4. /\ tail \in Seq(Texts) /\ Len(tail) = Len(p) - (l + 1)
        /\ \A i \in 1 .. Len(tail) : tail[i] = p[l + 1 + i]
    <3>1. Len(p) \in Nat
      OBVIOUS
    <3>2. CASE l + 1 = Len(p)
      <4>1. tail = <<>> /\ <<>> \in Seq(Texts) /\ Len(<<>>) = 0
        BY <2>2, <3>1, <3>2
      <4>2. QED
        BY <3>1, <3>2, <4>1
    <3>3. CASE l + 1 # Len(p)
      <4>1. l + 2 \in 1 .. Len(p) + 1 /\ Len(p) \in l + 2 - 1 .. Len(p)
        BY <2>1, <3>1, <3>3
      <4>2. /\ tail \in Seq(Texts) /\ Len(tail) = Len(p) - (l + 1)
        BY <2>1, <2>2, <3>1, <3>3, <4>1, SubSeqProperties
      <4>3. tail = [i \in 1 .. Len(p) - (l + 1) |-> p[l + 1 + i]]
        BY <2>2, <3>1, <4>1
      <4>4. QED
        BY <4>2, <4>3
    <3>4. QED
      BY <3>2, <3>3
  <2>5. /\ Len(r) = (l + 1) + Len(tail)
        /\ \A i \in 1 .. Len(r) : r[i] = IF i <= l + 1 THEN new[i] ELSE tail[i - (l + 1)]
    <3>1. /\ Len(new \o tail) = Len(new) + Len(tail)
          /\ \A i \in 1 .. Len(new) + Len(tail) :
               (new \o tail)[i] = IF i <= Len(new) THEN new[i] ELSE tail[i - Len(new)]
      BY <2>4, ConcatProperties
    <3>2. QED
      BY <1>4, <2>3, <3>1
  <2>6. Len(r) = Len(p)
    BY <2>4, <2>5
  <2>7. ASSUME NEW i \in 1 .. Len(p)
        PROVE  r[i] = IF i = l + 1 THEN m ELSE p[i]
    <3>0. r[i] = IF i <= l + 1 THEN new[i] ELSE tail[i - (l + 1)]
      BY <2>5, <2>6
    <3>1. CASE i = l + 1
      BY <1>4, <3>0, <3>1
    <3>2. CASE i <= l
      <4>1. i \in 1 .. l /\ i \in 1 .. l + 1 /\ i # l + 1 /\ i <= l + 1
        BY <3>2
      <4>2. r[i] = q[i] /\ old[i] = q[i] /\ old[i] = p[i]
        BY <1>4, <2>1, <3>0, <4>1
      <4>3. QED
        BY <4>1, <4>2
    <3>3. CASE i > l + 1
      <4>1. i - (l + 1) \in 1 .. Len(tail) /\ l + 1 + (i - (l + 1)) = i
        BY <2>4, <3>3
      <4>2. QED
        BY <2>4, <3>0, <3>3, <4>1
    <3>4. QED
      BY <3>1, <3>2, <3>3
  <2>8. QED
    BY <1>0, <1>1, <1>3, <1>5, <1>6, <2>6, <2>7 DEF Replaces
<1>7. CASE ~IsPrefix(old, p)
  <2>1. Last(old) = o
    BY <1>4 DEF Last
  <2>2. ~Sibling(p, old)
    BY <1>3, <1>4, <2>1 DEF Sibling, Alone
  <2>3. r = p
    BY <1>5, <1>7, <2>2 DEF Renamed
  <2>4. QED
    BY <1>0, <1>1, <1>5, <1>7, <2>3 DEF Replaces
<1>8. QED
  BY <1>6, <1>7

\* The path of a directory and that of the one it is in.
LEMMA NewPathBelow ==
  ASSUME NEW h \in Seq(Texts), NEW m \in Texts, NEW q \in Seq(Texts), NEW o \in Texts,
         NEW n \in Texts, Alone(Append(h, m), q, o), Alone(h, q, o)
  PROVE  NewPath(Append(h, m), q, o, n) =
           Append(NewPath(h, q, o, n), IF h = q /\ m = o THEN n ELSE m)
<1>1. PICK p \in Seq(Texts) : p = Append(h, m)
  BY AppendProperties
<1>2. PICK old \in Seq(Texts) : old = Append(q, o)
  BY AppendProperties
<1>3. PICK l \in Nat : l = Len(q)
  OBVIOUS
<1>4. PICK k \in Nat : k = Len(h)
  OBVIOUS
<1>5. /\ Len(p) = k + 1 /\ p[k + 1] = m /\ \A i \in 1 .. k : p[i] = h[i]
      /\ Len(old) = l + 1 /\ old[l + 1] = o /\ \A i \in 1 .. l : old[i] = q[i]
  BY <1>1, <1>2, <1>3, <1>4, AppendProperties
<1>6. PICK rp : rp = NewPath(p, q, o, n)
  OBVIOUS
<1>7. PICK rh : rh = NewPath(h, q, o, n)
  OBVIOUS
<1>8. /\ rp \in Seq(Texts) /\ Len(rp) = k + 1
      /\ IsPrefix(old, p) => \A i \in 1 .. k + 1 : rp[i] = IF i = l + 1 THEN n ELSE p[i]
      /\ ~IsPrefix(old, p) => rp = p
  <2>1. Replaces(rp, p, q, o, n)
    BY <1>1, <1>6, NewPathDoes
  <2>2. QED
    BY <1>2, <1>3, <1>5, <2>1 DEF Replaces
<1>9. /\ rh \in Seq(Texts) /\ Len(rh) = k
      /\ IsPrefix(old, h) => \A i \in 1 .. k : rh[i] = IF i = l + 1 THEN n ELSE h[i]
      /\ ~IsPrefix(old, h) => rh = h
  <2>1. Replaces(rh, h, q, o, n)
    BY <1>7, NewPathDoes
  <2>2. QED
    BY <1>2, <1>3, <1>4, <2>1 DEF Replaces
<1>10. /\ IsPrefix(old, p) <=> l <= k /\ \A i \in 1 .. l + 1 : old[i] = p[i]
       /\ IsPrefix(old, h) <=> l + 1 <= k /\ \A i \in 1 .. l + 1 : old[i] = h[i]
  <2>1. /\ IsPrefix(old, p) <=> l + 1 <= k + 1 /\ \A i \in 1 .. l + 1 : old[i] = p[i]
        /\ IsPrefix(old, h) <=> l + 1 <= k /\ \A i \in 1 .. l + 1 : old[i] = h[i]
    BY <1>4, <1>5, PrefixIs
  <2>2. QED
    BY <2>1
<1>11. h = q /\ m = o <=> l = k /\ IsPrefix(old, p)
  <2>1. ASSUME h = q, m = o
        PROVE  l = k /\ IsPrefix(old, p)
    <3>1. l = k /\ old = p
      BY <1>1, <1>2, <1>3, <1>4, <2>1
    <3>2. QED
      BY <1>10, <3>1
  <2>2. ASSUME l = k, IsPrefix(old, p)
        PROVE  h = q /\ m = o
    <3>1. \A i \in 1 .. l + 1 : old[i] = p[i]
      BY <1>10, <2>2
    <3>2. m = o
      BY <1>5, <2>2, <3>1
    <3>3. \A i \in 1 .. l : h[i] = q[i]
      BY <1>5, <2>2, <3>1
    <3>4. QED
      BY <1>3, <1>4, <2>2, <3>2, <3>3, SeqEqual
  <2>3. QED
    BY <2>1, <2>2
<1>12. PICK x \in Texts : x = IF h = q /\ m = o THEN n ELSE m
  OBVIOUS
<1>13. ASSUME NEW i \in 1 .. k + 1
       PROVE  rp[i] = IF i = k + 1 THEN x ELSE rh[i]
  <2>1. CASE IsPrefix(old, p) /\ l = k
    <3>1. ~IsPrefix(old, h)
      BY <1>10, <2>1
    <3>2. QED
      BY <1>5, <1>8, <1>9, <1>11, <1>12, <2>1, <3>1
  <2>2. CASE IsPrefix(old, p) /\ l # k
    <3>1. l + 1 <= k /\ \A j \in 1 .. l + 1 : old[j] = p[j]
      BY <1>10, <2>2
    <3>2. IsPrefix(old, h)
      <4>1. \A j \in 1 .. l + 1 : p[j] = h[j]
        BY <1>5, <3>1
      <4>2. QED
        BY <1>10, <3>1, <4>1
    <3>3. x = m
      BY <1>11, <1>12, <2>2
    <3>4. rp[i] = IF i = l + 1 THEN n ELSE p[i]
      BY <1>8, <2>2
    <3>5. CASE i = k + 1
      BY <1>5, <3>1, <3>3, <3>4, <3>5
    <3>6. CASE i \in 1 .. k
      BY <1>5, <1>9, <3>2, <3>4, <3>6
    <3>7. QED
      BY <3>5, <3>6
  <2>3. CASE ~IsPrefix(old, p)
    <3>1. ~IsPrefix(old, h)
      <4>1. l + 1 <= k => \A j \in 1 .. l + 1 : p[j] = h[j]
        BY <1>5
      <4>2. QED
        BY <1>10, <2>3, <4>1
    <3>2. x = m
      BY <1>11, <1>12, <2>3
    <3>3. QED
      BY <1>5, <1>8, <1>9, <2>3, <3>1, <3>2
  <2>4. QED
    BY <2>1, <2>2, <2>3
<1>14. PICK y \in Seq(Texts) : y = Append(rh, x)
  BY <1>9, AppendProperties
<1>15. Len(y) = k + 1 /\ y[k + 1] = x /\ \A i \in 1 .. k : y[i] = rh[i]
  BY <1>9, <1>14, AppendProperties
<1>16. ASSUME NEW i \in 1 .. Len(rp)
       PROVE  rp[i] = y[i]
  <2>1. i \in 1 .. k + 1 /\ (i = k + 1 \/ i \in 1 .. k)
    BY <1>8
  <2>2. CASE i = k + 1
    BY <1>13, <1>15, <2>1, <2>2
  <2>3. CASE i \in 1 .. k
    <3>1. i # k + 1
      BY <2>3
    <3>2. QED
      BY <1>13, <1>15, <2>1, <2>3, <3>1
  <2>4. QED
    BY <2>1, <2>2, <2>3
<1>17. rp = y
  BY <1>8, <1>15, <1>16, SeqEqual
<1>18. QED
  BY <1>1, <1>6, <1>7, <1>12, <1>14, <1>17


\* What an entry makes of the paths and of the old names: t is the state after it.
PathOfEntry(s, w, e, v) ==
  IF e.act = "new" /\ s.watches[s.watch[v].ino] = v
  THEN Renamed(s.watch[v].path, Old(s.watch[w]), Append(s.watch[w].path, e.name))
  ELSE s.watch[v].path
TellsPaths(s, t, w, e) ==
  \A v \in Ids : s.watch[v] \in Watch =>
    /\ t.watch[v].along = s.watch[v].along
    /\ t.watch[v].rename = IF v = w /\ e.act = "old" THEN e.name ELSE s.watch[v].rename
    /\ t.watch[v].path = PathOfEntry(s, w, e, v)

LEMMA EffectPaths ==
  ASSUME NEW s \in States, NEW w \in Ids, s.watch[w] \in Watch, NEW e \in Acts,
         NEW t, t = Effect(s, w, e)
  PROVE  TellsPaths(s, t, w, e)
<1>1. e.name \in Names /\ e.act \in {"added", "modified", "old", "new", "removed"}
  BY DEF Acts
<1>2. PICK r \in Watch : r = s.watch[w]
  OBVIOUS
<1>3. ASSUME NEW q \in Watch, SamePath(r, q), e.act \notin {"old", "new"}, t = [s EXCEPT !.watch[w] = q]
      PROVE  TellsPaths(s, t, w, e)
  <2>1. /\ t.watch[w] = q
        /\ \A v \in Ids : v # w => t.watch[v] = s.watch[v]
    BY <1>3, WithWatch
  <2>2. QED
    BY <1>2, <1>3, <2>1 DEF SamePath, TellsPaths, PathOfEntry
<1>4. CASE e.act = "removed"
  <2>1. PICK S \in SUBSET Names : S = r.names \ {e.name}
    BY DEF Watch
  <2>2. PICK q \in Watch : q = [r EXCEPT !.names = S]
    BY DEF Watch
  <2>3. SamePath(r, q)
    BY <2>2 DEF SamePath, Watch
  <2>4. t = [s EXCEPT !.watch[w] = q]
    BY <1>2, <1>4, <2>1, <2>2 DEF Effect, States
  <2>5. QED
    BY <1>3, <1>4, <2>3, <2>4
<1>5. CASE e.act = "old"
  <2>1. PICK q \in Watch : q = [r EXCEPT !.rename = e.name]
    BY <1>1 DEF Watch
  <2>2. q.path = r.path /\ q.along = r.along /\ q.rename = e.name
    BY <2>1 DEF Watch
  <2>3. t = [s EXCEPT !.watch[w] = q]
    BY <1>2, <1>5, <2>1 DEF Effect, States
  <2>4. /\ t.watch[w] = q
        /\ \A v \in Ids : v # w => t.watch[v] = s.watch[v]
    BY <2>3, WithWatch
  <2>5. QED
    BY <1>2, <1>5, <2>2, <2>4 DEF TellsPaths, PathOfEntry
<1>6. CASE e.act \in {"added", "modified"}
  BY <1>6 DEF Effect, TellsPaths, PathOfEntry
<1>7. CASE e.act = "new"
  <2>1. PICK u : u = RenameName(s, w, e.name)
    OBVIOUS
  <2>2. /\ u \in States /\ u.watches = s.watches
        /\ u.watch[w] \in Watch /\ SamePath(r, u.watch[w]) /\ u.watch[w].ino = r.ino
        /\ \A v \in Ids : v # w => u.watch[v] = s.watch[v]
    <3>1. CASE u = s
      BY <1>2, <3>1 DEF SamePath
    <3>2. CASE u = [s EXCEPT !.watch[w].names = (@ \ {s.watch[w].rename}) \cup {e.name}]
      <4>1. PICK S \in SUBSET Names : S = (r.names \ {r.rename}) \cup {e.name}
        BY <1>1 DEF Watch
      <4>2. PICK q \in Watch : q = [r EXCEPT !.names = S]
        BY DEF Watch
      <4>3. SamePath(r, q) /\ q.ino = r.ino
        BY <4>2 DEF SamePath, Watch
      <4>4. u = [s EXCEPT !.watch[w] = q]
        BY <1>2, <3>2, <4>1, <4>2 DEF States
      <4>5. /\ u \in States /\ u.watch[w] = q /\ u.watches = s.watches
            /\ \A v \in Ids : v # w => u.watch[v] = s.watch[v]
        BY <4>4, WithWatch
      <4>6. QED
        BY <4>3, <4>5
    <3>3. QED
      BY <2>1, <3>1, <3>2 DEF RenameName
  <2>3. ASSUME NEW v \in Ids, s.watch[v] \in Watch
        PROVE  u.watch[v] \in Watch /\ SamePath(s.watch[v], u.watch[v]) /\ u.watch[v].ino = s.watch[v].ino
    BY <1>2, <2>2, <2>3 DEF SamePath
  <2>4. PICK old : old = Old(s.watch[w]) /\ old = Old(u.watch[w])
    BY <1>2, <2>2 DEF Old, SamePath
  <2>5. PICK new : new = Append(s.watch[w].path, e.name) /\ new = Append(u.watch[w].path, e.name)
    BY <1>2, <2>2 DEF SamePath
  <2>6. PICK f : f = RenamePaths(u, w, e.name)
    OBVIOUS
  <2>7. t.watch = f
    <3>1. t = [s EXCEPT !.watch = f]
      BY <1>7, <2>1, <2>6 DEF Effect
    <3>2. QED
      BY <3>1 DEF States
  <2>8. f = [v \in Ids |->
               IF u.watch[v] # None /\ u.watches[u.watch[v].ino] = v
               THEN [u.watch[v] EXCEPT !.path = Renamed(u.watch[v].path, old, new)]
               ELSE u.watch[v]]
    BY <2>4, <2>5, <2>6 DEF RenamePaths
  <2>9. ASSUME NEW v \in Ids, s.watch[v] \in Watch
        PROVE  /\ f[v].along = s.watch[v].along /\ f[v].rename = s.watch[v].rename
               /\ f[v].path = PathOfEntry(s, w, e, v)
    <3>1. PICK x \in Watch : x = u.watch[v] /\ x # None /\ SamePath(s.watch[v], x) /\ x.ino = s.watch[v].ino
      BY <2>3, <2>9, WatchesAssumption
    <3>2. CASE u.watches[x.ino] = v
      <4>1. f[v] = [x EXCEPT !.path = Renamed(x.path, old, new)]
        BY <2>8, <3>1, <3>2
      <4>2. f[v].along = x.along /\ f[v].rename = x.rename /\ f[v].path = Renamed(x.path, old, new)
        BY <4>1 DEF Watch
      <4>3. x.path = s.watch[v].path /\ x.along = s.watch[v].along /\ x.rename = s.watch[v].rename
        BY <3>1 DEF SamePath
      <4>4. QED
        BY <1>7, <2>2, <2>4, <2>5, <3>1, <3>2, <4>2, <4>3 DEF PathOfEntry
    <3>3. CASE u.watches[x.ino] # v
      <4>1. f[v] = x
        BY <2>8, <3>1, <3>3
      <4>2. QED
        BY <2>2, <3>1, <3>3, <4>1 DEF PathOfEntry, SamePath
    <3>4. QED
      BY <3>2, <3>3
  <2>10. QED
    BY <1>7, <2>7, <2>9 DEF TellsPaths
<1>8. QED
  BY <1>1, <1>4, <1>5, <1>6, <1>7

\* The reader comes to entry a, the next one of watch w.
ReadStep(w, a) ==
  /\ MapStep /\ UNCHANGED <<place, used>> /\ Len(watch[w].told) \in Nat
  /\ Len(watch[w].told) + 1 \in 1 .. Len(watch[w].seen)
  /\ a = watch[w].seen[Len(watch[w].told) + 1]
  /\ Len(watch'[w].told) = Len(watch[w].told) + 1
  /\ \A v \in Watches :
       /\ watch'[v].seen = watch[v].seen /\ (v # w => watch'[v].told = watch[v].told)
       /\ watch'[v].rename = IF v = w /\ a.act = "old" THEN a.name ELSE watch[v].rename
       /\ watch'[v].path = PathOfEntry(State, w, a, v)

LEMMA EntryPaths ==
  ASSUME IInv, TypeOK', NEW w \in Watches, Reading(w), NEW e, e = watch[w].buf[rd.i],
         NEW s, s = Entered(w, e),
         NEW t, Become(t), Started(s, t, w) \/ t = s, UNCHANGED <<place, used>>
  PROVE  MapStep /\ (Clean => \E a \in Acts : ReadStep(w, a))
<1>1. /\ watch \in [Ids -> Watch \cup {None}] /\ watches \in [Folders -> Ids \cup {None}]
      /\ port \in Seq(Packets) /\ w \in Ids /\ TypeOK
      /\ rd \in [pc : {"parse"}, w : Ids, i : Nat, n : Nat] /\ rd.i \in 1 .. rd.n
  BY Made DEF IInv, TypeOK, WatchTypeOK, PortTypeOK, Reading
<1>2. PICK r \in Watch : r = watch[w]
  BY Made DEF IInv, TypeOK
<1>3. EntryRead(s, w)
  BY EntryReadDoes
<1>4. r.told \in Seq(Nat) /\ r.seen \in Seq(Acts) /\ Len(r.told) \in Nat /\ Len(r.seen) \in Nat
  <2>1. r.told \in Seq(Nat) /\ r.seen \in Seq(Acts)
    BY <1>2 DEF Watch
  <2>2. Len(r.told) \in Nat /\ Len(r.seen) \in Nat
    BY <2>1
  <2>3. QED
    BY <2>1, <2>2
<1>5. PICK k \in Nat : k = Len(r.told)
  BY <1>4
<1>6. /\ e.id \in 1 .. Len(r.seen) /\ e.id \in Nat
      /\ Clean => e.id = k + 1
  <2>1. Stored(r) /\ rd.n <= Len(r.buf) /\ Sound(w)
    BY <1>2 DEF IInv, Sound, BufferOK
  <2>2. rd.i \in rd.i .. rd.n /\ rd.i \in Nat
    BY <1>1
  <2>3. rd.i \in 1 .. Len(r.buf)
    <3>1. Len(r.buf) \in Nat /\ rd.n \in Nat
      BY <1>1 DEF Watch
    <3>2. QED
      BY <1>1, <2>1, <2>2, <3>1
  <2>4. e.id \in 1 .. Len(r.seen)
    BY <1>2, <2>1, <2>3 DEF Stored
  <2>5. ASSUME Clean
        PROVE  e.id = k + 1
    <3>1. r.overflowed = FALSE /\ r.overwritten = FALSE
      BY <1>2, <2>5 DEF Clean
    <3>2. Chain(w)
      BY <1>2, <2>1, <3>1 DEF Sound, Ordered, Reading
    <3>3. Coming(r, rd.i, rd.n)
      BY <1>2, <3>2 DEF Chain
    <3>4. r.buf[rd.i].id = Len(r.told) + rd.i + 1 - rd.i
      BY <2>2, <3>3 DEF Coming
    <3>5. QED
      BY <1>2, <1>5, <2>2, <3>4
  <2>6. e.id \in Nat
    <3>1. PICK n \in Nat : n = Len(r.seen)
      BY <1>4
    <3>2. e.id \in 1 .. n
      BY <2>4, <3>1
    <3>3. 1 .. n \subseteq Nat
      OBVIOUS
    <3>4. QED
      BY <3>2, <3>3, Zenon
  <2>7. QED
    BY <2>4, <2>5, <2>6
<1>7. PICK a \in Acts : a = watch[w].seen[e.id] /\ a = r.seen[e.id]
  <2>1. r.seen[e.id] \in Acts
    BY <1>4, <1>6, ElementOfSeq
  <2>2. QED
    BY <1>2, <2>1
<1>8. PICK told \in Seq(Nat) : told = Append(r.told, e.id) /\ Len(told) = k + 1
  <2>1. Append(r.told, e.id) \in Seq(Nat) /\ Len(Append(r.told, e.id)) = Len(r.told) + 1
    BY <1>4, <1>6, AppendProperties
  <2>2. QED
    BY <1>5, <2>1
<1>9. PICK q \in Watch : q = [r EXCEPT !.told = told]
  BY DEF Watch
<1>10. q.ino = r.ino /\ SamePath(r, q)
  BY <1>9 DEF Watch, SamePath
<1>11. PICK x \in States : x = State /\ x.watch = watch /\ x.watches = watches
  <2>1. State \in States /\ State.watch = watch /\ State.watches = watches
    BY <1>1 DEF State, States
  <2>2. QED
    BY <2>1
<1>12. PICK y : y = [x EXCEPT !.watch[w] = q]
  OBVIOUS
<1>13. [State EXCEPT !.watch[w].told = Append(@, e.id)] = y
  BY <1>1, <1>2, <1>8, <1>9, <1>11, <1>12 DEF States
<1>14. /\ y \in States /\ y.watch[w] = q /\ y.watches = watches
       /\ \A v \in Ids : v # w => y.watch[v] = watch[v]
  BY <1>1, <1>11, <1>12, WithWatch
<1>15. TellsPaths(y, s, w, a)
  <2>1. s = Effect(y, w, a)
    BY <1>7, <1>13 DEF Entered
  <2>2. QED
    BY <1>1, <1>14, <2>1, EffectPaths
<1>16. Old(q) = Old(r) /\ Append(q.path, a.name) = Append(r.path, a.name)
  BY <1>10 DEF Old, SamePath
<1>17. ASSUME NEW v \in Watches
       PROVE  /\ s.watch[v] \in Watch
              /\ SameHandle(watch[v], s.watch[v])
              /\ s.watch[v].seen = watch[v].seen /\ (v # w => s.watch[v].told = watch[v].told)
              /\ s.watch[v].rename = IF v = w /\ a.act = "old" THEN a.name ELSE watch[v].rename
              /\ s.watch[v].path = PathOfEntry(State, w, a, v)
  <2>1. v \in Ids /\ watch[v] \in Watch
    BY Made DEF IInv, TypeOK
  <2>2. /\ y.watch[v] \in Watch /\ y.watch[v].ino = watch[v].ino /\ SamePath(watch[v], y.watch[v])
    BY <1>2, <1>10, <1>14, <2>1 DEF SamePath
  <2>3. /\ s.watch[v].along = watch[v].along
        /\ s.watch[v].rename = IF v = w /\ a.act = "old" THEN a.name ELSE watch[v].rename
        /\ s.watch[v].path = PathOfEntry(y, w, a, v)
    BY <1>15, <2>1, <2>2 DEF TellsPaths, SamePath
  <2>4. PathOfEntry(y, w, a, v) = PathOfEntry(State, w, a, v)
    BY <1>2, <1>11, <1>14, <1>16, <2>2 DEF PathOfEntry, SamePath
  <2>5. /\ s.watch[v] \in Watch /\ SameLog(watch[v], s.watch[v]) /\ SameRead(watch[v], s.watch[v])
        /\ v # w => s.watch[v].told = watch[v].told
    BY <1>3 DEF EntryRead, Alike, SameTold
  <2>6. QED
    BY <2>3, <2>4, <2>5 DEF SameLog, SameRead, SameHandle
<1>18. s.watch[w].told = told
  BY <1>2, <1>3, <1>8 DEF EntryRead
<1>19. s \in States /\ s.watches = watches /\ \A v \in Ids : v \notin Watches => s.watch[v] = None
  BY <1>3 DEF EntryRead
<1>20. MapStep /\ \A v \in Watches : Kept(s.watch[v], watch'[v])
  BY <1>1, <1>17, <1>19, StartedMap
<1>21. ASSUME NEW v \in Watches
       PROVE  /\ watch'[v].seen = watch[v].seen /\ (v # w => watch'[v].told = watch[v].told)
              /\ watch'[v].rename = IF v = w /\ a.act = "old" THEN a.name ELSE watch[v].rename
              /\ watch'[v].path = PathOfEntry(State, w, a, v)
  <2>1. Kept(s.watch[v], watch'[v])
    BY <1>20
  <2>2. QED
    BY <1>17, <2>1 DEF Kept, SameTold, SameLog, SamePath
<1>22. watch'[w].told = told
  BY <1>18, <1>20 DEF Kept, SameTold
<1>23. ASSUME Clean
       PROVE  ReadStep(w, a)
  BY <1>2, <1>5, <1>6, <1>7, <1>8, <1>20, <1>21, <1>22, <1>23 DEF ReadStep
<1>24. QED
  BY <1>20, <1>23


\* The first half of the rename that is now complete, and whose name it is.
HalfRead(w, a, own, k, o) ==
  /\ k = Len(watch[w].told) /\ o = watch[w].rename /\ IsOld(w, k) /\ NameAt(w, k) = o /\ o \in used
  /\ NameAt(w, k + 1) = a.name /\ a.name \in used
  /\ own[watch[w].ino][a.name] = own[watch[w].ino][o]
  /\ Old(watch[w]) = Append(watch[w].path, o)
  /\ \A n \in Given : Exists(n) /\ place[n].in = watch[w].ino => place[n].name # o

LEMMA OldName ==
  ASSUME TypeOK, NEW own \in Owners, NamesInv(own), PathInv(own), NEW w \in Watches,
         NEW a, ReadStep(w, a), a.act = "new"
  PROVE  \E o \in Names, k \in Nat : HalfRead(w, a, own, k, o)
<1>0. PICK k : k = Len(watch[w].told)
  OBVIOUS
<1>1. /\ k \in Nat /\ k + 1 \in 1 .. Len(watch[w].seen) /\ a = watch[w].seen[k + 1]
  BY <1>0 DEF ReadStep
<1>2. IsNew(w, k + 1) /\ NameAt(w, k + 1) = a.name
  BY <1>1 DEF IsNew, NameAt
<1>3. Story(w, own) /\ Remembers(w) /\ used \subseteq Names
  BY DEF NamesInv, PathInv, TypeOK, TreeTypeOK
<1>4. IsOld(w, k)
  <2>1. Came(w, k + 1, own) /\ (k + 1) - 1 = k
    BY <1>1, <1>2, <1>3 DEF Story
  <2>2. QED
    BY <2>1 DEF Came
<1>5. PICK o : o = NameAt(w, k)
  OBVIOUS
<1>6. o \in used /\ a.name \in used
  BY <1>1, <1>2, <1>3, <1>4, <1>5 DEF Story, IsOld
<1>7. o = watch[w].rename
  BY <1>0, <1>3, <1>4, <1>5 DEF Remembers
<1>8. Left(w, k, own)
  BY <1>1, <1>3, <1>4 DEF Story
<1>9. o \in Names /\ o # None
  BY <1>3, <1>6, WatchesAssumption
<1>10. Old(watch[w]) = Append(watch[w].path, o)
  BY <1>7, <1>9 DEF Old
<1>11. own[watch[w].ino][a.name] = own[watch[w].ino][o]
  BY <1>2, <1>5, <1>8 DEF Left, OwnerAt
<1>12. QED
  <2>1. HalfRead(w, a, own, k, o)
    BY <1>0, <1>2, <1>4, <1>5, <1>6, <1>7, <1>8, <1>10, <1>11 DEF Left, HalfRead
  <2>2. QED
    BY <1>1, <1>9, <2>1

\* No name that was given extends another.
LEMMA NoSibling ==
  ASSUME Clean, NEW p, \A i \in 1 .. Len(p) : p[i] \in used, Len(p) \in Nat,
         NEW q \in Seq(Texts), NEW o
  PROVE  Alone(p, q, o)
<1>1. SUFFICES ASSUME Len(q) + 1 <= Len(p)
               PROVE  <<p[Len(q) + 1], o>> \notin DOMAIN Rest
  BY DEF Alone
<1>2. PICK l \in Nat : l = Len(q)
  OBVIOUS
<1>3. l + 1 \in 1 .. Len(p)
  BY <1>1, <1>2
<1>4. PICK x \in used : x = p[l + 1]
  BY <1>3
<1>5. ASSUME <<x, o>> \in DOMAIN Rest
      PROVE  FALSE
  <2>1. <<x, o>>[1] = x
    OBVIOUS
  <2>2. x \in {pair[1] : pair \in DOMAIN Rest}
    BY <1>5, <2>1
  <2>3. QED
    BY <2>2 DEF Clean
<1>6. QED
  BY <1>2, <1>4, <1>5

\* The directory of a watch is told by a path of at most one name.
LEMMA SameFolder ==
  ASSUME TypeOK, NEW own \in Owners, PathInv(own), NEW u \in Watches, NEW v \in Watches,
         watch[u].path = watch[v].path, Len(watch[v].path) \in {0, 1}
  PROVE  watch[u].ino = watch[v].ino
<1>1. Rooted(u, own) /\ Rooted(v, own)
  BY DEF PathInv
<1>2. CASE Len(watch[v].path) = 0
  BY <1>1, <1>2 DEF Rooted
<1>3. CASE Len(watch[v].path) = 1
  <2>1. watch[v].path # <<>>
    BY <1>3
  <2>2. watch[v].ino # Root /\ watch[u].ino # Root
    BY <1>1, <2>1 DEF Rooted
  <2>3. QED
    BY <1>1, <1>3, <2>2 DEF Rooted
<1>4. QED
  BY <1>2, <1>3

LEMMA ReadRooted ==
  ASSUME TypeOK, Clean, NEW own \in Owners, NamesInv(own), PathInv(own), NEW w \in Watches,
         NEW a, ReadStep(w, a), NEW v \in Watches
  PROVE  Rooted(v, own)'
<1>1. PICK p \in Seq(Texts) : p = watch[v].path
  BY Made DEF TypeOK, Watch
<1>2. PICK q \in Seq(Texts) : q = watch[w].path
  BY Made DEF TypeOK, Watch
<1>3. Rooted(v, own) /\ Rooted(w, own) /\ Len(p) \in Nat /\ Len(q) \in Nat
  BY DEF PathInv
<1>4. watch'[v].ino = watch[v].ino /\ used' = used /\ watch'[v].path = PathOfEntry(State, w, a, v)
  BY DEF ReadStep, MapStep
<1>5. CASE watch'[v].path = watch[v].path
  BY <1>3, <1>4, <1>5 DEF Rooted
<1>6. CASE watch'[v].path # watch[v].path
  <2>1. a.act = "new" /\ watch'[v].path = Renamed(p, Old(watch[w]), Append(q, a.name))
    BY <1>1, <1>2, <1>4, <1>6 DEF PathOfEntry, State
  <2>20. PICK o \in Names, k \in Nat : HalfRead(w, a, own, k, o)
    BY <2>1, OldName
  <2>2. /\ o \in used /\ a.name \in used /\ Old(watch[w]) = Append(q, o)
        /\ own[watch[w].ino][a.name] = own[watch[w].ino][o]
    BY <1>2, <2>20 DEF HalfRead
  <2>3. PICK m \in Names : m = a.name
    BY <2>2 DEF TypeOK, TreeTypeOK
  <2>4. o \in Texts /\ m \in Texts
    BY DEF Texts
  <2>5. PICK r : r = watch'[v].path /\ r = NewPath(p, q, o, m)
    BY <2>1, <2>2, <2>3 DEF NewPath
  <2>6. \A i \in 1 .. Len(p) : p[i] \in used
    BY <1>1, <1>3 DEF Rooted
  <2>7. Alone(p, q, o)
    BY <1>3, <2>6, NoSibling
  <2>8. Replaces(r, p, q, o, m)
    BY <2>4, <2>5, <2>7, NewPathDoes
  <2>9. /\ IsPrefix(Append(q, o), p) /\ Len(r) = Len(p)
        /\ \A i \in 1 .. Len(p) : r[i] = IF i = Len(q) + 1 THEN m ELSE p[i]
    BY <1>1, <1>6, <2>5, <2>8 DEF Replaces
  <2>10. PICK old \in Seq(Texts) :
           /\ old = Append(q, o) /\ Len(old) = Len(q) + 1 /\ old[Len(q) + 1] = o
           /\ \A i \in 1 .. Len(q) : old[i] = q[i]
    <3>1. /\ Append(q, o) \in Seq(Texts) /\ Len(Append(q, o)) = Len(q) + 1
          /\ Append(q, o)[Len(q) + 1] = o /\ \A i \in 1 .. Len(q) : Append(q, o)[i] = q[i]
      BY <2>4, AppendProperties
    <3>2. QED
      BY <3>1
  <2>11. Len(q) + 1 <= Len(p) /\ \A i \in 1 .. Len(q) + 1 : old[i] = p[i]
    BY <2>9, <2>10, PrefixIs
  <2>12. \A i \in 1 .. Len(r) : r[i] \in used
    BY <2>2, <2>3, <2>6, <2>9
  <2>13. Len(p) >= 1
    BY <1>3, <2>11
  <2>14. watch[v].ino # Root
    <3>1. p # <<>>
      BY <2>13
    <3>2. QED
      BY <1>1, <1>3, <3>1 DEF Rooted
  <2>15. ASSUME Len(r) = 1
         PROVE  own[Root][r[1]] = watch[v].ino
    <3>1. Len(q) = 0 /\ Len(p) = 1
      BY <1>3, <2>9, <2>11, <2>15
    <3>2. watch[w].ino = Root
      BY <1>2, <1>3, <3>1 DEF Rooted
    <3>3. r[1] = m /\ p[1] = o
      BY <2>9, <2>10, <2>11, <3>1
    <3>4. own[Root][p[1]] = watch[v].ino
      BY <1>1, <1>3, <2>14, <3>1 DEF Rooted
    <3>5. QED
      BY <2>2, <2>3, <3>2, <3>3, <3>4
  <2>16. QED
    BY <1>4, <2>5, <2>9, <2>12, <2>13, <2>14, <2>15 DEF Rooted
<1>7. QED
  BY <1>5, <1>6

LEMMA ReadRemembers ==
  ASSUME TypeOK, NEW own \in Owners, PathInv(own), NEW w \in Watches,
         NEW a, ReadStep(w, a), NEW v \in Watches
  PROVE  Remembers(v)'
<1>1. Remembers(v)
  BY DEF PathInv
<1>2. PICK k : k = Len(watch[w].told)
  OBVIOUS
<1>3. /\ k \in Nat /\ k + 1 \in 1 .. Len(watch[w].seen) /\ a = watch[w].seen[k + 1]
      /\ Len(watch'[w].told) = k + 1
      /\ watch'[v].seen = watch[v].seen /\ (v # w => watch'[v].told = watch[v].told)
      /\ watch'[v].rename = IF v = w /\ a.act = "old" THEN a.name ELSE watch[v].rename
  BY <1>2 DEF ReadStep
<1>4. CASE v # w
  <2>1. PICK l : l = Len(watch[v].told) /\ l = Len(watch'[v].told)
    BY <1>3, <1>4
  <2>2. /\ IsOld(v, l)' <=> IsOld(v, l)
        /\ NameAt(v, l)' = NameAt(v, l)
    BY <1>3 DEF IsOld, NameAt
  <2>3. QED
    BY <1>1, <1>3, <1>4, <2>1, <2>2 DEF Remembers
<1>5. CASE v = w
  <2>1. IsOld(v, k + 1)' => a.act = "old" /\ NameAt(v, k + 1)' = a.name
    BY <1>3, <1>5 DEF IsOld, NameAt
  <2>2. PICK l : l = k + 1 /\ l = Len(watch'[v].told)
    BY <1>3, <1>5
  <2>3. l <= Len(watch'[v].seen)
    BY <1>3, <1>5, <2>2
  <2>4. IsOld(v, l)' => watch'[v].rename = NameAt(v, l)'
    BY <1>3, <1>5, <2>1, <2>2
  <2>5. QED
    BY <2>2, <2>3, <2>4 DEF Remembers
<1>6. QED
  BY <1>4, <1>5


\* A folder that a watched directory is in has a path of at most one name.
LEMMA ShortPath ==
  ASSUME TypeOK, NEW own \in Owners, PathInv(own), NEW d \in Dirs, Watched(d),
         NEW v, v = watches[place[d].in]
  PROVE  Len(watch[v].path) \in {0, 1}
<1>1. PICK g \in Folders : g = place[d].in /\ v \in Watches /\ watch[v].ino = g
  BY WatchedFacts
<1>2. CASE g = Root
  <2>1. Rooted(v, own)
    BY <1>1 DEF PathInv
  <2>2. watch[v].path = <<>>
    BY <1>1, <1>2, <2>1 DEF Rooted
  <2>3. QED
    BY <2>2
<1>3. CASE g # Root
  <2>1. g \in Dirs /\ Watched(g) /\ place[g].in = Root
    BY <1>1, <1>3, WatchedFacts
  <2>2. PICK u : u = watches[Root]
    OBVIOUS
  <2>3. u \in Watches /\ watch[u].ino = Root
    BY <2>1, <2>2, WatchedFacts
  <2>4. Rooted(u, own)
    BY <2>3 DEF PathInv
  <2>5. watch[u].path = <<>>
    BY <2>3, <2>4 DEF Rooted
  <2>6. Follows(g, own)
    BY <2>1 DEF PathInv
  <2>7. PICK m \in Names : watch[v].path = Append(watch[u].path, m)
    BY <1>1, <2>1, <2>2, <2>6 DEF Follows
  <2>8. <<>> \in Seq(Names) /\ Len(<<>>) = 0
    OBVIOUS
  <2>9. Len(Append(<<>>, m)) = 1
    BY <2>8, AppendProperties
  <2>10. QED
    BY <2>5, <2>7, <2>9
<1>4. QED
  BY <1>2, <1>3

\* What the reader has yet to come to, it still has to, but for the entry itself.
LEMMA StillAhead ==
  ASSUME NEW own \in Owners, NEW w \in Watches, NEW a, ReadStep(w, a), NEW d \in Dirs,
         watches'[place[d].in] = watches[place[d].in], NEW v \in Watches, v = watches[place[d].in],
         NEW m, m \in used, own[place[d].in][m] = d, Len(watch[v].told) \in Nat,
         \/ place[d].name = m
         \/ \E i \in Nat : /\ i >= Len(watch[v].told) /\ IsOld(v, i) /\ NameAt(v, i) = m
                           /\ v = w => i # Len(watch[w].told)
  PROVE  Ahead(d, m, own)'
<1>1. /\ place' = place /\ used' = used
      /\ watch'[v].seen = watch[v].seen /\ (v # w => watch'[v].told = watch[v].told)
      /\ Len(watch'[w].told) = Len(watch[w].told) + 1
  BY DEF ReadStep
<1>2. CASE place[d].name = m
  BY <1>1, <1>2 DEF Ahead
<1>3. ASSUME NEW i \in Nat, i >= Len(watch[v].told), IsOld(v, i), NameAt(v, i) = m,
             v = w => i # Len(watch[w].told)
      PROVE  Ahead(d, m, own)'
  <2>1. IsOld(v, i)' /\ NameAt(v, i)' = m
    BY <1>1, <1>3 DEF IsOld, NameAt
  <2>2. i >= Len(watch'[v].told)
    BY <1>1, <1>3
  <2>3. QED
    BY <1>1, <2>1, <2>2 DEF Ahead
<1>4. QED
  BY <1>2, <1>3

LEMMA ReadFollows ==
  ASSUME TypeOK, TypeOK', Clean, MapInv, NEW own \in Owners, NamesInv(own), PathInv(own),
         NEW w \in Watches, NEW a, ReadStep(w, a), NEW d \in Dirs, Watched(d)'
  PROVE  Follows(d, own)'
<1>1. MapStep /\ place' = place /\ used' = used /\ Exists(d)
  BY DEF ReadStep, Watched, Exists
<1>2. /\ Watched(d) /\ watches'[d] = watches[d]
      /\ watches'[place[d].in] = watches[place[d].in]
  BY <1>1, StaysWatched
<1>3. PICK g \in Folders : g = place[d].in
  BY <1>2, WatchedFacts
<1>4. PICK v : v = watches[g] /\ v = watches'[g]
  BY <1>2, <1>3
<1>5. PICK u : u = watches[d] /\ u = watches'[d]
  BY <1>2
<1>6. /\ u \in Watches /\ watch[u].ino = d /\ InMap(u)
      /\ v \in Watches /\ watch[v].ino = g /\ InMap(v)
  BY <1>2, <1>3, <1>4, <1>5, WatchedFacts
<1>7. PICK m \in Names : Ahead(d, m, own) /\ watch[u].path = Append(watch[v].path, m)
  <2>1. Follows(d, own)
    BY <1>2 DEF PathInv
  <2>2. QED
    BY <1>3, <1>4, <1>5, <2>1 DEF Follows
<1>8. PICK h \in Seq(Texts) : h = watch[v].path
  BY <1>6, Made DEF TypeOK, Watch
<1>9. PICK q \in Seq(Texts) : q = watch[w].path
  BY Made DEF TypeOK, Watch
<1>10. PICK k \in Nat : k = Len(watch[w].told) /\ k + 1 \in 1 .. Len(watch[w].seen)
                        /\ a = watch[w].seen[k + 1]
  BY DEF ReadStep
<1>11. Len(watch[v].told) \in Nat
  <2>1. watch[v].told \in Seq(Nat)
    BY <1>6, Made DEF TypeOK, Watch
  <2>2. QED
    BY <2>1
<1>12. /\ m \in used /\ own[g][m] = d
       /\ \/ place[d].name = m
          \/ \E i \in Nat : i >= Len(watch[v].told) /\ IsOld(v, i) /\ NameAt(v, i) = m
  BY <1>3, <1>4, <1>7 DEF Ahead
<1>13. /\ watch'[u].path = PathOfEntry(State, w, a, u)
       /\ watch'[v].path = PathOfEntry(State, w, a, v)
  BY <1>6 DEF ReadStep
<1>14. ASSUME NEW n \in Names, Ahead(d, n, own)', watch'[u].path = Append(watch'[v].path, n)
       PROVE  Follows(d, own)'
  BY <1>1, <1>3, <1>4, <1>5, <1>14 DEF Follows
<1>15. CASE a.act # "new"
  <2>1. watch'[u].path = Append(watch'[v].path, m)
    BY <1>7, <1>13, <1>15 DEF PathOfEntry, State
  <2>2. ~IsOld(w, k)
    <3>1. IsOld(w, k) => IsNew(w, k + 1)
      BY DEF NamesInv, Story, Left
    <3>2. QED
      BY <1>10, <1>15, <3>1 DEF IsNew
  <2>3. Ahead(d, m, own)'
    BY <1>2, <1>3, <1>4, <1>6, <1>10, <1>11, <1>12, <2>2, StillAhead
  <2>4. QED
    BY <1>14, <2>1, <2>3
<1>16. CASE a.act = "new"
  <2>1. PICK o \in Names : HalfRead(w, a, own, k, o)
    <3>1. PICK x \in Nat, o \in Names : HalfRead(w, a, own, x, o)
      BY <1>16, OldName
    <3>2. x = k
      BY <1>10, <3>1 DEF HalfRead
    <3>3. QED
      BY <3>1, <3>2
  <2>2. PICK n \in Names : n = a.name
    BY <2>1 DEF HalfRead, TypeOK, TreeTypeOK
  <2>3. m \in Texts /\ o \in Texts /\ n \in Texts
    BY DEF Texts
  <2>4. Append(h, m) \in Seq(Texts)
    BY <2>3, AppendProperties
  <2>5. Alone(h, q, o) /\ Alone(Append(h, m), q, o)
    <3>1. Rooted(u, own) /\ Rooted(v, own)
      BY <1>6 DEF PathInv
    <3>2. /\ \A i \in 1 .. Len(h) : h[i] \in used
          /\ \A i \in 1 .. Len(Append(h, m)) : Append(h, m)[i] \in used
      BY <1>7, <1>8, <3>1 DEF Rooted
    <3>3. Len(h) \in Nat /\ Len(Append(h, m)) \in Nat
      BY <2>4
    <3>4. QED
      BY <3>2, <3>3, NoSibling
  <2>6. /\ watch'[u].path = NewPath(Append(h, m), q, o, n)
        /\ watch'[v].path = NewPath(h, q, o, n)
    <3>1. /\ watch'[u].path = Renamed(watch[u].path, Old(watch[w]), Append(watch[w].path, a.name))
          /\ watch'[v].path = Renamed(watch[v].path, Old(watch[w]), Append(watch[w].path, a.name))
      BY <1>6, <1>13, <1>16 DEF PathOfEntry, State, InMap
    <3>2. Old(watch[w]) = Append(q, o)
      BY <1>9, <2>1 DEF HalfRead
    <3>3. QED
      BY <1>7, <1>8, <1>9, <2>2, <3>1, <3>2 DEF NewPath
  <2>7. watch'[u].path = Append(watch'[v].path, IF h = q /\ m = o THEN n ELSE m)
    BY <2>3, <2>5, <2>6, NewPathBelow
  <2>8. CASE ~ (h = q /\ m = o)
    <3>1. watch'[u].path = Append(watch'[v].path, m)
      BY <2>7, <2>8
    <3>2. v = w => NameAt(v, k) # m
      BY <1>8, <1>9, <2>1, <2>8 DEF HalfRead
    <3>3. \/ place[d].name = m
          \/ \E i \in Nat : /\ i >= Len(watch[v].told) /\ IsOld(v, i) /\ NameAt(v, i) = m
                            /\ v = w => i # Len(watch[w].told)
      BY <1>10, <1>12, <3>2
    <3>4. Ahead(d, m, own)'
      BY <1>2, <1>3, <1>4, <1>6, <1>11, <1>12, <3>3, StillAhead
    <3>5. QED
      BY <1>14, <3>1, <3>4
  <2>9. CASE h = q /\ m = o
    <3>1. watch'[u].path = Append(watch'[v].path, n)
      BY <2>7, <2>9
    <3>2. watch[w].ino = g
      <4>1. Len(watch[v].path) \in {0, 1}
        BY <1>2, <1>3, <1>4, ShortPath
      <4>2. watch[w].ino = watch[v].ino
        BY <1>6, <1>8, <1>9, <2>9, <4>1, SameFolder
      <4>3. QED
        BY <1>6, <4>2
    <3>3. /\ n \in used /\ own[g][n] = d /\ IsOld(w, k) /\ NameAt(w, k) = m /\ NameAt(w, k + 1) = n
          /\ place[d].name # m
      <4>1. d \in Given /\ Exists(d)
        BY <1>1 DEF Given
      <4>2. QED
        BY <1>3, <1>12, <2>1, <2>2, <2>9, <3>2, <4>1 DEF HalfRead
    <3>4. PICK i \in Nat : i >= Len(watch[v].told) /\ IsOld(v, i) /\ NameAt(v, i) = m
      BY <1>12, <3>3
    <3>5. IsNew(v, i + 1) /\ OwnerAt(v, i + 1, own) = d
      <4>1. Left(v, i, own)
        BY <1>6, <3>4 DEF NamesInv, Story
      <4>2. QED
        BY <1>6, <1>12, <3>4, <4>1 DEF Left, OwnerAt
    <3>6. NameAt(v, i + 1) = n
      <4>1. Agree(w, v)
        BY <1>6 DEF NamesInv
      <4>2. QED
        BY <1>6, <3>2, <3>3, <3>4, <4>1 DEF Agree
    <3>7. place[d].name = n \/ \E j \in Nat : j > i + 1 /\ IsOld(v, j) /\ NameAt(v, j) = n
      <4>1. Came(v, i + 1, own)
        BY <1>6, <3>5 DEF NamesInv, Story
      <4>2. d \in Given /\ Exists(d) /\ watch[v].open = TRUE
        BY <1>1, <1>6 DEF Given, MapInv
      <4>3. QED
        BY <1>3, <1>6, <3>5, <3>6, <4>1, <4>2 DEF Came
    <3>8. \/ place[d].name = n
          \/ \E j \in Nat : /\ j >= Len(watch[v].told) /\ IsOld(v, j) /\ NameAt(v, j) = n
                            /\ v = w => j # Len(watch[w].told)
      BY <1>11, <3>4, <3>7
    <3>9. Ahead(d, n, own)'
      BY <1>2, <1>3, <1>4, <1>6, <1>11, <3>3, <3>8, StillAhead
    <3>10. QED
      BY <1>14, <3>1, <3>9
  <2>10. QED
    BY <2>8, <2>9
<1>17. QED
  BY <1>15, <1>16

LEMMA ParsePaths ==
  ASSUME IInv, IInv', PInv, Parse
  PROVE  PInv'
<1>1. TypeOK /\ TypeOK' /\ PortTypeOK /\ rd.pc = "parse" /\ UNCHANGED <<place, used>>
  BY DEF IInv, TypeOK, Parse
<1>2. PICK w \in Watches : w = rd.w /\ Reading(w)
  BY <1>1 DEF PortTypeOK, Reading
<1>3. PICK e : e = watch[w].buf[rd.i]
  OBVIOUS
<1>4. PICK s : s = Entered(w, e)
  OBVIOUS
<1>5. PICK t : Become(t) /\ (Started(s, t, w) \/ t = s)
  <2>1. \/ \E fails \in Attempts : Become(StartRead(s, w, fails)) /\ Attempt(fails)
        \/ Become(s)
    BY <1>2, <1>3, <1>4 DEF Parse, Restart, Entered
  <2>2. ASSUME NEW fails \in Attempts
        PROVE  Started(s, StartRead(s, w, fails), w)
    <3>1. EntryRead(s, w)
      BY <1>2, <1>3, <1>4, EntryReadDoes
    <3>2. s \in States /\ s.watch[w] \in Watch /\ w \in Ids
      BY <3>1, Made DEF EntryRead, IInv, TypeOK
    <3>3. QED
      BY <3>2, StartReadDoes
  <2>3. QED
    BY <2>1, <2>2
<1>6. MapStep /\ (Clean => \E a \in Acts : ReadStep(w, a))
  BY <1>1, <1>2, <1>3, <1>4, <1>5, EntryPaths
<1>7. MapInv'
  BY <1>1, <1>6, MapStays DEF PInv
<1>8. ASSUME Clean'
      PROVE  \E own \in Owners : NamesInv(own)' /\ PathInv(own)'
  <2>1. Watches' = Watches
    BY <1>6 DEF MapStep
  <2>2. Clean
    BY <1>1, <1>6, <1>8, <2>1, CleanBefore DEF MapStep
  <2>3. PICK own \in Owners : NamesInv(own) /\ PathInv(own)
    BY <2>2 DEF PInv
  <2>4. PICK a \in Acts : ReadStep(w, a)
    BY <1>6, <2>2
  <2>5. NamesInv(own)'
    <3>1. \A v \in Watches' : SeenStays(v)
      BY <1>6, <2>1, <2>4 DEF ReadStep, MapStep, SeenStays
    <3>2. QED
      BY <1>1, <2>3, <3>1, NamesStay
  <2>6. \A v \in Watches' : Remembers(v)' /\ Rooted(v, own)'
    BY <1>1, <2>1, <2>2, <2>3, <2>4, ReadRemembers, ReadRooted
  <2>7. \A d \in Dirs : Watched(d)' => Follows(d, own)'
    BY <1>1, <2>2, <2>3, <2>4, ReadFollows DEF PInv
  <2>8. QED
    BY <2>5, <2>6, <2>7 DEF PathInv
<1>9. QED
  BY <1>7, <1>8 DEF PInv

-----------------------------------------------------------------------------
(* The paths follow. *)

LEMMA GetRequestPaths ==
  ASSUME IInv, TypeOK', PInv, GetRequest
  PROVE  PInv'
<1>1. TypeOK /\ UNCHANGED <<place, used>>
  BY DEF IInv, GetRequest, Get
<1>2. Get("wake") /\ port # <<>>
  BY DEF GetRequest, Get
<1>3. Got.watches = watches
  BY <1>1, <1>2, GotDoes
<1>4. CASE Become(Got)
  <2>1. CalmStep
    BY <1>1, <1>2, <1>4, DropCalm
  <2>2. QED
    BY <1>1, <2>1, CalmKeeps
<1>5. ASSUME NEW n \in At(Packet.path), NEW fails \in Attempts,
             watches[FolderOf(n)] = None => Watches # Ids, Become(AddWatch(Got, n, fails))
      PROVE  PInv'
  <2>1. n \in Inodes /\ Exists(n)
    BY DEF At
  <2>2. CASE watches[FolderOf(n)] = None
    BY <1>2, <1>5, <2>1, <2>2, FreshPaths
  <2>3. CASE watches[FolderOf(n)] # None
    <3>1. AddWatch(Got, n, fails)
          = StartRead(Marked(Got, watches[FolderOf(n)], n, TRUE), watches[FolderOf(n)], fails)
      BY <1>3, <2>3 DEF AddWatch
    <3>2. TRUE \in BOOLEAN
      OBVIOUS
    <3>3. CalmStep
      BY <1>2, <1>5, <2>1, <2>3, <3>1, <3>2, MarkCalm
    <3>4. QED
      BY <1>1, <3>3, CalmKeeps
  <2>4. QED
    BY <2>2, <2>3
<1>6. ASSUME NEW n \in At(Packet.path), NEW fails \in Attempts, Become(RemWatch(Got, n, fails))
      PROVE  PInv'
  <2>1. n \in Inodes /\ Exists(n)
    BY DEF At
  <2>2. CASE watches[FolderOf(n)] = None
    <3>1. Become(Got)
      BY <1>3, <1>6, <2>2 DEF RemWatch
    <3>2. QED
      BY <1>4, <3>1
  <2>3. CASE watches[FolderOf(n)] # None
    <3>1. RemWatch(Got, n, fails)
          = StartRead(Marked(Got, watches[FolderOf(n)], n, FALSE), watches[FolderOf(n)], fails)
      BY <1>3, <2>3 DEF RemWatch
    <3>2. FALSE \in BOOLEAN
      OBVIOUS
    <3>3. CalmStep
      BY <1>2, <1>6, <2>1, <2>3, <3>1, <3>2, MarkCalm
    <3>4. QED
      BY <1>1, <3>3, CalmKeeps
  <2>4. QED
    BY <2>2, <2>3
<1>7. QED
  BY <1>4, <1>5, <1>6 DEF GetRequest

LEMMA InitPaths ==
  ASSUME Init
  PROVE  PInv
<1> PICK s \in Starts : /\ place = s.tree /\ used = s.used
                        /\ watch = [w \in Ids |-> None] /\ watches = [f \in Folders |-> None]
  BY DEF Init
<1>1. /\ Watches = {} /\ place = s.tree /\ \A f \in Folders : watches[f] = None
      /\ used = s.used
  BY DEF Watches
<1>2. MapInv
  BY <1>1 DEF MapInv
<1>3. PICK own : own = [f \in Folders |-> [m \in Names |->
                          IF \E n \in Given : s.tree[n] = [in |-> f, name |-> m]
                          THEN CHOOSE n \in Given : s.tree[n] = [in |-> f, name |-> m] ELSE Root]]
  OBVIOUS
<1>4. own \in Owners
  <2>1. ASSUME NEW f \in Folders, NEW m \in Names
        PROVE  own[f][m] \in Inodes
    BY <1>3 DEF Inodes, Given
  <2>2. QED
    BY <1>3, <2>1 DEF Owners
<1>5. ASSUME NEW n \in Given, Exists(n)
      PROVE  place[n].name \in used /\ own[place[n].in][place[n].name] = n
  <2>1. n \in There(s.tree) /\ place[n] = s.tree[n]
    BY <1>1, <1>5, WatchesAssumption, StartsAssumption DEF Given, Exists, There
  <2>2. PICK p \in Place : p = s.tree[n]
    BY <2>1, StartsAssumption DEF There
  <2>3. PICK f \in Folders, m \in Names : p.in = f /\ p.name = m /\ p = [in |-> f, name |-> m]
    BY DEF Place
  <2>4. ASSUME NEW k \in Given, s.tree[k] = [in |-> f, name |-> m]
        PROVE  k = n
    <3>1. k \in There(s.tree)
      BY <2>2, <2>3, <2>4, WatchesAssumption, StartsAssumption DEF Given, There, Inodes
    <3>2. QED
      BY <2>1, <2>2, <2>3, <2>4, <3>1, StartsAssumption
  <2>5. own[f][m] = n
    BY <1>3, <2>2, <2>3, <2>4
  <2>6. m \in used
    BY <1>1, <2>1, <2>2, <2>3, StartsAssumption
  <2>7. QED
    BY <2>1, <2>2, <2>3, <2>5, <2>6
<1>6. NamesInv(own)
  BY <1>1, <1>5 DEF NamesInv, Placed
<1>7. ASSUME NEW d \in Dirs
      PROVE  ~Watched(d)
  <2>1. watches[d] = None
    BY <1>1 DEF Folders
  <2>2. QED
    BY <2>1 DEF Watched, Older
<1>8. PathInv(own)
  BY <1>1, <1>7 DEF PathInv
<1>9. QED
  BY <1>2, <1>4, <1>6, <1>8 DEF PInv

LEMMA NextPaths ==
  ASSUME IInv, IInv', PInv, [Next]_vars
  PROVE  PInv'
<1>1. TypeOK /\ TypeOK' /\ PortTypeOK
  BY DEF IInv, TypeOK
<1>2. ASSUME CalmStep
      PROVE  PInv'
  BY <1>1, <1>2, CalmKeeps
<1>3. CASE Kernel
  BY <1>1, <1>2, <1>3, CompleteCalm, OverflowCalm DEF Kernel
<1>4. CASE GetChanges \/ GetAborted
  <2>1. port # <<>> /\ UNCHANGED <<place, used>> /\ Become(Got)
    BY <1>4 DEF GetChanges, GetAborted, Get
  <2>2. QED
    BY <1>2, <2>1, DropCalm
<1>5. CASE Reader
  <2>1. CASE GetRequest
    BY <1>1, <2>1, GetRequestPaths
  <2>2. CASE GetDenied
    BY <1>1, <1>2, <2>2, GetDeniedCalm
  <2>3. CASE GetError
    BY <1>1, <1>2, <2>3, GetErrorCalm
  <2>4. CASE GetOverflow
    BY <1>1, <1>2, <2>4, GetOverflowCalm
  <2>5. CASE Parse
    BY <2>5, ParsePaths
  <2>6. QED
    BY <1>4, <1>5, <2>1, <2>2, <2>3, <2>4, <2>5 DEF Reader
<1>6. CASE Environment
  <2>1. ASSUME NEW n \in Dirs \cup Files, Modify(n) \/ Delete(n)
        PROVE  PInv'
    <3>1. CASE Modify(n)
      <4>1. n \in Files
        BY <3>1 DEF Modify
      <4>2. QED
        BY <1>1, <3>1, <4>1, ModifyPaths
    <3>2. CASE Delete(n)
      BY <1>1, <3>2, DeletePaths DEF Given
    <3>3. QED
      BY <2>1, <3>1, <3>2
  <2>2. ASSUME NEW n \in Dirs \cup Files, NEW name \in Names, Rename(n, name)
        PROVE  PInv'
    BY <1>1, <2>2, RenamePathsOf DEF Given
  <2>3. ASSUME NEW n \in Dirs \cup Files, NEW f \in Folders, NEW name \in Names, Create(n, f, name)
        PROVE  PInv'
    BY <1>1, <2>3, CreatePaths DEF Given
  <2>4. ASSUME NEW w \in Watches, Fault(w)
        PROVE  PInv'
    BY <1>1, <1>2, <2>4, FaultCalm
  <2>5. ASSUME NEW op \in {"add", "remove"}, NEW n \in Inodes, Call(op, PathOf(n))
        PROVE  PInv'
    <3>1. UNCHANGED <<place, used, watch, watches>>
      BY <2>5 DEF Call
    <3>2. QED
      BY <1>1, <1>2, <3>1, NoneCalm
  <2>6. QED
    BY <1>6, <2>1, <2>2, <2>3, <2>4, <2>5 DEF Environment
<1>7. CASE Close
  BY <1>1, <1>2, <1>7, CloseCalm
<1>8. CASE UNCHANGED vars
  BY <1>1, <1>2, <1>8, NoneCalm DEF vars
<1>9. QED
  BY <1>3, <1>5, <1>6, <1>7, <1>8 DEF Next

\* When all is reported the last name of a path is the one the directory has.
LEMMA Current ==
  ASSUME IInv, MapInv, Clean, Quiet, NEW own \in Owners, NamesInv(own), PathInv(own),
         NEW d \in Dirs, Watched(d)
  PROVE  watch[watches[d]].path = Append(watch[watches[place[d].in]].path, place[d].name)
<1>1. TypeOK /\ PortTypeOK
  BY DEF IInv, TypeOK
<1>2. PICK v : v = watches[place[d].in]
  OBVIOUS
<1>3. v \in Watches /\ InMap(v)
  BY <1>1, <1>2, WatchedFacts
<1>4. PICK r \in Watch : r = watch[v]
  BY <1>1, <1>3, Made DEF TypeOK
<1>5. PICK m \in Names : Ahead(d, m, own) /\ watch[watches[d]].path = Append(watch[v].path, m)
  BY <1>2 DEF PathInv, Follows
<1>6. After(r, 0)
  <2>1. r.overflowed = FALSE /\ r.overwritten = FALSE /\ Ordered(v)
    BY <1>3, <1>4 DEF Clean, IInv, Sound
  <2>2. rd.pc = "get" /\ \A i \in 1 .. Len(port) : port[i].st = "wake"
    BY <1>1 DEF Quiet, PortTypeOK
  <2>3. Chain(v)
    BY <1>4, <2>1, <2>2 DEF Ordered
  <2>4. ~Reading(v) /\ \A i \in 1 .. Len(port) : ~Ended(i, v)
    BY <2>2 DEF Reading, Ended
  <2>5. QED
    BY <1>4, <2>3, <2>4 DEF Chain
<1>7. Len(r.seen) = Len(r.told) /\ Len(r.told) \in Nat
  <2>1. r.open = TRUE
    BY <1>3, <1>4 DEF MapInv
  <2>2. r.kernel = <<>>
    BY <1>3, <1>4 DEF Quiet
  <2>3. Len(r.seen) = Len(r.told) + 0 + Len(r.kernel)
    BY <1>6, <2>1 DEF After
  <2>4. r.told \in Seq(Nat)
    BY DEF Watch
  <2>5. Len(r.told) \in Nat /\ Len(r.kernel) = 0
    BY <2>2, <2>4
  <2>6. QED
    BY <2>3, <2>5
<1>8. place[d].name = m
  <2>1. SUFFICES ASSUME NEW i \in Nat, i >= Len(watch[v].told), IsOld(v, i)
                 PROVE  FALSE
    BY <1>2, <1>5 DEF Ahead
  <2>2. Left(v, i, own)
    BY <1>3, <2>1 DEF NamesInv, Story
  <2>3. i + 1 \in 1 .. Len(r.seen)
    BY <1>4, <2>2 DEF Left, IsNew
  <2>4. QED
    BY <1>4, <1>7, <2>1, <2>3
<1>9. QED
  BY <1>2, <1>5, <1>8

LEMMA AppendTwo ==
  ASSUME NEW x, NEW y
  PROVE  Append(<<x>>, y) = <<x, y>>
<1> DEFINE S == {x, y}
<1>1. <<x>> \in Seq(S) /\ <<x, y>> \in Seq(S)
  OBVIOUS
<1> HIDE DEF S
<1>2. Append(<<x>>, y) \in Seq(S) /\ Len(Append(<<x>>, y)) = 2 /\ Len(<<x, y>>) = 2
  BY <1>1 DEF S
<1>3. Append(<<x>>, y)[1] = x /\ Append(<<x>>, y)[2] = y
  BY <1>1 DEF S
<1>4. \A i \in 1 .. 2 : Append(<<x>>, y)[i] = <<x, y>>[i]
  BY <1>3
<1>5. QED
  BY <1>1, <1>2, <1>4, SeqEqual

\* When all is reported a watch has the path of its directory, however it and the
\* directories above were renamed, as long as those were watched before it was and no
\* name extends another (backend_windows.go:588-600).
THEOREM PathsAreFollowed == Spec => []PathsFollow
<1>1. ASSUME IInv, PInv
      PROVE  PathsFollow
  <2>1. SUFFICES ASSUME Quiet, used \cap {pair[1] : pair \in DOMAIN Rest} = {},
                        \A w \in Watches : ~watch[w].overflowed /\ ~watch[w].overwritten,
                        NEW d \in Dirs, Exists(d), watches[d] # None, Attended(d)
                 PROVE  watch[watches[d]].path = PathOf(d)
    BY DEF PathsFollow
  <2>2. TypeOK /\ WatchTypeOK /\ MapInv
    BY <1>1 DEF IInv, TypeOK, PInv
  <2>3. Clean
    <3>1. \A w \in Watches : watch[w].overflowed \in BOOLEAN /\ watch[w].overwritten \in BOOLEAN
      BY <2>2, Made DEF Watch
    <3>2. QED
      BY <2>1, <3>1 DEF Clean
  <2>4. PICK own \in Owners : NamesInv(own) /\ PathInv(own)
    BY <1>1, <2>3 DEF PInv
  <2>5. d # Root /\ d \in Given /\ d \in Folders
    BY WatchesAssumption DEF Given, Folders
  <2>6. PICK g \in Folders : /\ g = place[d].in
                             /\ g # Root => g \in Dirs /\ place[g].in = Root
    BY <2>1, <2>2, <2>5, FolderFacts
  <2>7. Watched(d)
    <3>1. Older(g, d)
      BY <2>1, <2>5, <2>6 DEF Attended, Above
    <3>2. g # Root => Older(Root, g)
      BY <2>1, <2>5, <2>6 DEF Attended, Above
    <3>3. watch[watches[d]].along = TRUE
      <4>1. watches[d] \in Watches
        BY <2>1, <2>2, <2>5 DEF WatchTypeOK
      <4>2. watch[watches[d]].along \in BOOLEAN
        BY <2>2, <4>1, Made DEF Watch
      <4>3. QED
        BY <2>1, <4>2 DEF Attended
    <3>4. QED
      BY <2>1, <2>6, <3>1, <3>2, <3>3 DEF Watched
  <2>8. PICK u : u = watches[Root]
    OBVIOUS
  <2>9. ASSUME u \in Watches, watch[u].ino = Root
        PROVE  watch[u].path = <<>>
    BY <2>4, <2>9 DEF PathInv, Rooted
  <2>10. watch[watches[d]].path = Append(watch[watches[g]].path, place[d].name)
    BY <1>1, <2>1, <2>2, <2>3, <2>4, <2>6, <2>7, Current
  <2>11. CASE g = Root
    <3>1. watch[u].path = <<>>
      BY <2>2, <2>6, <2>7, <2>8, <2>9, <2>11, WatchedFacts
    <3>2. watch[watches[d]].path = <<place[d].name>>
      BY <2>8, <2>10, <2>11, <3>1
    <3>3. QED
      BY <2>5, <2>6, <2>11, <3>2 DEF PathOf
  <2>12. CASE g # Root
    <3>1. g \in Dirs /\ Watched(g) /\ place[g].in = Root
      BY <2>2, <2>6, <2>7, <2>12, WatchedFacts
    <3>2. u \in Watches /\ watch[u].ino = Root
      BY <2>2, <2>8, <3>1, WatchedFacts
    <3>3. watch[watches[g]].path = Append(watch[u].path, place[g].name)
      BY <1>1, <2>1, <2>2, <2>3, <2>4, <2>8, <3>1, Current
    <3>4. PICK x, y : x = place[g].name /\ y = place[d].name
      OBVIOUS
    <3>5. Append(<<>>, x) = <<x>> /\ Append(<<x>>, y) = <<x, y>>
      BY AppendTwo
    <3>6. watch[watches[g]].path = Append(<<>>, x)
      BY <2>9, <3>2, <3>3, <3>4
    <3>7. watch[watches[g]].path = <<x>>
      BY <3>5, <3>6
    <3>8. watch[watches[d]].path = <<x, y>>
      BY <2>10, <3>4, <3>5, <3>7
    <3>9. PathOf(d) = <<x, y>>
      BY <2>5, <2>6, <2>12, <3>4 DEF PathOf
    <3>10. QED
      BY <3>8, <3>9
  <2>13. QED
    BY <2>11, <2>12
<1>2. Init => IInv /\ PInv
  BY InitHolds, InitPaths
<1>3. (IInv /\ PInv) /\ [Next]_vars => (IInv /\ PInv)'
  BY NextKeeps, StutterKeeps, NextPaths
<1>4. QED
  BY <1>1, <1>2, <1>3, PTL DEF Spec
=============================================================================
