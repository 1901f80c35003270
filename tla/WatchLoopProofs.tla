-------------------------- MODULE WatchLoopProofs --------------------------
(***************************************************************************)
(* Proofs about WatchLoop, for any tree, number of changes and overflows.  *)
(***************************************************************************)
EXTENDS WatchLoop, SequenceTheorems, TLAPS

\* What holds a settled directory is settled.
UpInv == \A d \in settled \ {Root} : Parent[d] \in settled

\* No event of q tells that a path of S is gone.
Apart(q, S) == \A i \in 1 .. Len(q) : q[i].op = "gone" => q[i].name \notin S
QueueInv == Apart(queue, settled)

\* The walk comes to each settled directory, and what it has found has a watch
\* or will get one.
SetupInv ==
  /\ loop.pc = "walk" => \A d \in settled : \/ d \in loop.read \cup loop.add
                                            \/ d # Root /\ Parent[d] \notin loop.add
  /\ loop.pc = "add" => settled \subseteq loop.add \cup watched
  /\ loop.pc = "select" => settled \subseteq watched

\* The inductive invariant.
IInv == TypeOK /\ Root \in settled /\ UpInv /\ QueueInv /\ SetupInv
-----------------------------------------------------------------------------
LEMMA NotInItself ==
  ASSUME NEW e \in Entries \ {Root}
  PROVE  Parent[e] # e
<1> SUFFICES ASSUME Parent[e] = e PROVE FALSE
  OBVIOUS
<1>1. Entries \ {e} \in SUBSET Entries /\ Root \in Entries \ {e}
  BY WatchAssumption
<1>2. Closed(Entries \ {e}, Entries)
  BY DEF Closed
<1>3. QED
  BY <1>1, <1>2, WatchAssumption

\* A path that is not settled has no settled directory below it.
LEMMA BelowApart ==
  ASSUME UpInv, NEW e, e \notin settled
  PROVE  Below(e) \cap settled = {}
<1>1. CASE e \in tree
  <2>1. tree \ settled \in SUBSET tree /\ e \in tree \ settled
    BY <1>1
  <2>2. Closed(tree \ settled, tree)
    BY DEF Closed, UpInv
  <2>3. \A x \in Below(e) : x \in tree \ settled
    BY <2>1, <2>2 DEF Below
  <2>4. QED
    BY <2>3
<1>2. CASE e \notin tree
  BY <1>2 DEF Below
<1>3. QED
  BY <1>1, <1>2

\* One event or none.
LEMMA SeenType ==
  ASSUME NEW dir, NEW op \in {"create", "write", "gone"}, NEW e \in Entries \ {Root}, NEW S,
         op = "gone" => e \notin S
  PROVE  Seen(dir, op, e) \in Seq(Events) /\ Apart(Seen(dir, op, e), S)
<1>1. [op |-> op, name |-> e] \in Events
  BY DEF Events
<1>2. CASE dir \in watched
  BY <1>1, <1>2 DEF Seen, Apart
<1>3. CASE dir \notin watched
  <2>1. Seen(dir, op, e) = <<>> /\ <<>> \in Seq(Events) /\ Len(<<>>) = 0
    BY <1>3 DEF Seen
  <2>2. QED
    BY <2>1 DEF Apart
<1>4. QED
  BY <1>2, <1>3

LEMMA Joined ==
  ASSUME NEW S, NEW p \in Seq(Events), NEW q \in Seq(Events), Apart(p, S), Apart(q, S)
  PROVE  p \o q \in Seq(Events) /\ Apart(p \o q, S)
<1>1. /\ p \o q \in Seq(Events) /\ Len(p \o q) = Len(p) + Len(q)
      /\ \A i \in 1 .. Len(p) + Len(q) : (p \o q)[i] = IF i <= Len(p) THEN p[i] ELSE q[i - Len(p)]
  BY ConcatProperties
<1>2. Len(p) \in Nat /\ Len(q) \in Nat
  OBVIOUS
<1>3. ASSUME NEW i \in 1 .. Len(p \o q), (p \o q)[i].op = "gone"
      PROVE  (p \o q)[i].name \notin S
  <2>1. CASE i <= Len(p)
    <3>1. i \in 1 .. Len(p) /\ (p \o q)[i] = p[i]
      BY <1>1, <1>2, <1>3, <2>1
    <3>2. QED
      BY <1>3, <3>1 DEF Apart
  <2>2. CASE ~ (i <= Len(p))
    <3>1. i - Len(p) \in 1 .. Len(q) /\ (p \o q)[i] = q[i - Len(p)]
      BY <1>1, <1>2, <1>3, <2>2
    <3>2. PICK j \in 1 .. Len(q) : j = i - Len(p)
      BY <3>1
    <3>3. QED
      BY <1>3, <3>1, <3>2 DEF Apart
  <2>3. QED
    BY <2>1, <2>2
<1>4. QED
  BY <1>1, <1>3 DEF Apart

\* The queue after a report, whether the kernel drops it or not.
LEMMA Reported ==
  ASSUME TypeOK, QueueInv, NEW evs \in Seq(Events), Apart(evs, settled'), settled' \subseteq settled,
         changes < MaxChanges, Report(evs)
  PROVE  /\ queue' \in Seq(Events) /\ QueueInv' /\ loop' = loop
         /\ changes' \in 0 .. MaxChanges /\ stale' \in BOOLEAN /\ lost' \in BOOLEAN
<1>1. PICK S : S = settled'
  OBVIOUS
<1>2. queue \in Seq(Events) /\ Apart(queue, S)
  BY <1>1 DEF TypeOK, QueueInv, Apart
<1>3. queue' \in Seq(Events) /\ Apart(queue', S)
  <2>1. CASE queue' = queue \o evs
    BY <1>1, <1>2, <2>1, Joined
  <2>2. CASE queue' = Append(queue, [op |-> "error"])
    <3>1. PICK q : q = <<[op |-> "error"]>>
      OBVIOUS
    <3>2. q \in Seq(Events) /\ Apart(q, S)
      BY <3>1 DEF Events, Apart
    <3>3. queue' = queue \o q
      BY <1>2, <2>2, <3>1
    <3>4. QED
      BY <1>2, <3>2, <3>3, Joined
  <2>3. QED
    BY <2>1, <2>2 DEF Report
<1>4. stale' \in BOOLEAN /\ lost' \in BOOLEAN
  BY DEF TypeOK, Report
<1>5. changes' \in 0 .. MaxChanges
  BY WatchAssumption DEF TypeOK, Report
<1>6. QED
  BY <1>1, <1>3, <1>4, <1>5 DEF QueueInv, Report

\* The queue after the loop has taken an event.
LEMMA Taken ==
  ASSUME TypeOK, QueueInv, NEW op, Take(op)
  PROVE  /\ queue' \in Seq(Events) /\ QueueInv' /\ Head(queue) \in Events
         /\ op = "gone" => Name \notin settled
<1>1. queue \in Seq(Events) /\ queue # <<>> /\ queue' = Tail(queue) /\ settled' = settled
  BY DEF TypeOK, Take
<1>2. /\ Tail(queue) \in Seq(Events) /\ Len(Tail(queue)) = Len(queue) - 1
      /\ \A i \in 1 .. Len(Tail(queue)) : Tail(queue)[i] = queue[i + 1]
      /\ Head(queue) = queue[1] /\ Len(queue) \in Nat /\ Len(queue) > 0
  BY <1>1, HeadTailProperties, EmptySeq
<1>3. ASSUME NEW i \in 1 .. Len(queue'), queue'[i].op = "gone" PROVE queue'[i].name \notin settled'
  <2>1. i + 1 \in 1 .. Len(queue) /\ queue'[i] = queue[i + 1]
    BY <1>1, <1>2
  <2>2. PICK j \in 1 .. Len(queue) : j = i + 1
    BY <2>1
  <2>3. QED
    BY <1>1, <1>3, <2>1, <2>2 DEF QueueInv, Apart
<1>4. 1 \in 1 .. Len(queue) /\ Head(queue).op = op
  BY <1>2 DEF Take
<1>5. Head(queue) \in Events
  BY <1>1, <1>2, <1>4
<1>6. op = "gone" => Name \notin settled
  BY <1>2, <1>4 DEF QueueInv, Apart, Name
<1>7. QED
  BY <1>1, <1>2, <1>3, <1>5, <1>6 DEF QueueInv, Apart
-----------------------------------------------------------------------------
LEMMA InitIInv == Init => IInv
<1> SUFFICES ASSUME Init PROVE IInv
  OBVIOUS
<1>1. queue \in Seq(Events) /\ Len(queue) = 0
  BY DEF Init
<1>2. TypeOK
  <2>1. loop \in [pc : {"walk", "add", "select", "returned"}, read : SUBSET Dirs, add : SUBSET Dirs]
    BY WatchAssumption DEF Init
  <2>2. tree \subseteq Entries /\ Root \in tree /\ \A e \in tree \ {Root} : Parent[e] \in tree
    BY WatchAssumption DEF Init
  <2>3. watched \subseteq tree \cap Dirs /\ settled \subseteq tree \cap Dirs
    BY DEF Init
  <2>4. stale \in BOOLEAN /\ lost \in BOOLEAN
    BY DEF Init
  <2>5. changes \in 0 .. MaxChanges
    BY WatchAssumption DEF Init
  <2>6. QED
    BY <1>1, <2>1, <2>2, <2>3, <2>4, <2>5 DEF TypeOK
<1>3. Root \in settled /\ UpInv /\ SetupInv
  BY WatchAssumption DEF Init, UpInv, SetupInv
<1>4. QueueInv
  BY <1>1 DEF QueueInv, Apart
<1>5. QED
  BY <1>2, <1>3, <1>4 DEF IInv

LEMMA ReadIInv == ASSUME IInv, Read PROVE IInv'
<1>1. PICK d \in loop.read :
        /\ d \in tree
        /\ loop' = [loop EXCEPT !.read = (@ \ {d}) \cup Subdirs(d), !.add = @ \cup {d}]
  BY DEF Read
<1>2. UNCHANGED <<tree, watched, queue, changes, stale, lost, settled>> /\ loop.pc = "walk"
  BY DEF Read
<1>3. Subdirs(d) \subseteq Dirs
  BY DEF Subdirs
<1>4. /\ loop'.pc = "walk" /\ loop'.read = (loop.read \ {d}) \cup Subdirs(d)
      /\ loop'.add = loop.add \cup {d}
  BY <1>1, <1>2 DEF IInv, TypeOK
<1>5. TypeOK'
  BY <1>1, <1>2, <1>3 DEF IInv, TypeOK
<1>6. Root \in settled' /\ UpInv' /\ QueueInv'
  BY <1>2 DEF IInv, UpInv, QueueInv, Apart
<1>7. SetupInv'
  <2>1. ASSUME NEW x \in settled
        PROVE  x \in loop'.read \cup loop'.add \/ (x # Root /\ Parent[x] \notin loop'.add)
    <3>1. CASE x \in loop.read \cup loop.add
      BY <1>4, <3>1
    <3>2. CASE x # Root /\ Parent[x] \notin loop.add
      <4>1. CASE Parent[x] = d
        <5>1. x \in Subdirs(d)
          BY <2>1, <3>2, <4>1 DEF Subdirs, Children, IInv, TypeOK
        <5>2. QED
          BY <1>4, <5>1
      <4>2. CASE Parent[x] # d
        BY <1>4, <3>2, <4>2
      <4>3. QED
        BY <4>1, <4>2
    <3>3. QED
      BY <1>2, <2>1, <3>1, <3>2 DEF IInv, SetupInv
  <2>2. QED
    BY <1>2, <1>4, <2>1 DEF SetupInv
<1>8. QED
  BY <1>5, <1>6, <1>7 DEF IInv

LEMMA SetupIInv == ASSUME IInv, ReadFails \/ WalkDone \/ AddOne \/ AddDone PROVE IInv'
<1>1. UNCHANGED <<tree, queue, changes, stale, lost, settled>>
  BY DEF ReadFails, WalkDone, AddOne, AddDone
<1>2. Root \in settled' /\ UpInv' /\ QueueInv'
  BY <1>1 DEF IInv, UpInv, QueueInv, Apart
<1>3. TypeOK'
  BY <1>1 DEF IInv, TypeOK, ReadFails, WalkDone, AddOne, AddDone
<1>4. CASE ReadFails
  BY <1>1, <1>2, <1>3, <1>4 DEF IInv, TypeOK, SetupInv, ReadFails
<1>5. CASE WalkDone
  <2>1. loop.pc = "walk" /\ loop.read = {} /\ loop'.pc = "add" /\ loop'.add = loop.add
    BY <1>5 DEF WalkDone, IInv, TypeOK
  <2>2. PICK S : S = {e \in Entries : e \in settled => e \in loop.add}
    OBVIOUS
  <2>3. S \in SUBSET Entries
    BY <2>2
  <2>4. Root \in S
    BY <2>1, <2>2, WatchAssumption DEF IInv, SetupInv
  <2>5. ASSUME NEW e \in Entries \ {Root}, Parent[e] \in S PROVE e \in S
    <3>1. CASE e \in settled
      <4>1. Parent[e] \in settled
        BY <2>5, <3>1 DEF IInv, UpInv
      <4>2. Parent[e] \in loop.add
        BY <2>2, <2>5, <4>1
      <4>3. e \in loop.add
        BY <2>1, <2>5, <3>1, <4>2 DEF IInv, SetupInv
      <4>4. QED
        BY <2>2, <4>3
    <3>2. CASE e \notin settled
      BY <2>2, <3>2
    <3>3. QED
      BY <3>1, <3>2
  <2>6. S = Entries
    BY <2>3, <2>4, <2>5, WatchAssumption DEF Closed
  <2>7. settled \subseteq loop.add
    BY <2>2, <2>6, WatchAssumption DEF IInv, TypeOK
  <2>8. SetupInv'
    BY <1>1, <2>1, <2>7 DEF SetupInv
  <2>9. QED
    BY <1>2, <1>3, <2>8 DEF IInv
<1>6. CASE AddOne
  <2>1. PICK d \in loop.add : /\ loop' = [loop EXCEPT !.add = @ \ {d}]
                              /\ watched' = watched \cup ({d} \cap tree)
    BY <1>6 DEF AddOne
  <2>2. loop.pc = "add" /\ loop'.pc = "add" /\ loop'.add = loop.add \ {d}
    BY <1>6, <2>1 DEF AddOne, IInv, TypeOK
  <2>3. SetupInv'
    BY <1>1, <2>1, <2>2 DEF SetupInv, IInv, TypeOK
  <2>4. QED
    BY <1>2, <1>3, <2>3 DEF IInv
<1>7. CASE AddDone
  <2>1. loop.pc = "add" /\ loop.add = {} /\ loop'.pc = "select" /\ watched' = watched
    BY <1>7 DEF AddDone, IInv, TypeOK
  <2>2. SetupInv'
    BY <1>1, <2>1 DEF SetupInv, IInv
  <2>3. QED
    BY <1>2, <1>3, <2>2 DEF IInv
<1>8. QED
  BY <1>4, <1>5, <1>6, <1>7

LEMMA HandleIInv == ASSUME IInv, Handle PROVE IInv'
<1>1. PICK op : Take(op)
  BY DEF Handle, Error, Ignore, Created, Written, Gone
<1>2. TypeOK /\ QueueInv /\ UpInv
  BY DEF IInv
<1>3. queue' \in Seq(Events) /\ QueueInv' /\ Head(queue) \in Events
  BY <1>1, <1>2, Taken
<1>4. UNCHANGED <<tree, loop, changes, lost, settled>> /\ loop.pc = "select"
  BY <1>1 DEF Take
<1>5. Root \in settled' /\ UpInv'
  BY <1>4 DEF IInv, UpInv
<1>6. watched' \subseteq tree \cap Dirs /\ settled \subseteq watched' /\ stale' \in BOOLEAN
  <2>1. watched \subseteq tree \cap Dirs /\ settled \subseteq watched /\ stale \in BOOLEAN
    BY <1>4 DEF IInv, TypeOK, SetupInv
  <2>2. CASE UNCHANGED watched /\ (Debounce \/ NoDebounce)
    BY <2>1, <2>2 DEF Debounce, NoDebounce
  <2>3. CASE Created
    <3>1. Name \in Entries \ {Root}
      BY <1>3, <2>3 DEF Created, Take, Name, Events
    <3>2. Parent[Name] \in Dirs
      BY <3>1, WatchAssumption
    <3>3. QED
      BY <2>1, <2>3, <3>2 DEF Created, Debounce, NoDebounce
  <2>4. CASE Gone
    <3>1. Name \notin settled
      BY <1>2, <2>4, Taken DEF Gone
    <3>2. Below(Name) \cap settled = {}
      BY <1>2, <3>1, BelowApart
    <3>3. QED
      BY <2>1, <2>4, <3>2 DEF Gone, Debounce
  <2>5. QED
    BY <2>2, <2>3, <2>4 DEF Handle, Error, Ignore, Written
<1>7. TypeOK'
  BY <1>2, <1>3, <1>4, <1>6 DEF TypeOK
<1>8. SetupInv'
  BY <1>4, <1>6 DEF SetupInv
<1>9. QED
  BY <1>3, <1>5, <1>7, <1>8 DEF IInv

\* A change of the tree, given its effect on the tree and the watches.
LEMMA ChangedIInv ==
  ASSUME IInv, NEW evs \in Seq(Events), Apart(evs, settled'), Report(evs), changes < MaxChanges,
         tree' \subseteq Entries, Root \in tree', \A e \in tree' \ {Root} : Parent[e] \in tree',
         watched' \subseteq tree' \cap Dirs,
         settled' \subseteq settled, settled' \subseteq tree', Root \in settled', UpInv',
         settled' \cap watched \subseteq watched'
  PROVE  IInv'
<1>1. TypeOK /\ QueueInv
  BY DEF IInv
<1>2. /\ queue' \in Seq(Events) /\ QueueInv' /\ loop' = loop
      /\ changes' \in 0 .. MaxChanges /\ stale' \in BOOLEAN /\ lost' \in BOOLEAN
  BY <1>1, Reported
<1>3. TypeOK'
  BY <1>1, <1>2 DEF TypeOK
<1>4. SetupInv'
  BY <1>2 DEF IInv, SetupInv
<1>5. QED
  BY <1>2, <1>3, <1>4 DEF IInv

LEMMA EnvironmentIInv == ASSUME IInv, Environment PROVE IInv'
<1>1. PICK e \in Entries \ {Root} :
        Create(e) \/ Write(e) \/ Delete(e) \/ \E new \in Entries \ {Root} : Move(e, new)
  BY DEF Environment
<1>2. /\ tree \subseteq Entries /\ Root \in tree /\ \A x \in tree \ {Root} : Parent[x] \in tree
      /\ watched \subseteq tree \cap Dirs /\ settled \subseteq tree \cap Dirs
      /\ Root \in settled /\ UpInv
  BY DEF IInv, TypeOK
<1>3. ASSUME UNCHANGED settled
      PROVE  settled' \subseteq settled /\ Root \in settled' /\ UpInv'
  BY <1>2, <1>3 DEF UpInv
<1>4. ASSUME Children(e) = {}, settled' = settled \ {e}
      PROVE  settled' \subseteq settled /\ Root \in settled' /\ UpInv' /\ e \notin settled'
  <2>1. \A d \in settled \ {Root} : Parent[d] # e
    BY <1>2, <1>4 DEF Children
  <2>2. QED
    BY <1>2, <1>4, <2>1 DEF UpInv
<1>5. PICK S : S = settled'
  OBVIOUS
<1>6. CASE Create(e)
  <2>1. PICK evs : evs = Seen(Parent[e], "create", e)
    OBVIOUS
  <2>2. evs \in Seq(Events) /\ Apart(evs, S)
    BY <2>1, SeenType
  <2>3. Report(evs) /\ changes < MaxChanges /\ UNCHANGED <<watched, settled>> /\ tree' = tree \cup {e}
    BY <1>6, <2>1 DEF Create, Change
  <2>4. \A x \in tree' \ {Root} : Parent[x] \in tree'
    BY <1>2, <1>6, <2>3 DEF Create
  <2>5. QED
    BY <1>2, <1>3, <1>5, <2>2, <2>3, <2>4, ChangedIInv
<1>7. CASE Write(e)
  <2>1. PICK evs : evs = Seen(Parent[e], "write", e)
    OBVIOUS
  <2>2. evs \in Seq(Events) /\ Apart(evs, S)
    BY <2>1, SeenType
  <2>3. Report(evs) /\ changes < MaxChanges /\ UNCHANGED <<tree, watched, settled>>
    BY <1>7, <2>1 DEF Write, Change
  <2>4. QED
    BY <1>2, <1>3, <1>5, <2>2, <2>3, ChangedIInv
<1>8. CASE Delete(e)
  <2>1. PICK p : p = Seen(Parent[e], "gone", e)
    OBVIOUS
  <2>2. PICK q : q = Seen(e, "gone", e)
    OBVIOUS
  <2>3. /\ Report(p \o q) /\ changes < MaxChanges /\ Children(e) = {} /\ e \in tree
        /\ tree' = tree \ {e} /\ watched' = watched \ {e} /\ settled' = settled \ {e}
    BY <1>8, <2>1, <2>2 DEF Delete, Change
  <2>4. settled' \subseteq settled /\ Root \in settled' /\ UpInv' /\ e \notin settled'
    BY <1>4, <2>3
  <2>5. p \in Seq(Events) /\ Apart(p, S) /\ q \in Seq(Events) /\ Apart(q, S)
    BY <1>5, <2>1, <2>2, <2>4, SeenType
  <2>6. PICK evs \in Seq(Events) : evs = p \o q /\ Apart(evs, S)
    BY <2>5, Joined
  <2>7. \A x \in tree' \ {Root} : Parent[x] \in tree'
    BY <1>2, <2>3 DEF Children
  <2>8. QED
    BY <1>2, <1>5, <2>3, <2>4, <2>6, <2>7, ChangedIInv
<1>9. ASSUME NEW new \in Entries \ {Root}, Move(e, new) PROVE IInv'
  <2>1. PICK p : p = Seen(Parent[e], "gone", e)
    OBVIOUS
  <2>2. PICK q : q = Seen(Parent[e], "create", new)
    OBVIOUS
  <2>3. /\ Report(p \o q) /\ changes < MaxChanges /\ Children(e) = {} /\ e \in tree /\ new \notin tree
        /\ Parent[e] = Parent[new] /\ (e \in Dirs <=> new \in Dirs)
        /\ tree' = (tree \ {e}) \cup {new} /\ settled' = settled \ {e}
        /\ watched' = IF e \in watched THEN (watched \ {e}) \cup {new} ELSE watched
    BY <1>9, <2>1, <2>2 DEF Move, Change
  <2>4. settled' \subseteq settled /\ Root \in settled' /\ UpInv' /\ e \notin settled'
    BY <1>4, <2>3
  <2>5. p \in Seq(Events) /\ Apart(p, S) /\ q \in Seq(Events) /\ Apart(q, S)
    BY <1>5, <2>1, <2>2, <2>4, SeenType
  <2>6. PICK evs \in Seq(Events) : evs = p \o q /\ Apart(evs, S)
    BY <2>5, Joined
  <2>7. \A x \in tree' \ {Root} : Parent[x] \in tree'
    <3>1. Parent[e] # e
      BY NotInItself
    <3>2. QED
      BY <1>2, <2>3, <3>1 DEF Children
  <2>8. watched' \subseteq tree' \cap Dirs /\ settled' \cap watched \subseteq watched'
    BY <1>2, <2>3
  <2>9. QED
    BY <1>2, <1>5, <2>3, <2>4, <2>6, <2>7, <2>8, ChangedIInv
<1>10. QED
  BY <1>1, <1>6, <1>7, <1>8, <1>9

LEMMA NextIInv == IInv /\ [Next]_vars => IInv'
<1> SUFFICES ASSUME IInv, [Next]_vars PROVE IInv'
  OBVIOUS
<1>1. CASE UNCHANGED vars
  BY <1>1 DEF vars, IInv, TypeOK, UpInv, QueueInv, Apart, SetupInv
<1>2. CASE Read
  BY <1>2, ReadIInv
<1>3. CASE ReadFails \/ WalkDone \/ AddOne \/ AddDone
  BY <1>3, SetupIInv
<1>4. CASE Handle
  BY <1>4, HandleIInv
<1>5. CASE Environment
  BY <1>5, EnvironmentIInv
<1>6. QED
  BY <1>1, <1>2, <1>3, <1>4, <1>5 DEF Next, Loop

THEOREM Invariance == Spec => []IInv
  BY InitIInv, NextIInv, PTL DEF Spec

\* The watcher's directories exist, and so does what holds a path that exists
\* (WatchDirectories, watch.go:29-124).
THEOREM TypeCorrect == Spec => []TypeOK
<1>1. IInv => TypeOK
  BY DEF IInv
<1>2. QED
  BY <1>1, Invariance, PTL

\* However many directories are created, removed and renamed while it walks the
\* tree and afterwards, the loop watches each directory that was there from the
\* start and has stayed where it was (watch.go:51-72, 112-120).
THEOREM SettledKept == Spec => []SettledWatched
<1>1. IInv => SettledWatched
  BY DEF IInv, SetupInv, SettledWatched
<1>2. QED
  BY <1>1, Invariance, PTL
=============================================================================
