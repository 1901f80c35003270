-------------------------- MODULE HotReloadProofs --------------------------
(***************************************************************************)
(* Proofs about HotReload, for any set of files and of callbacks.          *)
(***************************************************************************)
EXTENDS HotReload, TLAPS

Covers(e, f) == e.file = f \/ ~e.update

\* A regeneration of f is still to come: from an event, from the pending
\* callback, or from one that runs.
Coming(f) ==
  \/ \E i \in DOMAIN queue : Covers(queue[i], f)
  \/ pending # Nil /\ Covers(what[pending], f)
  \/ \E c \in Callbacks : Running(c) /\ f \in run[c].todo

\* A regeneration of everything is still to come, and has not begun.
FullComing == \/ \E i \in DOMAIN queue : ~queue[i].update
              \/ pending # Nil /\ ~what[pending].update

\* The parts of the inductive invariant, as long as changes are not crowded.
Alone == \A c, d \in Callbacks : Running(c) /\ Running(d) => c = d
Covered == \A f \in Files : out[f] # src[f] => Coming(f)
Removals == \A f \in Files : src[f] = 0 /\ out[f] # 0 => FullComing
PageBehind == page # out => tab = "load" \/ \E c \in Callbacks : Running(c)

IInv == TypeOK /\ (~crowded => Alone /\ Covered /\ Removals /\ PageBehind)
-----------------------------------------------------------------------------
\* What is in a queue is still in it when an event is appended ...
LEMMA AppendKeeps ==
  ASSUME NEW q \in Seq(Event), NEW e \in Event
  PROVE  /\ Append(q, e) \in Seq(Event)
         /\ \A i \in DOMAIN q : i \in DOMAIN Append(q, e) /\ Append(q, e)[i] = q[i]
         /\ \E i \in DOMAIN Append(q, e) : Append(q, e)[i] = e
<1>1. Append(q, e) \in Seq(Event) /\ Len(Append(q, e)) = Len(q) + 1 /\ Len(q) \in Nat
  OBVIOUS
<1>2. DOMAIN Append(q, e) = 1..(Len(q) + 1) /\ DOMAIN q = 1..Len(q)
  BY <1>1
<1>3. Append(q, e)[Len(q) + 1] = e /\ \A i \in 1..Len(q) : Append(q, e)[i] = q[i]
  OBVIOUS
<1>4. QED
  BY <1>1, <1>2, <1>3

\* ... and the event taken from the front is the only one that leaves it.
LEMMA TailKeeps ==
  ASSUME NEW q \in Seq(Event), q # <<>>
  PROVE  /\ Head(q) \in Event /\ Tail(q) \in Seq(Event)
         /\ \A i \in DOMAIN q : q[i] = Head(q) \/ \E j \in DOMAIN Tail(q) : Tail(q)[j] = q[i]
<1>1. Head(q) \in Event /\ Tail(q) \in Seq(Event) /\ Head(q) = q[1]
  OBVIOUS
<1>2. ASSUME NEW i \in DOMAIN q, i # 1
      PROVE  i - 1 \in DOMAIN Tail(q) /\ Tail(q)[i - 1] = q[i]
  BY <1>2
<1>3. QED
  BY <1>1, <1>2

LEMMA InitIInv == Init => IInv
<1> SUFFICES ASSUME Init PROVE IInv
  OBVIOUS
<1> USE HotReloadAssumption DEF Init, LCWInit, Fresh
<1>1. TypeOK
  <2>1. Fresh \in [Files -> Nat] /\ <<>> \in Seq(Event) /\ 0 \in 0..MaxEdits
    OBVIOUS
  <2>2. run \in [Callbacks -> [pc : {"idle", "write", "done"}, todo : SUBSET Files]]
    OBVIOUS
  <2>3. \A c \in Callbacks : run[c].pc = "idle" /\ what[c] = Nil
    OBVIOUS
  <2>4. QED
    BY <2>1, <2>2, <2>3 DEF TypeOK, Versions
<1>2. \A c \in Callbacks : ~Running(c)
  BY DEF Running
<1>3. \A f \in Files : src[f] = out[f]
  OBVIOUS
<1>4. QED
  BY <1>1, <1>2, <1>3 DEF IInv, Alone, Covered, Removals, PageBehind

LEMMA StepType == TypeOK /\ [Next]_vars => TypeOK'
<1> SUFFICES ASSUME TypeOK, [Next]_vars PROVE TypeOK'
  OBVIOUS
<1> USE HotReloadAssumption DEF TypeOK, Versions
<1>1. ASSUME NEW f \in Files, NEW v \in Nat, NEW u \in BOOLEAN,
             Edit(f, v, [file |-> f, update |-> u])
      PROVE  TypeOK'
  <2>1. [file |-> f, update |-> u] \in Event
    BY DEF Event
  <2>2. queue' \in Seq(Event)
    BY <1>1, <2>1, AppendKeeps DEF Edit
  <2>3. QED
    BY <1>1, <2>2 DEF Edit
<1>2. CASE Editor
  <2>1. edits + 2 \in Nat /\ 0 \in Nat /\ TRUE \in BOOLEAN /\ FALSE \in BOOLEAN
    OBVIOUS
  <2>2. QED
    BY <1>1, <1>2, <2>1 DEF Editor, Save, Create, Remove
<1>3. CASE Debounce
  <2>1. Head(queue) \in Event /\ queue' \in Seq(Event)
    BY <1>3, TailKeeps DEF Debounce
  <2>2. Head(queue) # Nil
    BY <2>1 DEF Event
  <2>3. QED
    BY <1>3, <2>1, <2>2 DEF Debounce, Submit, files
<1>4. ASSUME NEW c \in Callbacks, Begin(c) PROVE TypeOK'
  <2>1. c \in submitted /\ what[c] \in Event
    BY <1>4 DEF Begin, Start
  <2>2. what[c].file \in Files
    BY <2>1 DEF Event
  <2>3. QED
    BY <1>4, <2>1, <2>2 DEF Begin, Start
<1>5. ASSUME NEW c \in Callbacks, Regenerate(c) PROVE TypeOK'
  BY <1>5 DEF Regenerate
<1>6. ASSUME NEW c \in Callbacks, Broadcast(c) PROVE TypeOK'
  <2>1. run' \in [Callbacks -> [pc : {"idle", "write", "done"}, todo : SUBSET Files]]
    BY <1>6 DEF Broadcast
  <2>2. \A d \in Callbacks : run'[d].pc # "idle" <=> run[d].pc # "idle"
    BY <1>6 DEF Broadcast
  <2>3. unseen' \in BOOLEAN /\ crowded' \in BOOLEAN
    BY <1>6 DEF Broadcast
  <2>4. tab' \in {"waiting", "load", "connect"}
    BY <1>6 DEF Broadcast
  <2>5. QED
    BY <1>6, <2>1, <2>2, <2>3, <2>4 DEF Broadcast, files
<1>7. CASE Browser
  BY <1>7 DEF Browser, Load, Connect, files
<1>8. CASE UNCHANGED vars
  BY <1>8 DEF vars
<1>9. QED
  BY <1>2, <1>3, <1>4, <1>5, <1>6, <1>7, <1>8 DEF Next, Callback

-----------------------------------------------------------------------------
\* An edit adds the event that covers it.
LEMMA EditIInv ==
  ASSUME IInv, NEW f \in Files, NEW v \in Nat, NEW u \in BOOLEAN,
         Edit(f, v, [file |-> f, update |-> u]), v = 0 => ~u
  PROVE  ~crowded' => Alone' /\ Covered' /\ Removals' /\ PageBehind'
<1> SUFFICES ASSUME ~crowded PROVE Alone' /\ Covered' /\ Removals' /\ PageBehind'
  BY DEF Edit
<1> DEFINE e == [file |-> f, update |-> u]
<1>1. Alone /\ Covered /\ Removals /\ PageBehind /\ TypeOK
  BY DEF IInv
<1>2. e \in Event
  BY DEF Event
<1>3. /\ queue' = Append(queue, e)
      /\ UNCHANGED <<pending, what, run, out, page, tab>>
      /\ \A g \in Files : g # f => src'[g] = src[g]
      /\ src'[f] = v
  BY <1>1 DEF Edit, TypeOK, Versions
<1>4. /\ \A i \in DOMAIN queue : i \in DOMAIN queue' /\ queue'[i] = queue[i]
      /\ \E i \in DOMAIN queue' : queue'[i] = e
  BY <1>1, <1>2, <1>3, AppendKeeps DEF TypeOK
<1>5. Alone' /\ PageBehind'
  BY <1>1, <1>3 DEF Alone, PageBehind, Running
<1>6. Covered'
  <2>1. Coming(f)'
    BY <1>4 DEF Coming, Covers
  <2>2. ASSUME NEW g \in Files, Coming(g) PROVE Coming(g)'
    BY <2>2, <1>3, <1>4 DEF Coming, Covers, Running
  <2>3. QED
    BY <1>1, <1>3, <2>1, <2>2 DEF Covered
<1>7. Removals'
  <2>1. FullComing => FullComing'
    BY <1>3, <1>4 DEF FullComing
  <2>2. v = 0 => FullComing'
    BY <1>4 DEF FullComing
  <2>3. QED
    BY <1>1, <1>3, <2>1, <2>2 DEF Removals
<1>8. QED
  BY <1>5, <1>6, <1>7

\* The event taken from the queue becomes the pending callback, which replaces
\* none.
LEMMA DebounceIInv ==
  ASSUME IInv, Debounce
  PROVE  ~crowded' => Alone' /\ Covered' /\ Removals' /\ PageBehind'
<1> SUFFICES ASSUME ~crowded, pending = Nil
             PROVE  Alone' /\ Covered' /\ Removals' /\ PageBehind'
  BY DEF Debounce, IInv, TypeOK
<1>1. Alone /\ Covered /\ Removals /\ PageBehind /\ TypeOK
  BY DEF IInv
<1>2. PICK c \in Callbacks : Submit(c) /\ what' = [what EXCEPT ![c] = Head(queue)]
  BY DEF Debounce
<1>3. /\ queue' = Tail(queue) /\ queue # <<>>
      /\ UNCHANGED <<src, out, run, tab, page>>
  BY DEF Debounce, files
<1>4. \A i \in DOMAIN queue : \/ queue[i] = Head(queue)
                              \/ \E j \in DOMAIN queue' : queue'[j] = queue[i]
  BY <1>1, <1>3, TailKeeps DEF TypeOK
<1>5. pending' = c /\ pending' # Nil /\ what'[pending'] = Head(queue)
  BY <1>1, <1>2, HotReloadAssumption DEF Submit, TypeOK
<1>6. Alone' /\ PageBehind'
  BY <1>1, <1>3 DEF Alone, PageBehind, Running
<1>7. ASSUME NEW f \in Files, Coming(f) PROVE Coming(f)'
  BY <1>3, <1>4, <1>5, <1>7 DEF Coming, Covers, Running
<1>8. FullComing => FullComing'
  BY <1>4, <1>5 DEF FullComing
<1>9. QED
  BY <1>1, <1>3, <1>6, <1>7, <1>8 DEF Covered, Removals

\* The pending callback begins while no other runs: what it covered, it does.
LEMMA BeginIInv ==
  ASSUME IInv, NEW c \in Callbacks, Begin(c)
  PROVE  ~crowded' => Alone' /\ Covered' /\ Removals' /\ PageBehind'
<1> SUFFICES ASSUME ~crowded, \A d \in Callbacks : ~Running(d)
             PROVE  Alone' /\ Covered' /\ Removals' /\ PageBehind'
  BY DEF Begin, IInv, TypeOK
<1>1. Covered /\ Removals /\ TypeOK
  BY DEF IInv
<1>2. /\ pending = c /\ pending' = Nil
      /\ UNCHANGED <<src, queue, what>>
      /\ what[c] \in Event
  BY <1>1, HotReloadAssumption DEF Begin, Start, TypeOK
<1>3. /\ \A d \in Callbacks : Running(d)' <=> d = c
      /\ run'[c].todo = IF what[c].update THEN {what[c].file} ELSE Files
  BY <1>1 DEF Begin, Running, TypeOK
<1>4. Alone' /\ PageBehind'
  BY <1>3 DEF Alone, PageBehind
<1>5. CASE what[c].update
  <2>1. out' = out
    BY <1>5 DEF Begin
  <2>2. ASSUME NEW f \in Files, Coming(f) PROVE Coming(f)'
    BY <1>2, <1>3, <1>5, <2>2 DEF Coming, Covers
  <2>3. FullComing => FullComing'
    BY <1>2, <1>5 DEF FullComing
  <2>4. QED
    BY <1>1, <1>2, <1>4, <2>1, <2>2, <2>3 DEF Covered, Removals
<1>6. CASE ~what[c].update
  <2>1. \A f \in Files : out'[f] = 0
    BY <1>6 DEF Begin
  <2>2. \A f \in Files : Coming(f)'
    BY <1>3, <1>6 DEF Coming
  <2>3. QED
    BY <1>4, <2>1, <2>2 DEF Covered, Removals
<1>7. QED
  BY <1>5, <1>6

\* A file is written as its source is; one without a source that has an output
\* is removed by a regeneration still to come.
LEMMA RegenerateIInv ==
  ASSUME IInv, NEW c \in Callbacks, Regenerate(c)
  PROVE  ~crowded' => Alone' /\ Covered' /\ Removals' /\ PageBehind'
<1> SUFFICES ASSUME ~crowded PROVE Alone' /\ Covered' /\ Removals' /\ PageBehind'
  BY DEF Regenerate
<1>1. Alone /\ Covered /\ Removals /\ PageBehind /\ TypeOK
  BY DEF IInv
<1>2. PICK f \in run[c].todo :
        /\ run' = [run EXCEPT ![c].todo = @ \ {f}]
        /\ out' = IF src[f] = 0 THEN out ELSE [out EXCEPT ![f] = src[f]]
  BY DEF Regenerate
<1>3. UNCHANGED <<src, queue, what, pending, tab, page>> /\ Running(c)
  BY DEF Regenerate, Running
<1>4. f \in Files
  BY <1>1, <1>2 DEF TypeOK
<1>5. /\ \A d \in Callbacks : Running(d)' <=> Running(d)
      /\ \A d \in Callbacks : run'[d].todo = IF d = c THEN run[c].todo \ {f}
                                                      ELSE run[d].todo
  BY <1>1, <1>2 DEF Running, TypeOK
<1>6. Alone' /\ PageBehind'
  BY <1>1, <1>3, <1>5 DEF Alone, PageBehind
<1>7. /\ \A g \in Files : g # f => out'[g] = out[g]
      /\ out'[f] = IF src[f] = 0 THEN out[f] ELSE src[f]
  BY <1>1, <1>2, <1>4 DEF TypeOK, Versions
<1>8. FullComing => FullComing'
  BY <1>3 DEF FullComing
<1>9. Removals'
  BY <1>1, <1>3, <1>7, <1>8 DEF Removals
<1>10. ASSUME NEW g \in Files, g # f, Coming(g) PROVE Coming(g)'
  BY <1>3, <1>5, <1>10 DEF Coming, Covers
<1>11. FullComing' => Coming(f)'
  BY <1>3 DEF FullComing, Coming, Covers
<1>12. Covered'
  BY <1>1, <1>3, <1>4, <1>7, <1>9, <1>10, <1>11 DEF Covered, Removals
<1>13. QED
  BY <1>6, <1>9, <1>12

\* The broadcast of the callback that runs alone finds the tab waiting.
LEMMA BroadcastIInv ==
  ASSUME IInv, NEW c \in Callbacks, Broadcast(c)
  PROVE  ~crowded' => Alone' /\ Covered' /\ Removals' /\ PageBehind'
<1> SUFFICES ASSUME ~crowded, tab = "waiting"
             PROVE  Alone' /\ Covered' /\ Removals' /\ PageBehind'
  BY DEF Broadcast, IInv, TypeOK
<1>1. Alone /\ Covered /\ Removals /\ TypeOK
  BY DEF IInv
<1>2. /\ UNCHANGED <<src, out, queue, what, pending, page>>
      /\ run[c].todo = {} /\ tab' = "load"
  BY DEF Broadcast, files
<1>3. \A d \in Callbacks : /\ Running(d)' <=> Running(d) /\ d # c
                           /\ run'[d].todo = run[d].todo
  BY <1>1 DEF Broadcast, Running, TypeOK
<1>4. Alone' /\ PageBehind'
  BY <1>1, <1>2, <1>3 DEF Alone, PageBehind
<1>5. ASSUME NEW f \in Files, Coming(f) PROVE Coming(f)'
  BY <1>2, <1>3, <1>5 DEF Coming, Covers
<1>6. FullComing => FullComing'
  BY <1>2 DEF FullComing
<1>7. QED
  BY <1>1, <1>2, <1>4, <1>5, <1>6 DEF Covered, Removals

LEMMA BrowserIInv ==
  ASSUME IInv, Browser \/ UNCHANGED vars
  PROVE  ~crowded' => Alone' /\ Covered' /\ Removals' /\ PageBehind'
<1> SUFFICES ASSUME ~crowded PROVE Alone' /\ Covered' /\ Removals' /\ PageBehind'
  BY DEF Browser, Load, Connect, vars
<1>1. Alone /\ Covered /\ Removals /\ PageBehind
  BY DEF IInv
<1>2. UNCHANGED <<src, out, queue, what, run, pending>>
  BY DEF Browser, Load, Connect, vars, files
<1>3. Alone' /\ Covered' /\ Removals'
  BY <1>1, <1>2 DEF Alone, Covered, Removals, Coming, FullComing, Covers, Running
<1>4. PageBehind'
  BY <1>1, <1>2 DEF PageBehind, Running, Browser, Load, Connect, vars
<1>5. QED
  BY <1>3, <1>4

LEMMA StepIInv == IInv /\ [Next]_vars => IInv'
<1> SUFFICES ASSUME IInv, [Next]_vars PROVE IInv'
  OBVIOUS
<1>1. TypeOK'
  BY StepType DEF IInv
<1> SUFFICES ~crowded' => Alone' /\ Covered' /\ Removals' /\ PageBehind'
  BY <1>1 DEF IInv
<1>2. CASE Editor
  <2>1. PICK f \in Files : Save(f) \/ Create(f) \/ Remove(f)
    BY <1>2 DEF Editor
  <2>2. edits + 2 \in Nat /\ edits + 2 # 0 /\ 0 \in Nat
    BY HotReloadAssumption DEF IInv, TypeOK
  <2>3. CASE Save(f)
    BY <2>2, <2>3, EditIInv, TRUE \in BOOLEAN DEF Save
  <2>4. CASE Create(f)
    BY <2>2, <2>4, EditIInv, FALSE \in BOOLEAN DEF Create
  <2>5. CASE Remove(f)
    BY <2>2, <2>5, EditIInv, FALSE \in BOOLEAN DEF Remove
  <2>6. QED
    BY <2>1, <2>3, <2>4, <2>5
<1>3. QED
  BY <1>2, DebounceIInv, BeginIInv, RegenerateIInv, BroadcastIInv, BrowserIInv
     DEF Next, Callback

LEMMA Invariance == Spec => []IInv
  BY InitIInv, StepIInv, PTL DEF Spec

\* The state always has its type, and a callback runs only once the debouncer
\* has started it.
THEOREM TypeCorrect == Spec => []TypeOK
<1>1. IInv => TypeOK
  BY DEF IInv
<1>2. QED
  BY <1>1, Invariance, PTL

\* Changes that come one at a time are in the target folder and on the page in
\* the end, however many files and changes there are.
THEOREM SpacedChangesShownHolds == Spec => []SpacedChangesShown
<1>1. IInv => SpacedChangesShown
  <2> SUFFICES ASSUME IInv, Quiet, ~crowded PROVE out = src /\ page = src
    BY DEF SpacedChangesShown
  <2>1. TypeOK /\ Covered /\ PageBehind
    BY DEF IInv
  <2>2. \A f \in Files : ~Coming(f)
    BY DEF Coming, Quiet
  <2>3. \A f \in Files : out[f] = src[f]
    BY <2>1, <2>2 DEF Covered
  <2>4. out = src
    BY <2>1, <2>3 DEF TypeOK, Versions
  <2>5. page = out
    BY <2>1 DEF PageBehind, Quiet
  <2>6. QED
    BY <2>4, <2>5
<1>2. QED
  BY <1>1, Invariance, PTL
=============================================================================
