---------------------------- MODULE MutexProofs -----------------------------
(***************************************************************************)
(* Proofs about the two modules in which a mutex keeps apart what callers  *)
(* share: Debouncer, for any sets of callers and callbacks, and then       *)
(* LexerRules, for any goroutines and any rules.                           *)
(***************************************************************************)
EXTENDS Debouncer, LexerRules, TLAPS

BeforeArm == {"lock", "stop", "arm"}

\* A call in progress has an argument, which belongs to it alone and whose
\* timer does not exist before Arm.
ArgInv == /\ \A p \in Callers : pc[p] \in BeforeArm =>
                f[p] \in Callbacks /\ status[f[p]] = "passed"
          /\ \A p, q \in Callers :
                pc[p] \in BeforeArm /\ pc[q] \in BeforeArm /\ f[p] = f[q] => p = q

\* Between Stop and Arm nothing is armed.
GapInv == \A p \in Callers, c \in Callbacks : pc[p] = "arm" => status[c] # "armed"

\* d.timer refers to a timer that exists, and to a stopped one only in the gap.
TimerInv == timer # Nil =>
              /\ status[timer] \in {"armed", "stopped", "running", "done"}
              /\ status[timer] = "stopped" => \E p \in Callers : pc[p] = "arm"

\* The inductive invariant.
IInv == TypeOK /\ ArgInv /\ GapInv /\ TimerInv /\ OneArmed
-----------------------------------------------------------------------------
LEMMA InitIInv == Init => IInv
  BY DebouncerAssumption
     DEF Init, IInv, TypeOK, MutexInv, ArgInv, GapInv, TimerInv, OneArmed,
         PcValues, StatusValues, Holding, BeforeArm

LEMMA StepIInv == IInv /\ [Next]_vars => IInv'
<1> SUFFICES ASSUME IInv, [Next]_vars PROVE IInv'
  OBVIOUS
<1> USE DebouncerAssumption
    DEF IInv, TypeOK, PcValues, StatusValues, Holding, BeforeArm
<1>1. ASSUME NEW p \in Callers, NEW c \in Callbacks, Call(p, c) PROVE IInv'
  BY <1>1 DEF Call, MutexInv, ArgInv, GapInv, TimerInv, OneArmed
<1>2. ASSUME NEW p \in Callers, Lock(p) PROVE IInv'
  BY <1>2 DEF Lock, MutexInv, ArgInv, GapInv, TimerInv, OneArmed
<1>3. ASSUME NEW p \in Callers, Stop(p) PROVE IInv'
  <2>1. TypeOK' /\ MutexInv'
    BY <1>3 DEF Stop, MutexInv
  <2>2. ArgInv'
    BY <1>3 DEF Stop, ArgInv
  <2>3. GapInv' /\ OneArmed'
    BY <1>3 DEF Stop, GapInv, OneArmed
  <2>4. TimerInv'
    BY <1>3 DEF Stop, TimerInv
  <2>5. QED
    BY <2>1, <2>2, <2>3, <2>4
<1>4. ASSUME NEW p \in Callers, Arm(p) PROVE IInv'
  <2>1. f[p] \in Callbacks /\ status[f[p]] = "passed"
    BY <1>4 DEF Arm, ArgInv
  <2>2. TypeOK' /\ MutexInv'
    BY <1>4, <2>1 DEF Arm, MutexInv
  <2>3. ArgInv'
    BY <1>4, <2>1 DEF Arm, ArgInv
  <2>4. GapInv'
    BY <1>4, <2>1 DEF Arm, MutexInv, GapInv
  <2>5. OneArmed'
    BY <1>4, <2>1 DEF Arm, GapInv, OneArmed
  <2>6. TimerInv'
    BY <1>4, <2>1 DEF Arm, TimerInv
  <2>7. QED
    BY <2>2, <2>3, <2>4, <2>5, <2>6
<1>5. ASSUME NEW p \in Callers, Unlock(p) PROVE IInv'
  BY <1>5 DEF Unlock, MutexInv, ArgInv, GapInv, TimerInv, OneArmed
<1>6. ASSUME NEW c \in Callbacks, Fire(c) PROVE IInv'
  BY <1>6 DEF Fire, MutexInv, ArgInv, GapInv, TimerInv, OneArmed
<1>7. ASSUME NEW c \in Callbacks, Finish(c) PROVE IInv'
  BY <1>7 DEF Finish, MutexInv, ArgInv, GapInv, TimerInv, OneArmed
<1>8. CASE UNCHANGED vars
  BY <1>8 DEF vars, MutexInv, ArgInv, GapInv, TimerInv, OneArmed
<1>9. QED
  BY <1>1, <1>2, <1>3, <1>4, <1>5, <1>6, <1>7, <1>8 DEF Next, Add
-----------------------------------------------------------------------------
\* The state keeps its types in every reachable state of d.add and the timers.
THEOREM TypeCorrect == Spec => []TypeOK
<1>1. IInv => TypeOK
  BY DEF IInv
<1>2. QED
  BY InitIInv, StepIInv, <1>1, PTL DEF Spec

\* Concurrent calls never leave an armed timer behind that d.timer does not
\* refer to.
THEOREM OneArmedHolds == Spec => []OneArmed
<1>1. IInv => OneArmed
  BY DEF IInv
<1>2. QED
  BY InitIInv, StepIInv, <1>1, PTL DEF Spec

\* Once d.add has returned, the callback of the last call is never a
\* cancelled one.
THEOREM LastCallSurvivesHolds == Spec => []LastCallSurvives
<1>1. IInv => LastCallSurvives
  BY DebouncerAssumption DEF IInv, TypeOK, MutexInv, TimerInv, LastCallSurvives, Holding
<1>2. QED
  BY InitIInv, StepIInv, <1>1, PTL DEF Spec
-----------------------------------------------------------------------------
(* Debouncer keeps the promise of LastCallWins: safety part. *)

\* Whether c is the callback that will start unless it is replaced.
Pending(c) == status[c] = "armed" \/ InArm(c)

LEMMA PendingUnique ==
  ASSUME IInv, NEW c \in Callbacks, NEW d \in Callbacks, Pending(c), Pending(d)
  PROVE  c = d
<1> USE DEF IInv, TypeOK, Pending, InArm, Holding, BeforeArm
<1>1. CASE status[c] = "armed" /\ status[d] = "armed"
  BY <1>1 DEF OneArmed
<1>2. CASE \E p \in Callers : pc[p] = "arm"
  BY <1>2 DEF GapInv, MutexInv
<1>3. QED
  BY <1>1, <1>2

\* What the refinement mapping makes of the concrete state.
PendingBarInv == /\ \A c \in Callbacks : Pending(c) => pendingBar = c
                 /\ (\A c \in Callbacks : ~Pending(c)) => pendingBar = Nil

LEMMA PendingBar == IInv => PendingBarInv
BY PendingUnique DEF pendingBar, Pending, PendingBarInv

LEMMA InitPromise == Init => Promise!LCWInit
<1> SUFFICES ASSUME Init PROVE Promise!LCWInit
  OBVIOUS
<1>1. submittedBar = {} /\ startedBar = {}
  BY DEF Init, submittedBar, startedBar, InArm, StatusValues
<1>2. pendingBar = Nil
  BY InitIInv, PendingBar DEF Init, PendingBarInv, Pending, InArm
<1>3. QED
  BY <1>1, <1>2 DEF Promise!LCWInit

LEMMA StepPromise ==
  IInv /\ IInv' /\ [Next]_vars => [Promise!LCWNext]_(Promise!lcwVars)
<1> SUFFICES ASSUME IInv, IInv', [Next]_vars
             PROVE  [Promise!LCWNext]_(Promise!lcwVars)
  OBVIOUS
<1>0. PendingBarInv /\ PendingBarInv'
  <2>1. IInv' => PendingBarInv'
    BY PendingBar, PTL
  <2>2. QED
    BY <2>1, PendingBar
<1> USE DebouncerAssumption DEF IInv, TypeOK
<1>s. ASSUME \A c \in Callbacks : Pending(c)' <=> Pending(c),
             submittedBar' = submittedBar, startedBar' = startedBar
      PROVE  UNCHANGED Promise!lcwVars
  <2>1. pendingBar' = pendingBar
    <3>1. CASE \E c \in Callbacks : Pending(c)
      BY <1>0, <1>s, <3>1 DEF PendingBarInv
    <3>2. CASE \A c \in Callbacks : ~Pending(c)
      BY <1>0, <1>s, <3>2 DEF PendingBarInv
    <3>3. QED
      BY <3>1, <3>2
  <2>2. QED
    BY <1>s, <2>1 DEF Promise!lcwVars
<1>1. ASSUME NEW p \in Callers, NEW c \in Callbacks, Call(p, c)
      PROVE  UNCHANGED Promise!lcwVars
  <2>1. \A d \in Callbacks : InArm(d)' <=> InArm(d)
    BY <1>1 DEF Call, InArm
  <2>2. \A d \in Callbacks : Pending(d)' <=> Pending(d)
    BY <1>1, <2>1 DEF Call, Pending
  <2>3. submittedBar' = submittedBar /\ startedBar' = startedBar
    BY <1>1, <2>1 DEF Call, submittedBar, startedBar, StatusValues
  <2>4. QED
    BY <1>s, <2>2, <2>3
<1>2. ASSUME NEW p \in Callers, Lock(p) \/ Unlock(p)
      PROVE  UNCHANGED Promise!lcwVars
  <2>1. \A d \in Callbacks : InArm(d)' <=> InArm(d)
    BY <1>2 DEF Lock, Unlock, InArm
  <2>2. \A d \in Callbacks : Pending(d)' <=> Pending(d)
    BY <1>2, <2>1 DEF Lock, Unlock, Pending
  <2>3. submittedBar' = submittedBar /\ startedBar' = startedBar
    BY <1>2, <2>1 DEF Lock, Unlock, submittedBar, startedBar, StatusValues
  <2>4. QED
    BY <1>s, <2>2, <2>3
<1>3. ASSUME NEW p \in Callers, Stop(p) PROVE Promise!Submit(f[p]) /\ f[p] \in Callbacks
  <2>1. f[p] \in Callbacks /\ status[f[p]] = "passed"
    BY <1>3 DEF Stop, ArgInv, BeforeArm
  <2>2. \A d \in Callbacks : ~InArm(d)
    BY <1>3 DEF Stop, InArm, MutexInv, Holding
  <2>3. \A d \in Callbacks : InArm(d)' <=> d = f[p]
    BY <1>3, <2>1, <2>2 DEF Stop, InArm
  <2>4. f[p] \notin submittedBar /\ submittedBar' = submittedBar \cup {f[p]}
    BY <1>3, <2>1, <2>2, <2>3 DEF Stop, submittedBar, StatusValues
  <2>5. pendingBar' = f[p]
    BY <1>0, <2>1, <2>3 DEF PendingBarInv, Pending
  <2>6. startedBar' = startedBar
    BY <1>3 DEF Stop, startedBar
  <2>7. QED
    BY <2>1, <2>4, <2>5, <2>6 DEF Promise!Submit
<1>4. ASSUME NEW p \in Callers, Arm(p) PROVE UNCHANGED Promise!lcwVars
  <2>1. f[p] \in Callbacks /\ status[f[p]] = "passed"
    BY <1>4 DEF Arm, ArgInv, BeforeArm
  <2>2. \A d \in Callbacks : InArm(d) <=> d = f[p]
    BY <1>4, <2>1 DEF Arm, InArm, MutexInv, Holding
  <2>3. \A d \in Callbacks : ~InArm(d)'
    BY <1>4, <2>2 DEF Arm, InArm, MutexInv, Holding
  <2>4. \A d \in Callbacks : status[d] # "armed"
    BY <1>4 DEF Arm, GapInv
  <2>5. \A d \in Callbacks : Pending(d)' <=> Pending(d)
    BY <1>4, <2>1, <2>2, <2>3, <2>4 DEF Arm, Pending
  <2>6. submittedBar' = submittedBar
    BY <1>4, <2>1, <2>2, <2>3 DEF Arm, submittedBar, StatusValues
  <2>7. startedBar' = startedBar
    BY <1>4, <2>1 DEF Arm, startedBar
  <2>8. QED
    BY <1>s, <2>5, <2>6, <2>7
<1>5. ASSUME NEW c \in Callbacks, Fire(c) PROVE Promise!Start(c)
  <2>1. \A d \in Callbacks : InArm(d)' <=> InArm(d)
    BY <1>5 DEF Fire, InArm
  <2>2. Pending(c) /\ \A d \in Callbacks : Pending(d) => d = c
    BY <1>5, PendingUnique DEF Fire, Pending
  <2>3. ~InArm(c)
    BY <1>5 DEF Fire, GapInv, InArm
  <2>4. \A d \in Callbacks : ~Pending(d)'
    BY <1>5, <2>1, <2>2, <2>3 DEF Fire, Pending
  <2>5. pendingBar = c /\ pendingBar' = Nil
    BY <1>0, <2>2, <2>4 DEF PendingBarInv
  <2>6. submittedBar' = submittedBar /\ startedBar' = startedBar \cup {c}
    BY <1>5, <2>1 DEF Fire, submittedBar, startedBar, StatusValues
  <2>7. QED
    BY <2>5, <2>6 DEF Promise!Start
<1>6. ASSUME NEW c \in Callbacks, Finish(c) PROVE UNCHANGED Promise!lcwVars
  <2>1. \A d \in Callbacks : InArm(d)' <=> InArm(d)
    BY <1>6 DEF Finish, InArm
  <2>2. \A d \in Callbacks : Pending(d)' <=> Pending(d)
    BY <1>6, <2>1 DEF Finish, Pending
  <2>3. submittedBar' = submittedBar /\ startedBar' = startedBar
    BY <1>6, <2>1 DEF Finish, submittedBar, startedBar, StatusValues
  <2>4. QED
    BY <1>s, <2>2, <2>3
<1>7. CASE UNCHANGED vars
  <2>1. \A d \in Callbacks : Pending(d)' <=> Pending(d)
    BY <1>7 DEF vars, Pending, InArm
  <2>2. submittedBar' = submittedBar /\ startedBar' = startedBar
    BY <1>7 DEF vars, submittedBar, startedBar, InArm
  <2>3. QED
    BY <1>s, <2>1, <2>2
<1>8. QED
  BY <1>1, <1>2, <1>3, <1>4, <1>5, <1>6, <1>7 DEF Next, Add, Promise!LCWNext

\* d.add and the runtime's timers implement LastCallWins: a call replaces the
\* pending callback when it has stopped its timer, only the pending callback
\* starts, and none starts twice.
THEOREM ImplementsLastCallWins ==
  Spec => Promise!LCWInit /\ [][Promise!LCWNext]_(Promise!lcwVars)
BY InitIInv, StepIInv, InitPromise, StepPromise, PTL DEF Spec
-----------------------------------------------------------------------------
(* The rules of a lexer. *)

\* The parts of the inductive invariant: the shape of the state, that the file is
\* loaded once, that r.mu is held by who compiles and by nobody else, and what is
\* so of rules that count as compiled.
Where == [pc : {"idle", "once", "fetch", "lock", "compile", "ready", "error"}, err : BOOLEAN]
LexerFields == {"file", "once", "mu", "compiled", "rules", "rule"}
RulesShape ==
  /\ DOMAIN lexer = LexerFields /\ lexer = [x \in LexerFields |-> lexer[x]]
  /\ lexer.once \in {"new", "running", "done"} /\ lexer.compiled \in BOOLEAN
  /\ need \in [Goroutines -> Where]
OnceInv ==
  /\ \A g \in Goroutines : need[g].pc = "fetch" => lexer.once = "running"
  /\ \A g, h \in Goroutines : need[g].pc = "fetch" /\ need[h].pc = "fetch" => g = h
  /\ \A g \in Goroutines : need[g].pc \in {"lock", "compile", "ready", "error"} => lexer.once = "done"
HeldInv == \A g \in Goroutines : need[g].pc = "compile" <=> lexer.mu = g
CompiledInv ==
  /\ lexer.compiled => lexer.once = "done" /\ Unfinished(lexer) = {} /\ ~BadPattern(lexer)
  /\ \A g \in Goroutines : need[g].pc = "compile" => ~lexer.compiled
  /\ \A g \in Goroutines : need[g].pc = "ready" => lexer.compiled
RulesInv == RulesShape /\ OnceInv /\ HeldInv /\ CompiledInv

SameRules(l) == l.rules = lexer.rules /\ l.rule = lexer.rule

LEMMA RulesAlike ==
  ASSUME NEW l, NEW k, l.rules = k.rules, l.rule = k.rule
  PROVE  Unfinished(l) = Unfinished(k) /\ (BadPattern(l) <=> BadPattern(k))
  BY DEF Unfinished, ToMutate, Mut, BadPattern

LEMMA RulesInitHolds == RulesInit => RulesInv
<1>1. SUFFICES ASSUME RulesInit PROVE RulesInv
  OBVIOUS
<1>2. PICK file : lexer = NewLexer(file)
  BY <1>1 DEF RulesInit
<1>3. need = [g \in Goroutines |-> Idle]
  BY <1>1 DEF RulesInit
<1>4. RulesShape
  BY <1>2, <1>3 DEF RulesShape, NewLexer, Idle, LexerFields, Where
<1>5. OnceInv /\ CompiledInv
  BY <1>2, <1>3 DEF OnceInv, CompiledInv, NewLexer, Idle
<1>6. HeldInv
  BY <1>2, <1>3, RulesAssumption DEF HeldInv, NewLexer, Idle
<1>7. QED
  BY <1>4, <1>5, <1>6 DEF RulesInv

\* Return: who has the lock, or takes and returns it at once, leaves the rules as they are.
LEMMA ReturnKeeps ==
  ASSUME RulesInv, NEW g \in Goroutines, NEW fails \in BOOLEAN, Return(g, lexer, fails),
         \/ need[g].pc = "lock" /\ lexer.mu = None
         \/ need[g].pc = "compile",
         ~fails => Unfinished(lexer) = {} /\ ~BadPattern(lexer),
         lexer.compiled => ~fails
  PROVE  RulesInv' /\ SameRules(lexer') /\ (lexer.compiled => lexer'.compiled)
<1>0. RulesShape /\ OnceInv /\ HeldInv /\ CompiledInv
  BY DEF RulesInv
<1>1. lexer' = [lexer EXCEPT !.mu = None, !.compiled = ~fails]
  BY DEF Return
<1>2. PICK to \in {"ready", "error"} : need' = [need EXCEPT ![g].pc = to] /\ (to = "ready" => ~fails)
  BY DEF Return
<1>3. /\ DOMAIN lexer' = LexerFields /\ lexer' = [x \in LexerFields |-> lexer'[x]]
      /\ lexer'.once = lexer.once /\ lexer'.mu = None /\ lexer'.compiled = ~fails
      /\ SameRules(lexer')
  BY <1>0, <1>1 DEF RulesShape, LexerFields, SameRules
<1>4. /\ need'[g].pc = to /\ \A h \in Goroutines : h # g => need'[h] = need[h]
      /\ need' \in [Goroutines -> Where]
  BY <1>0, <1>2 DEF RulesShape, Where
<1>5. RulesShape'
  BY <1>0, <1>3, <1>4 DEF RulesShape
<1>6. OnceInv'
  BY <1>0, <1>3, <1>4 DEF OnceInv
<1>7. \A h \in Goroutines : h # g => need[h].pc # "compile"
  BY <1>0, RulesAssumption DEF HeldInv
<1>8. HeldInv'
  BY <1>3, <1>4, <1>7, RulesAssumption DEF HeldInv
<1>9. CompiledInv'
  <2>1. Unfinished(lexer') = Unfinished(lexer) /\ (BadPattern(lexer') <=> BadPattern(lexer))
    BY <1>3, RulesAlike DEF SameRules
  <2>2. \A h \in Goroutines : h # g /\ need[h].pc = "ready" => ~fails
    BY <1>0 DEF CompiledInv
  <2>3. lexer.once = "done"
    BY <1>0 DEF OnceInv
  <2>4. QED
    BY <1>2, <1>3, <1>4, <1>7, <2>1, <2>2, <2>3 DEF CompiledInv
<1>10. QED
  BY <1>3, <1>5, <1>6, <1>8, <1>9 DEF RulesInv

\* A step that changes where one goroutine is.
Moves(g, to) == /\ need' \in [Goroutines -> Where] /\ need'[g].pc = to
                /\ \A h \in Goroutines : h # g => need'[h] = need[h]

LEMMA WalkKeeps ==
  ASSUME RulesInv, NEW g \in Goroutines, NEW to, Moves(g, to),
         DOMAIN lexer' = LexerFields, lexer' = [x \in LexerFields |-> lexer'[x]],
         lexer'.compiled = lexer.compiled, SameRules(lexer'),
         \/ /\ to \in {"idle", "once"} /\ need[g].pc # "compile" /\ lexer' = lexer
         \/ /\ to = "fetch" /\ lexer.once = "new" /\ lexer'.once = "running" /\ lexer'.mu = lexer.mu
            /\ need[g].pc = "once"
         \/ /\ to = "lock" /\ lexer.once = "done" /\ lexer' = lexer /\ need[g].pc = "once"
         \/ /\ to = "compile" /\ need[g].pc = "lock" /\ lexer.mu = None /\ ~lexer.compiled
            /\ lexer'.mu = g /\ lexer'.once = lexer.once
  PROVE  RulesInv' /\ SameRules(lexer') /\ (lexer.compiled => lexer'.compiled)
<1>0. RulesShape /\ OnceInv /\ HeldInv /\ CompiledInv
  BY DEF RulesInv
<1>1. /\ need' \in [Goroutines -> Where] /\ need'[g].pc = to
      /\ \A h \in Goroutines : h # g => need'[h] = need[h]
  BY DEF Moves
<1>2. RulesShape'
  BY <1>0, <1>1 DEF RulesShape
<1>3. OnceInv'
  BY <1>0, <1>1 DEF OnceInv
<1>4. HeldInv'
  BY <1>0, <1>1, RulesAssumption DEF HeldInv
<1>5. Unfinished(lexer') = Unfinished(lexer) /\ (BadPattern(lexer') <=> BadPattern(lexer))
  BY RulesAlike DEF SameRules
<1>6. CompiledInv'
  BY <1>0, <1>1, <1>5 DEF CompiledInv
<1>7. QED
  BY <1>2, <1>3, <1>4, <1>6 DEF RulesInv

\* Rules change while nobody has them: the file is loaded before any lock is taken, and
\* the rest is done under the lock and before they count as compiled.
LEMMA FetchKeeps ==
  ASSUME RulesInv, NEW g \in Goroutines, Fetch(g)
  PROVE  RulesInv' /\ ~lexer.compiled /\ \A h \in Goroutines : need[h].pc # "ready"
<1>0. RulesShape /\ OnceInv /\ HeldInv /\ CompiledInv
  BY DEF RulesInv
<1>1. need[g].pc = "fetch" /\ lexer.once = "running"
  BY <1>0 DEF Fetch, OnceInv
<1>2. ~lexer.compiled /\ \A h \in Goroutines : need[h].pc \notin {"lock", "compile", "ready", "error"}
  BY <1>0, <1>1 DEF OnceInv, CompiledInv
<1>3. PICK l : l = Fetched(lexer)
  OBVIOUS
<1>4. /\ DOMAIN l = LexerFields /\ l = [x \in LexerFields |-> l[x]]
      /\ l.mu = lexer.mu /\ l.compiled = lexer.compiled
  BY <1>0, <1>3 DEF RulesShape, Fetched, LexerFields
<1>5. lexer' = [l EXCEPT !.once = "done"]
  BY <1>3 DEF Fetch
<1>6. /\ DOMAIN lexer' = LexerFields /\ lexer' = [x \in LexerFields |-> lexer'[x]]
      /\ lexer'.mu = lexer.mu /\ lexer'.compiled = lexer.compiled /\ lexer'.once = "done"
  BY <1>4, <1>5 DEF LexerFields
<1>7. PICK err \in BOOLEAN : need' = [need EXCEPT ![g] = [pc |-> "lock", err |-> err]]
  BY DEF Fetch, FetchFails
<1>8. /\ need'[g].pc = "lock" /\ \A h \in Goroutines : h # g => need'[h] = need[h]
      /\ need' \in [Goroutines -> Where]
  BY <1>0, <1>7 DEF RulesShape, Where
<1>9. RulesShape'
  BY <1>0, <1>6, <1>8 DEF RulesShape
<1>10. OnceInv'
  BY <1>0, <1>1, <1>6, <1>8 DEF OnceInv
<1>11. HeldInv'
  BY <1>0, <1>1, <1>6, <1>8 DEF HeldInv
<1>12. CompiledInv'
  BY <1>2, <1>6, <1>8 DEF CompiledInv
<1>13. QED
  BY <1>2, <1>9, <1>10, <1>11, <1>12 DEF RulesInv

LEMMA ExpandKeeps ==
  ASSUME RulesInv, NEW g \in Goroutines, Expand(g)
  PROVE  /\ RulesInv'
         /\ lexer.compiled \/ (\E h \in Goroutines : need[h].pc = "ready") =>
              SameRules(lexer') /\ lexer'.compiled
<1>0. RulesShape /\ OnceInv /\ HeldInv /\ CompiledInv
  BY DEF RulesInv
<1>1. need[g].pc = "compile" /\ ~lexer.compiled /\ \A h \in Goroutines : need[h].pc # "ready"
  BY <1>0 DEF Expand, CompiledInv
<1>2. PICK s, i :
        IF Fails(lexer, Mut(lexer, s, i)) THEN Return(g, lexer, TRUE)
        ELSE /\ lexer' = IF Mut(lexer, s, i).op = "include" THEN Include(lexer, s, i)
                                                            ELSE Combine(lexer, s, i)
             /\ UNCHANGED need
  BY DEF Expand
<1>3. CASE Fails(lexer, Mut(lexer, s, i))
  BY <1>1, <1>2, <1>3, ReturnKeeps
<1>4. CASE ~Fails(lexer, Mut(lexer, s, i))
  <2>1. lexer' \in {Include(lexer, s, i), Combine(lexer, s, i)} /\ need' = need
    BY <1>2, <1>4
  <2>2. /\ DOMAIN lexer' = LexerFields /\ lexer' = [x \in LexerFields |-> lexer'[x]]
        /\ lexer'.mu = lexer.mu /\ lexer'.compiled = lexer.compiled /\ lexer'.once = lexer.once
    <3>1. CASE lexer' = Include(lexer, s, i)
      BY <1>0, <3>1 DEF Include, RulesShape, LexerFields
    <3>2. CASE lexer' = Combine(lexer, s, i)
      BY <1>0, <3>2 DEF Combine, RulesShape, LexerFields
    <3>3. QED
      BY <2>1, <3>1, <3>2
  <2>3. RulesShape' /\ OnceInv' /\ HeldInv'
    BY <1>0, <2>1, <2>2 DEF RulesShape, OnceInv, HeldInv
  <2>4. CompiledInv'
    BY <1>1, <2>1, <2>2 DEF CompiledInv
  <2>5. QED
    BY <1>1, <2>3, <2>4 DEF RulesInv
<1>5. QED
  BY <1>3, <1>4

LEMMA RulesNextKeeps ==
  ASSUME RulesInv, [RulesNext]_rulesVars
  PROVE  /\ RulesInv'
         /\ lexer.compiled \/ (\E g \in Goroutines : need[g].pc = "ready") =>
              SameRules(lexer') /\ lexer'.compiled
<1>0. RulesShape /\ OnceInv /\ HeldInv /\ CompiledInv
  BY DEF RulesInv
<1>1. (\E g \in Goroutines : need[g].pc = "ready") => lexer.compiled
  BY <1>0 DEF CompiledInv
<1>2. DOMAIN lexer = LexerFields /\ lexer = [x \in LexerFields |-> lexer[x]]
  BY <1>0 DEF RulesShape
<1>3. ASSUME NEW g \in Goroutines, Enter(g) \/ Leave(g)
      PROVE  RulesInv' /\ SameRules(lexer') /\ (lexer.compiled => lexer'.compiled)
  <2>1. PICK to \in {"idle", "once"} : Moves(g, to)
    <3>1. CASE Enter(g)
      <4>1. Moves(g, "once")
        BY <1>0, <3>1 DEF Enter, Moves, Where, RulesShape
      <4>2. QED
        BY <4>1
    <3>2. CASE Leave(g)
      <4>1. Moves(g, "idle")
        BY <1>0, <3>2 DEF Leave, Idle, Moves, Where, RulesShape
      <4>2. QED
        BY <4>1
    <3>3. QED
      BY <1>3, <3>1, <3>2
  <2>2. need[g].pc # "compile" /\ lexer' = lexer
    BY <1>3 DEF Enter, Leave
  <2>3. QED
    BY <1>2, <2>1, <2>2, WalkKeeps DEF SameRules
<1>4. ASSUME NEW g \in Goroutines, StartFetch(g)
      PROVE  RulesInv' /\ SameRules(lexer') /\ (lexer.compiled => lexer'.compiled)
  <2>1. /\ DOMAIN lexer' = LexerFields /\ lexer' = [x \in LexerFields |-> lexer'[x]]
        /\ lexer'.once = "running" /\ lexer'.mu = lexer.mu /\ lexer'.compiled = lexer.compiled
        /\ SameRules(lexer')
    BY <1>2, <1>4 DEF StartFetch, LexerFields, SameRules
  <2>2. Moves(g, "fetch")
    BY <1>0, <1>4 DEF StartFetch, Moves, Where, RulesShape
  <2>3. need[g].pc = "once" /\ lexer.once = "new"
    BY <1>4 DEF StartFetch
  <2>4. QED
    BY <1>2, <2>1, <2>2, <2>3, WalkKeeps
<1>5. ASSUME NEW g \in Goroutines, FetchedBefore(g)
      PROVE  RulesInv' /\ SameRules(lexer') /\ (lexer.compiled => lexer'.compiled)
  <2>1. Moves(g, "lock")
    BY <1>0, <1>5 DEF FetchedBefore, Moves, Where, RulesShape
  <2>2. lexer' = lexer /\ need[g].pc = "once" /\ lexer.once = "done"
    BY <1>5 DEF FetchedBefore
  <2>3. QED
    BY <1>2, <2>1, <2>2, WalkKeeps DEF SameRules
<1>6. ASSUME NEW g \in Goroutines, LockRules(g)
      PROVE  RulesInv' /\ SameRules(lexer') /\ (lexer.compiled => lexer'.compiled)
  <2>1. CASE lexer.compiled
    BY <1>0, <1>6, <2>1, ReturnKeeps DEF LockRules, CompiledInv
  <2>2. CASE ~lexer.compiled
    <3>1. /\ DOMAIN lexer' = LexerFields /\ lexer' = [x \in LexerFields |-> lexer'[x]]
          /\ lexer'.mu = g /\ lexer'.once = lexer.once /\ lexer'.compiled = lexer.compiled
          /\ SameRules(lexer')
      BY <1>2, <1>6, <2>2 DEF LockRules, LexerFields, SameRules
    <3>2. Moves(g, "compile")
      BY <1>0, <1>6, <2>2 DEF LockRules, Moves, Where, RulesShape
    <3>3. need[g].pc = "lock" /\ lexer.mu = None
      BY <1>6 DEF LockRules
    <3>4. QED
      BY <1>2, <2>2, <3>1, <3>2, <3>3, WalkKeeps
  <2>3. QED
    BY <2>1, <2>2
<1>7. ASSUME NEW g \in Goroutines, EndCompile(g)
      PROVE  RulesInv' /\ SameRules(lexer') /\ (lexer.compiled => lexer'.compiled)
  <2>1. need[g].pc = "compile" /\ ~lexer.compiled
    BY <1>0, <1>7 DEF EndCompile, CompiledInv
  <2>2. CASE BadPattern(lexer)
    <3>1. Return(g, lexer, TRUE)
      BY <1>7, <2>2 DEF EndCompile, Return
    <3>2. QED
      BY <2>1, <3>1, ReturnKeeps
  <2>3. CASE ~BadPattern(lexer)
    <3>1. Unfinished(lexer) = {}
      BY <1>7, <2>3 DEF EndCompile
    <3>2. Return(g, lexer, FALSE)
      BY <1>7, <2>3 DEF EndCompile, Return
    <3>3. QED
      BY <2>1, <2>3, <3>1, <3>2, ReturnKeeps
  <2>4. QED
    BY <2>2, <2>3
<1>8. ASSUME UNCHANGED rulesVars
      PROVE  RulesInv' /\ SameRules(lexer') /\ (lexer.compiled => lexer'.compiled)
  <2>1. lexer' = lexer /\ need' = need
    BY <1>8 DEF rulesVars
  <2>2. RulesShape' /\ OnceInv' /\ HeldInv' /\ CompiledInv'
    BY <1>0, <2>1 DEF RulesShape, OnceInv, HeldInv, CompiledInv, Unfinished, ToMutate, Mut, BadPattern
  <2>3. QED
    BY <2>1, <2>2 DEF RulesInv, SameRules
<1>9. ASSUME NEW g \in Goroutines, NeedRules(g) \/ Leave(g)
      PROVE  /\ RulesInv'
             /\ lexer.compiled \/ (\E h \in Goroutines : need[h].pc = "ready") =>
                  SameRules(lexer') /\ lexer'.compiled
  BY <1>1, <1>3, <1>4, <1>5, <1>6, <1>7, <1>9, FetchKeeps, ExpandKeeps DEF NeedRules
<1>10. QED
  BY <1>1, <1>8, <1>9 DEF RulesNext

\* Once a goroutine has the rules, nobody changes them (regexp.go:327-371, 404-415).
THEOREM RulesNeverChange == RulesSpec => RulesStay
<1>1. RulesInit => RulesInv
  BY RulesInitHolds
<1>2. RulesInv /\ [RulesNext]_rulesVars => RulesInv'
  BY RulesNextKeeps
<1>3. RulesInv /\ [RulesNext]_rulesVars =>
        [lexer.compiled \/ (\E g \in Goroutines : need[g].pc = "ready") =>
           lexer'.rules = lexer.rules /\ lexer'.rule = lexer.rule /\ lexer'.compiled]_rulesVars
  BY RulesNextKeeps DEF SameRules
<1>4. QED
  BY <1>1, <1>2, <1>3, PTL DEF RulesSpec, RulesStay

\* Whoever has them has nothing left to include or combine in them and no pattern that
\* could not be compiled, and r.mu has one owner (regexp.go:327-371).
NothingLeft ==
  /\ \A g \in Goroutines : need[g].pc = "ready" => Unfinished(lexer) = {} /\ ~BadPattern(lexer)
  /\ \A g, h \in Goroutines : need[g].pc = "compile" /\ need[h].pc = "compile" => g = h
THEOREM RulesAreFinished == RulesSpec => []NothingLeft
<1>1. RulesInit => RulesInv
  BY RulesInitHolds
<1>2. RulesInv /\ [RulesNext]_rulesVars => RulesInv'
  BY RulesNextKeeps
<1>3. RulesInv => NothingLeft
  BY DEF RulesInv, CompiledInv, HeldInv, NothingLeft
<1>4. QED
  BY <1>1, <1>2, <1>3, PTL DEF RulesSpec
=============================================================================
