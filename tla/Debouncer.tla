----------------------------- MODULE Debouncer ------------------------------
(***************************************************************************)
(* reload/watch.go: the debouncer.  Any number of goroutines call the      *)
(* function NewDebouncer returns; each call stops the timer the previous   *)
(* one left and arms a new one, under the mutex d.mu.  The Go runtime fires*)
(* a timer on its own: it starts the callback in a goroutine of its own,   *)
(* which neither takes d.mu nor can be stopped any more.                   *)
(*                                                                         *)
(* Time is abstracted: an armed timer may fire at any moment, which covers *)
(* every spacing of the calls relative to d.after.                         *)
(***************************************************************************)
EXTENDS FiniteSets

CONSTANTS Callers,     \* goroutines that call d.add
          Callbacks,   \* the functions f; each is handed over at most once
          Nil          \* the nil timer, and "no goroutine holds the mutex"

ASSUME DebouncerAssumption == Nil \notin Callbacks /\ Nil \notin Callers

VARIABLES pc,       \* where each caller is in d.add
          f,        \* the argument of each caller's current call
          mu,       \* d.mu: the caller that holds it, or Nil
          timer,    \* d.timer: the callback its AfterFunc was given, or Nil
          status    \* what the runtime has done with each callback

vars == <<pc, f, mu, timer, status>>

Init == /\ pc = [p \in Callers |-> "idle"]
        /\ f = [p \in Callers |-> Nil]
        /\ mu = Nil
        /\ timer = Nil
        /\ status = [c \in Callbacks |-> "new"]

-----------------------------------------------------------------------------
(* d.add, one action per step another goroutine can observe. *)

Call(p, c) == /\ pc[p] = "idle" /\ status[c] = "new"
              /\ pc' = [pc EXCEPT ![p] = "lock"]
              /\ f' = [f EXCEPT ![p] = c]
              /\ status' = [status EXCEPT ![c] = "passed"]
              /\ UNCHANGED <<mu, timer>>

\* Mutant: the mutex is not waited for.
LockWithoutMutex(p) == /\ pc[p] = "lock"
                       /\ mu' = p
                       /\ pc' = [pc EXCEPT ![p] = "stop"]
                       /\ UNCHANGED <<f, timer, status>>

Lock(p) == /\ pc[p] = "lock" /\ mu = Nil
           /\ mu' = p
           /\ pc' = [pc EXCEPT ![p] = "stop"]
           /\ UNCHANGED <<f, timer, status>>

\* Mutant: the previous timer is left running.
StopNothing(p) == /\ pc[p] = "stop"
                  /\ pc' = [pc EXCEPT ![p] = "arm"]
                  /\ UNCHANGED <<f, mu, timer, status>>

\* Timer.Stop prevents the start of a callback; it does nothing to one that
\* has started already.
Stop(p) == /\ pc[p] = "stop"
           /\ pc' = [pc EXCEPT ![p] = "arm"]
           /\ status' = [c \in Callbacks |->
                           IF c = timer /\ status[c] = "armed"
                           THEN "stopped" ELSE status[c]]
           /\ UNCHANGED <<f, mu, timer>>

\* Mutant: a timer is made for the first call only.
ArmOnce(p) == /\ pc[p] = "arm"
              /\ pc' = [pc EXCEPT ![p] = "unlock"]
              /\ timer' = IF timer = Nil THEN f[p] ELSE timer
              /\ status' = IF timer = Nil THEN [status EXCEPT ![f[p]] = "armed"]
                                          ELSE status
              /\ UNCHANGED <<f, mu>>

Arm(p) == /\ pc[p] = "arm"
          /\ pc' = [pc EXCEPT ![p] = "unlock"]
          /\ timer' = f[p]
          /\ status' = [status EXCEPT ![f[p]] = "armed"]
          /\ UNCHANGED <<f, mu>>

Unlock(p) == /\ pc[p] = "unlock"
             /\ pc' = [pc EXCEPT ![p] = "idle"]
             /\ f' = [f EXCEPT ![p] = Nil]
             /\ mu' = Nil
             /\ UNCHANGED <<timer, status>>

-----------------------------------------------------------------------------
(* The runtime's timers. *)

Fire(c) == /\ status[c] = "armed"
           /\ status' = [status EXCEPT ![c] = "running"]
           /\ UNCHANGED <<pc, f, mu, timer>>

Finish(c) == /\ status[c] = "running"
             /\ status' = [status EXCEPT ![c] = "done"]
             /\ UNCHANGED <<pc, f, mu, timer>>

Add(p) == Lock(p) \/ Stop(p) \/ Arm(p) \/ Unlock(p)

Next == \/ \E p \in Callers, c \in Callbacks : Call(p, c)
        \/ \E p \in Callers : Add(p)
        \/ \E c \in Callbacks : Fire(c) \/ Finish(c)

\* The scheduler runs every runnable goroutine, sync.Mutex does not starve a
\* waiter, and the runtime's timers expire.  Nobody has to call d.add.
Fairness == /\ \A p \in Callers : /\ SF_vars(Lock(p))
                                  /\ WF_vars(Stop(p) \/ Arm(p) \/ Unlock(p))
            /\ \A c \in Callbacks : WF_vars(Fire(c)) /\ WF_vars(Finish(c))

Spec == Init /\ [][Next]_vars /\ Fairness
-----------------------------------------------------------------------------
PcValues == {"idle", "lock", "stop", "arm", "unlock"}
Holding == {"stop", "arm", "unlock"}
StatusValues == {"new", "passed", "armed", "stopped", "running", "done"}

\* The mutex is held exactly by the caller between its Lock and its Unlock.
MutexInv == \A p \in Callers : pc[p] \in Holding <=> mu = p

\* Types of the state, and who holds d.mu.
TypeOK == /\ pc \in [Callers -> PcValues]
          /\ f \in [Callers -> Callbacks \cup {Nil}]
          /\ mu \in Callers \cup {Nil}
          /\ timer \in Callbacks \cup {Nil}
          /\ status \in [Callbacks -> StatusValues]
          /\ MutexInv

\* At most one timer is armed at any time, and it is the one d.timer refers
\* to: no burst of concurrent d.add calls leaves a timer behind that nobody
\* can stop any more (watch.go:28-36).
OneArmed == \A c \in Callbacks : status[c] = "armed" => timer = c

\* Stopping a timer always makes room for a newer one: whenever no call is in
\* progress, the callback of the last call is waiting to run, running or done;
\* it was never cancelled (watch.go:32-35).
LastCallSurvives ==
  mu = Nil /\ timer # Nil => status[timer] \in {"armed", "running", "done"}

\* The debouncer keeps the promise of LastCallWins.  A call takes effect when
\* it has stopped the previous timer: from then on only its own callback can
\* still start.
InArm(c) == \E p \in Callers : pc[p] = "arm" /\ f[p] = c

submittedBar == {c \in Callbacks : \/ status[c] \in StatusValues \ {"new", "passed"}
                                   \/ InArm(c)}
pendingBar == IF \E c \in Callbacks : status[c] = "armed" \/ InArm(c)
              THEN CHOOSE c \in Callbacks : status[c] = "armed" \/ InArm(c)
              ELSE Nil
startedBar == {c \in Callbacks : status[c] \in {"running", "done"}}

Promise == INSTANCE LastCallWins WITH submitted <- submittedBar,
                                      pending <- pendingBar,
                                      started <- startedBar

KeepsPromise == Promise!LCWSpec
=============================================================================
