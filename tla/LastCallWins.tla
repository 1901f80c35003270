---------------------------- MODULE LastCallWins ----------------------------
(***************************************************************************)
(* What a debouncer promises, independently of mutexes and timers.  A call *)
(* replaces whatever call is still pending; the pending call, and only it, *)
(* may start; a call that was never replaced does start.                   *)
(*                                                                         *)
(* Debouncer refines this module, and HotReload composes it.               *)
(***************************************************************************)
CONSTANTS Callbacks,   \* the functions handed to the debouncer
          Nil          \* no function: not a member of Callbacks

VARIABLES submitted,   \* the callbacks handed over so far
          pending,     \* the one that will run unless it is replaced, or Nil
          started      \* the ones whose execution has begun

lcwVars == <<submitted, pending, started>>

LCWInit == submitted = {} /\ pending = Nil /\ started = {}

Submit(c) == /\ c \notin submitted
             /\ submitted' = submitted \cup {c}
             /\ pending' = c
             /\ UNCHANGED started

Start(c) == /\ pending = c
            /\ started' = started \cup {c}
            /\ pending' = Nil
            /\ UNCHANGED submitted

LCWNext == \E c \in Callbacks : Submit(c) \/ Start(c)

LCWFairness == WF_lcwVars(\E c \in Callbacks : Start(c))

LCWSpec == LCWInit /\ [][LCWNext]_lcwVars /\ LCWFairness
=============================================================================
