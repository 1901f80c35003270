----------------------------- MODULE LexerRules -----------------------------
(***************************************************************************)
(* chroma/regexp.go: the rules of a lexer, which are loaded and compiled   *)
(* when it is first used, by whichever goroutine that is; with the includes *)
(* and combined states of mutators.go.                                     *)
(*                                                                         *)
(* The name of a state is a tuple, so that names can be joined.  A rule is *)
(* [mut, pattern, emit].  mut is [op |-> "include", of |-> state], "combine" *)
(* of a sequence of states, or what Lexer knows.  The compiled rules of a  *)
(* state are pointers, which states share; a pointer is the state and the  *)
(* number of the rule it was made for.                                     *)
(***************************************************************************)
EXTENDS Naturals, SequencesExt, FiniteSetsExt, TLC

CONSTANTS Goroutines,     \* those that highlight code
          Files,          \* what fetchRulesFunc makes of a lexer's file, None if it fails
          None

ASSUME RulesAssumption == None \notin Goroutines

VARIABLES
  lexer,   \* the RegexLexer; see NewLexer
  need     \* per goroutine: where it is in needRules, and its err

rulesVars == <<lexer, need>>

\* rule: what the pointers refer to.
NewLexer(file) ==
  [file |-> file, once |-> "new", mu |-> None, compiled |-> FALSE, rules |-> <<>>, rule |-> <<>>]

Idle == [pc |-> "idle", err |-> FALSE]

-----------------------------------------------------------------------------
(* fetchRules.                                                              *)

Root == <<"root">>
RawRules == Files[lexer.file]
Numbered(raw) == UNION {{<<s, i>> : i \in DOMAIN raw[s]} : s \in DOMAIN raw}
FetchFails == RawRules = None \/ Root \notin DOMAIN RawRules
Fetched(l) ==
  IF FetchFails THEN l
  ELSE [l EXCEPT !.rules = [s \in DOMAIN RawRules |-> [i \in DOMAIN RawRules[s] |-> <<s, i>>]],
                 !.rule = [p \in Numbered(RawRules) |-> RawRules[p[1]][p[2]]]]

\* compileOnce.Do: the first one runs it, and the others wait until it is done.
Enter(g) == /\ need[g].pc = "idle"
            /\ need' = [need EXCEPT ![g] = [pc |-> "once", err |-> FALSE]]
            /\ UNCHANGED lexer
StartFetch(g) == /\ need[g].pc = "once" /\ lexer.once = "new"
                 /\ lexer' = [lexer EXCEPT !.once = "running"]
                 /\ need' = [need EXCEPT ![g].pc = "fetch"]
Fetch(g) == /\ need[g].pc = "fetch"
            /\ lexer' = [Fetched(lexer) EXCEPT !.once = "done"]
            /\ need' = [need EXCEPT ![g] = [pc |-> "lock", err |-> FetchFails]]
FetchedBefore(g) == /\ need[g].pc = "once" /\ lexer.once = "done"
                    /\ need' = [need EXCEPT ![g].pc = "lock"]
                    /\ UNCHANGED lexer

-----------------------------------------------------------------------------
(* maybeCompile, under r.mu.                                                *)

\* Unlocked, with the error of the compilation or that of fetchRules.
\* Mutant: what could not be compiled counts as compiled too.
ReturnAnyway(g, l, fails) ==
  /\ lexer' = [l EXCEPT !.mu = None, !.compiled = TRUE]
  /\ need' = [need EXCEPT ![g].pc = IF fails \/ need[g].err THEN "error" ELSE "ready"]
\* Mutant: an error is returned without unlocking.
ReturnLocked(g, l, fails) ==
  /\ lexer' = [l EXCEPT !.mu = IF fails THEN g ELSE None, !.compiled = ~fails]
  /\ need' = [need EXCEPT ![g].pc = IF fails \/ need[g].err THEN "error" ELSE "ready"]
Return(g, l, fails) ==
  /\ lexer' = [l EXCEPT !.mu = None, !.compiled = ~fails]
  /\ need' = [need EXCEPT ![g].pc = IF fails \/ need[g].err THEN "error" ELSE "ready"]

\* Mutant: whoever finds it locked leaves it to the other one.
LockOrGo(g) == /\ need[g].pc = "lock"
               /\ IF lexer.compiled \/ lexer.mu # None
                  THEN /\ need' = [need EXCEPT ![g].pc = IF need[g].err THEN "error" ELSE "ready"]
                       /\ UNCHANGED lexer
                  ELSE /\ lexer' = [lexer EXCEPT !.mu = g]
                       /\ need' = [need EXCEPT ![g].pc = "compile"]
LockRules(g) == /\ need[g].pc = "lock" /\ lexer.mu = None
                /\ IF lexer.compiled THEN Return(g, lexer, FALSE)
                   ELSE /\ lexer' = [lexer EXCEPT !.mu = g]
                        /\ need' = [need EXCEPT ![g].pc = "compile"]

\* MutateLexer of rule i of state s: it is replaced by the rules of the state it
\* includes, or pushes a state made of those it combines.
Names(mut) == IF mut.op = "include" THEN {mut.of} ELSE ToSet(mut.of)
Joined(states) == <<"combined">> \o FlattenSeq(states)
Fails(l, mut) == /\ mut.op = "combine" => Joined(mut.of) \notin DOMAIN l.rules
                 /\ \E s \in Names(mut) : s \notin DOMAIN l.rules
Include(l, s, i) ==
  [l EXCEPT !.rules[s] = SubSeq(@, 1, i - 1) \o l.rules[l.rule[@[i]].mut.of] \o SubSeq(@, i + 1, Len(@))]
Combine(l, s, i) ==
  LET p == l.rules[s][i]
      states == l.rule[p].mut.of
      all == FlattenSeq([k \in DOMAIN states |-> l.rules[states[k]]])
  IN [l EXCEPT !.rules = IF Joined(states) \in DOMAIN @ THEN @ ELSE (Joined(states) :> all) @@ @,
               !.rule[p].mut = [op |-> "push", of |-> <<Joined(states)>>]]

\* The map is ranged over in any order, from the start after every mutation; in a
\* state the first rule that needs it is mutated.
Mut(l, s, i) == l.rule[l.rules[s][i]].mut
ToMutate(l, s) == {i \in DOMAIN l.rules[s] : Mut(l, s, i).op \in {"include", "combine"}}
Unfinished(l) == {s \in DOMAIN l.rules : ToMutate(l, s) # {}}
BadPattern(l) == \E p \in DOMAIN l.rule : l.rule[p].pattern = None

Expand(g) ==
  /\ need[g].pc = "compile" /\ ~BadPattern(lexer)
  /\ \E s \in Unfinished(lexer) :
       LET i == Min(ToMutate(lexer, s)) IN
       IF Fails(lexer, Mut(lexer, s, i)) THEN Return(g, lexer, TRUE)
       ELSE /\ lexer' = IF Mut(lexer, s, i).op = "include" THEN Include(lexer, s, i)
                                                         ELSE Combine(lexer, s, i)
            /\ UNCHANGED need

EndCompile(g) == /\ need[g].pc = "compile" /\ (BadPattern(lexer) \/ Unfinished(lexer) = {})
                 /\ Return(g, lexer, BadPattern(lexer))

NeedRules(g) == \/ Enter(g) \/ StartFetch(g) \/ Fetch(g) \/ FetchedBefore(g)
                \/ LockRules(g) \/ Expand(g) \/ EndCompile(g)

\* Tokenise goes on with the rules, or returns the error.
Leave(g) == /\ need[g].pc \in {"ready", "error"}
            /\ need' = [need EXCEPT ![g] = Idle]
            /\ UNCHANGED lexer

\* The rules as a lexer runs them.
Rules == [s \in DOMAIN lexer.rules |-> [i \in DOMAIN lexer.rules[s] |-> lexer.rule[lexer.rules[s][i]]]]

-----------------------------------------------------------------------------
(* All goroutines at the rules of one lexer; Page says what else they do.   *)

RulesInit == /\ \E file \in DOMAIN Files : lexer = NewLexer(file)
             /\ need = [g \in Goroutines |-> Idle]
RulesNext == \E g \in Goroutines : NeedRules(g) \/ Leave(g)
RulesSpec == RulesInit /\ [][RulesNext]_rulesVars

\* Whoever has left needRules reads the rules without r.mu, for as long as it lexes a
\* text.  So from then on nobody changes them: neither the states nor the rules that
\* they share, whoever still waits for the lock or comes to it later
\* (regexp.go:211, 327-371, 404-441).
RulesStay ==
  [][lexer.compiled \/ (\E g \in Goroutines : need[g].pc = "ready") =>
       lexer'.rules = lexer.rules /\ lexer'.rule = lexer.rule /\ lexer'.compiled]_rulesVars
=============================================================================
