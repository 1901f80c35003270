------------------------------- MODULE Lexer -------------------------------
(***************************************************************************)
(* chroma: the tokens of a text (regexp.go, mutators.go, emitters.go), runs *)
(* of them joined (coalesce.go), those of a template (delegate.go), and    *)
(* their lines (iterator.go).                                              *)
(*                                                                         *)
(* The iterators that are not yet exhausted are a sequence of what they    *)
(* will give, the next one first: tokens, and frames, which are LexerState *)
(* of this lexer or one nested in it.  A frame whose rule has matched is   *)
(* behind what that rule emits, and goes on when it is exhausted.          *)
(*                                                                         *)
(* A pattern is a sequence of groups [chars, many, least]: as many of these *)
(* characters as follow, or one.  What engine and patterns really are is   *)
(* the subject of RegexRunner.  Texts have no carriage returns: Markdown   *)
(* has removed them.                                                       *)
(***************************************************************************)
EXTENDS Naturals, SequencesExt, FiniteSetsExt

CONSTANTS MaxRun,         \* a token this long is not joined with the next
          NL              \* the character that ends a line

LOCAL Root == <<"root">>

Token(t, value) == [k |-> "token", type |-> t, value |-> value]
Frame(text, state, added) ==
  [k |-> "frame", text |-> text, pos |-> 0, stack |-> <<state>>, start |-> state, added |-> added]

\* RegexLexer.Tokenise.  A lexer may want its text to end a line, unless nested.
Tokenise(text, ensureNL) ==
  LET added == ensureNL /\ (text = <<>> \/ Last(text) # NL)
  IN Frame(IF added THEN Append(text, NL) ELSE text, Root, added)
Nested(text, state) == Frame(text, state, FALSE)

-----------------------------------------------------------------------------
(* matchRules.                                                              *)

NoMatch == [ok |-> FALSE, groups |-> <<>>]
Following(text, pos, chars) ==
  Max({n \in 0 .. Len(text) - pos : \A i \in pos + 1 .. pos + n : text[i] \in chars})
Taken(part, text) ==
  [pos \in 0 .. Len(text) |-> LET all == Following(text, pos, part.chars)
                              IN IF part.many THEN all ELSE Min({1, all})]
Match(pattern, text, pos) ==
  LET at[i \in 0 .. Len(pattern)] ==
        IF i = 0 THEN pos ELSE at[i - 1] + Taken(pattern[i], text)[at[i - 1]]
  IN IF \E i \in DOMAIN pattern : at[i] - at[i - 1] < pattern[i].least THEN NoMatch
     ELSE [ok |-> TRUE, groups |-> [i \in DOMAIN pattern |-> SubSeq(text, at[i - 1] + 1, at[i])]]

\* late: the rules whose match takes longer than it may, and counts as none.
Matching(f, rules, late) == {i \in DOMAIN rules \ late : Match(rules[i].pattern, f.text, f.pos).ok}

-----------------------------------------------------------------------------
(* Emitters and mutators.                                                   *)

EmitOne(emit, value) ==
  CASE emit.by = "type" -> <<Token(emit.type, value)>>
    [] emit.by = "self" -> <<Nested(value, emit.state)>>
    [] emit.by = "nothing" -> <<>>
\* Mutant: groups nothing is said of are left out.
EmitGroups(emits, groups) == FlattenSeq([i \in DOMAIN emits |-> EmitOne(emits[i], groups[i])])
ByGroups(emits, groups) ==
  IF Len(emits) # Len(groups) THEN <<Token("Error", FlattenSeq(groups))>>
  ELSE FlattenSeq([i \in DOMAIN emits |-> EmitOne(emits[i], groups[i])])
Emit(emit, groups) == IF emit.by = "groups" THEN ByGroups(emit.of, groups)
                      ELSE EmitOne(emit, FlattenSeq(groups))

\* state: the one that was matched in.  Popping more than there is panics.
Panic == <<"panic">>
Pop(stack, n) == IF n > Len(stack) THEN <<Panic>> ELSE SubSeq(stack, 1, Len(stack) - n)
Push(stack, state, names) ==
  IF names = <<>> THEN Append(stack, state)
  ELSE FoldLeft(LAMBDA s, name : IF name = <<"#pop">> THEN Pop(s, 1) ELSE Append(s, name), stack, names)
Mutate(stack, state, mut) ==
  FoldLeft(LAMBDA s, m : CASE s = <<Panic>> \/ m.op \in {"include", "combine"} -> <<Panic>>
                           [] s # <<Panic>> /\ m.op = "pop" -> Pop(s, m.of)
                           [] s # <<Panic>> /\ m.op = "push" -> Push(s, state, m.of),
           stack, IF mut.op = "all" THEN mut.of ELSE IF mut.op = "none" THEN <<>> ELSE <<mut>>)

-----------------------------------------------------------------------------
(* LexerState.Iterator, one turn of its loop: what the frame becomes.       *)

End(f) == Len(f.text) - (IF f.added THEN 1 ELSE 0)
Running(f) == f.pos < End(f) /\ f.stack # <<>>
State(f) == Last(f.stack)
Panics(f, rules) == f.stack # <<>> /\ (State(f) = Panic \/ (Running(f) /\ State(f) \notin DOMAIN rules))

Matched(f, rule, groups) ==
  Emit(rule.emit, groups)
  \o <<[f EXCEPT !.pos = @ + Len(FlattenSeq(groups)), !.stack = Mutate(@, State(f), rule.mut)]>>
\* At the end of a line the lexer goes back to where it began.
Unmatched(f) ==
  IF f.text[f.pos + 1] = NL /\ State(f) # f.start THEN <<[f EXCEPT !.stack = <<f.start>>]>>
  ELSE <<Token("Error", <<f.text[f.pos + 1]>>), [f EXCEPT !.pos = @ + 1]>>
\* What is left when the last state has been popped is an error.
Left(f) == IF f.stack = <<>> /\ f.pos # Len(f.text)
           THEN <<Token("Error", SubSeq(f.text, f.pos + 1, Len(f.text)))>> ELSE <<>>

-----------------------------------------------------------------------------
(* The coalescer, on c = [prev, out]: it gives a token when another follows. *)

NoToken == Token("EOF", <<>>)
Coalesce(c, t) ==
  CASE t.type = "Ignore" \/ t.value = <<>> -> c
    [] c.prev = NoToken -> [c EXCEPT !.prev = t]
    [] c.prev.type = t.type /\ Len(c.prev.value) < MaxRun -> [c EXCEPT !.prev.value = @ \o t.value]
    [] OTHER -> [prev |-> t, out |-> Append(c.out, c.prev)]
\* FoldLeft, with every value computed once.
Fold(op(_, _), base, s) == FoldLeft(LAMBDA r, x : CHOOSE v \in {op(q, x) : q \in {r}} : TRUE, base, s)
NothingYet == [prev |-> NoToken, out |-> <<>>]
Flush(c) == IF c.prev = NoToken THEN c ELSE [prev |-> NoToken, out |-> Append(c.out, c.prev)]

-----------------------------------------------------------------------------
(* delegate.go: the tokens of a template, whose lexer gives what it does    *)
(* not know as "Other", and those another lexer has made of all of that.    *)

Others(tokens) == FlattenSeq([i \in DOMAIN tokens |-> IF tokens[i].type = "Other" THEN tokens[i].value ELSE <<>>])

\* Before(tokens)[i]: the characters of the first i tokens.
Before(tokens) ==
  LET upto[i \in 0 .. Len(tokens)] == IF i = 0 THEN 0 ELSE upto[i - 1] + Len(tokens[i].value)
  IN [i \in 0 .. Len(tokens) |-> upto[i]]

\* Runs of tokens that are not "Other", with the place in the text where they begin
\* and where they end.
Insertions(tokens) ==
  LET own(i) == i \in DOMAIN tokens /\ tokens[i].type # "Other"
      last(i) == Max({j \in i .. Len(tokens) : \A k \in i .. j : own(k)})
      starts == SelectSeq([i \in DOMAIN tokens |-> i], LAMBDA i : own(i) /\ ~own(i - 1))
  IN [s \in DOMAIN starts |-> [start |-> Before(tokens)[starts[s] - 1],
                               end |-> Before(tokens)[last(starts[s])],
                               tokens |-> SubSeq(tokens, starts[s], last(starts[s]))]]

\* Every insertion comes before the character that is at its place, in the middle of
\* a token if need be.  tokens: those that are still to come; offset: in the text.
Cut(t, i, j) == [t EXCEPT !.value = SubSeq(@, i, j)]
Split(tokens, n) ==
  LET before == Before(tokens)
      whole == Max({k \in 0 .. Len(tokens) : before[k] <= n})
      left == n - before[whole]
      cut == whole < Len(tokens) /\ left > 0
  IN [given |-> SubSeq(tokens, 1, whole) \o (IF cut THEN <<Cut(tokens[whole + 1], 1, left)>> ELSE <<>>),
      rest |-> (IF cut THEN <<Cut(tokens[whole + 1], left + 1, Len(tokens[whole + 1].value))>> ELSE <<>>)
               \o SubSeq(tokens, whole + (IF cut THEN 2 ELSE 1), Len(tokens))]
Merged(tokens, insertions) ==
  LET m[i \in 0 .. Len(insertions)] ==
        IF i = 0 THEN [out |-> <<>>, rest |-> tokens, offset |-> 0]
        ELSE CHOOSE next \in
          {[out |-> r.out \o s.given \o insertions[i].tokens, rest |-> s.rest, offset |-> insertions[i].end] :
             <<r, s>> \in {<<q, Split(q.rest, insertions[i].start - q.offset)>> : q \in {m[i - 1]}}} : TRUE
  IN m[Len(insertions)].out \o m[Len(insertions)].rest

-----------------------------------------------------------------------------
\* SplitTokensIntoLines: l = [line, out].
SplitToken(l, t) ==
  LET ends == SelectSeq([i \in DOMAIN t.value |-> i], LAMBDA i : t.value[i] = NL)
      from(k) == IF k = 1 THEN 1 ELSE ends[k - 1] + 1
      full == FoldLeft(LAMBDA a, k : [line |-> <<>>, out |-> Append(a.out, Append(a.line, Cut(t, from(k), ends[k])))],
                       l, [k \in DOMAIN ends |-> k])
  IN [full EXCEPT !.line = Append(@, Cut(t, from(Len(ends) + 1), Len(t.value)))]
Lines(tokens) ==
  LET l == Fold(SplitToken, [line |-> <<>>, out |-> <<>>], tokens)
      all == IF l.line = <<>> THEN l.out ELSE Append(l.out, l.line)
  IN IF all # <<>> /\ Len(Last(all)) = 1 /\ Last(all)[1].value = <<>> THEN Front(all) ELSE all
=============================================================================
