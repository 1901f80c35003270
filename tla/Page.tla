------------------------------- MODULE Page -------------------------------
(***************************************************************************)
(* main.go: GenerateHTMLFromMarkdown, by which jobs make pages, each one in *)
(* its goroutine: the document is parsed (MdNotes), and then rendered with *)
(* CodeBlock and Format for its code, which share a lexer (LexerRules) and *)
(* use it on a text each (Lexer).  A panic ends the program.               *)
(***************************************************************************)
EXTENDS LexerRules, Lexer, MdNotes

CONSTANTS Cases,        \* [docs, file, ensureNL, delegates]: a document or None per goroutine,
                        \* the lexer, and whether it leaves what it does not know to HTML
          HTML,         \* the rules of that lexer, which are loaded
          MaxTimeouts   \* matches of a job that take too long

ASSUME PageAssumption == Pages = Goroutines

VARIABLE job            \* per goroutine

vars == <<lexer, need, parser, job>>

\* code: the blocks still to be rendered; shown: the lines of those that were, None if
\* nothing was written.  insertions: the template's tokens, when the rest is lexed as HTML.
\* ensureNL, delegates: of the case.
NewJob(case, g) ==
  [pc |-> IF case.docs[g] = None THEN "done" ELSE "parse",
   code |-> <<>>, shown |-> <<>>,
   todo |-> <<>>, c |-> NothingYet, insertions |-> None, late |-> 0,
   ensureNL |-> case.ensureNL, delegates |-> case.delegates]

Init == \E case \in Cases :
  /\ lexer = NewLexer(case.file)
  /\ need = [g \in Goroutines |-> Idle]
  /\ parser = [g \in Pages |-> NewParser(IF case.docs[g] = None THEN <<>> ELSE case.docs[g])]
  /\ job = [g \in Goroutines |-> NewJob(case, g)]

-----------------------------------------------------------------------------
Parse(g) ==
  /\ job[g].pc = "parse"
  /\ IF parser[g].phase # "done"
     THEN parser' = [parser EXCEPT ![g] = ParseOn(@)] /\ UNCHANGED job
     ELSE job' = [job EXCEPT ![g].pc = "render", ![g].code = parser[g].code] /\ UNCHANGED parser
  /\ UNCHANGED rulesVars

Shown(j, lines) == [j EXCEPT !.pc = "render", !.code = Tail(@), !.shown = Append(@, lines)]

\* CodeBlock: what has no language is escaped, without the blank lines around it.
TrimSpace(text) ==
  LET kept == {i \in DOMAIN text : text[i] # NL}
  IN IF kept = {} THEN <<>> ELSE SubSeq(text, Min(kept), Max(kept))
Plain(g) ==
  /\ job[g].pc = "render" /\ job[g].code # <<>> /\ ~Head(job[g].code).info
  /\ job' = [job EXCEPT ![g] = Shown(@, TrimSpace(Head(@.code).text))]
  /\ UNCHANGED rulesVars

\* Format, SpecialTrim: the last end of a line is looked for and cut off.
SpecialTrim(text) == SubSeq(text, 1, Max({i \in DOMAIN text : text[i] = NL}) - 1)
Format(g) ==
  /\ job[g].pc = "render" /\ job[g].code # <<>> /\ Head(job[g].code).info
  /\ IF \A i \in DOMAIN Head(job[g].code).text : Head(job[g].code).text[i] # NL
     THEN job' = [job EXCEPT ![g].pc = "panicked"] /\ UNCHANGED rulesVars
     ELSE job' = [job EXCEPT ![g].pc = "rules"] /\ Enter(g)

\* needRules, and then Tokenise of the lexer or its error.
AskRules(g) == job[g].pc = "rules" /\ NeedRules(g) /\ UNCHANGED job
HaveRules(g) ==
  /\ job[g].pc = "rules" /\ Leave(g)
  /\ job' = [job EXCEPT ![g] =
       IF need[g].pc = "error" THEN Shown(@, None)
       ELSE [@ EXCEPT !.pc = "tokens", !.todo = <<Tokenise(SpecialTrim(Head(job[g].code).text), job[g].ensureNL)>>]]

\* formatter.Format takes all tokens first, and so does a lexer that delegates.  t: what
\* is to come next.
RulesOf(g) == IF job[g].insertions = None THEN Rules ELSE HTML
Lex(g, t) ==
  \/ /\ t.k = "token"
     /\ job' = [job EXCEPT ![g].todo = Tail(@), ![g].c = Coalesce(@, t)]
  \/ /\ t.k = "frame" /\ Panics(t, RulesOf(g))
     /\ job' = [job EXCEPT ![g].pc = "panicked"]
  \/ /\ t.k = "frame" /\ ~Panics(t, RulesOf(g)) /\ ~Running(t)
     /\ job' = [job EXCEPT ![g].todo = Left(t) \o Tail(@)]
TakeTurn(g, f, rules) ==
  \E late \in {l \in SUBSET DOMAIN rules : job[g].late + Cardinality(l) <= MaxTimeouts} :
    \E matching \in {Matching(f, rules, late)} :
      \/ /\ matching = {}
         /\ job' = [job EXCEPT ![g].todo = Unmatched(f) \o Tail(@), ![g].late = @ + Cardinality(late)]
      \/ /\ matching # {}
         /\ \E rule \in {rules[Min(matching)]} : \E groups \in {Match(rule.pattern, f.text, f.pos).groups} :
              job' = [job EXCEPT ![g].todo = Matched(f, rule, groups) \o Tail(@),
                                 ![g].late = @ + Cardinality(late)]
NextToken(g) ==
  /\ job[g].pc = "tokens" /\ job[g].todo # <<>>
  /\ \E t \in {Head(job[g].todo)} :
       \/ Lex(g, t)
       \/ /\ t.k = "frame" /\ ~Panics(t, RulesOf(g)) /\ Running(t)
          /\ \E rules \in {RulesOf(g)[State(t)]} : TakeTurn(g, t, rules)
  /\ UNCHANGED rulesVars
Delegate(g) ==
  /\ job[g].pc = "tokens" /\ job[g].todo = <<>> /\ job[g].delegates /\ job[g].insertions = None
  /\ \E tokens \in {Flush(job[g].c).out} : \E insertions \in {Insertions(tokens)} :
       LET others == IF insertions = <<>> THEN SpecialTrim(Head(job[g].code).text) ELSE Others(tokens)
       IN job' = [job EXCEPT ![g].todo = <<Tokenise(others, FALSE)>>, ![g].c = NothingYet,
                             ![g].insertions = insertions]
  /\ UNCHANGED rulesVars
\* What is put together is coalesced once more, which changes nothing in other tokens.
EndTokens(g) ==
  /\ job[g].pc = "tokens" /\ job[g].todo = <<>> /\ (job[g].delegates => job[g].insertions # None)
  /\ \E tokens \in {Flush(job[g].c).out} :
       \E all \in {IF ~job[g].delegates THEN tokens ELSE Merged(tokens, job[g].insertions)} :
         \E c \in {Fold(Coalesce, NothingYet, all)} : \E lines \in {Lines(Flush(c).out)} :
           job' = [job EXCEPT ![g] = [Shown(@, lines) EXCEPT !.c = NothingYet, !.insertions = None]]
  /\ UNCHANGED rulesVars
EndPage(g) ==
  /\ job[g].pc = "render" /\ job[g].code = <<>>
  /\ job' = [job EXCEPT ![g].pc = "done"]
  /\ UNCHANGED rulesVars

Step(g) ==
  /\ \A h \in Goroutines : job[h].pc # "panicked"
  /\ \/ Parse(g)
     \/ /\ \/ Plain(g) \/ Format(g) \/ AskRules(g) \/ HaveRules(g)
           \/ NextToken(g) \/ Delegate(g) \/ EndTokens(g) \/ EndPage(g)
        /\ UNCHANGED parser
Next == \E g \in Goroutines : Step(g)
Spec == Init /\ [][Next]_vars /\ \A g \in Goroutines : WF_vars(Step(g))

-----------------------------------------------------------------------------
\* The rules of a state with all that it includes, in their places.
RECURSIVE Whole(_, _)
Whole(raw, s) ==
  FlattenSeq([i \in DOMAIN raw[s] |->
    CASE raw[s][i].mut.op = "include" -> Whole(raw, raw[s][i].mut.of)
      [] raw[s][i].mut.op = "combine" ->
           <<[raw[s][i] EXCEPT !.mut = [op |-> "push", of |-> <<Joined(raw[s][i].mut.of)>>]]>>
      [] OTHER -> <<raw[s][i]>>])
Combined(raw) == {raw[p[1]][p[2]].mut.of : p \in {p \in Numbered(raw) : raw[p[1]][p[2]].mut.op = "combine"}}

\* Whichever goroutine compiles the rules, and in whichever order it meets the
\* states, whoever gets them has the same: every state with all it includes in
\* its place, and the combined states.  So has nobody a part of them, or of those
\* that could not be compiled.  It is not so if they could not be loaded, which
\* only the first caller is told (regexp.go:327-371, 404-415).
Compiles(raw) == \A p \in Numbered(raw) :
  LET r == raw[p[1]][p[2]] IN
  r.pattern # None /\ (r.mut.op \in {"include", "combine"} => Names(r.mut) \subseteq DOMAIN raw)
RulesWhole ==
  \A g \in Goroutines : need[g].pc = "ready" /\ ~FetchFails =>
    /\ Compiles(RawRules)
    /\ \A s \in DOMAIN RawRules : Rules[s] = Whole(RawRules, s)
    /\ \A states \in Combined(RawRules) :
         Rules[Joined(states)] = FlattenSeq([k \in DOMAIN states |-> Whole(RawRules, states[k])])

Values(tokens) == FlattenSeq([i \in DOMAIN tokens |-> tokens[i].value])
Rest(todo) == FlattenSeq([i \in DOMAIN todo |->
                IF todo[i].k = "token" THEN todo[i].value
                ELSE SubSeq(todo[i].text, todo[i].pos + 1, Len(todo[i].text))])
Same(values, text) == values = text \/ values = Append(text, NL)
Ends(value, n) == \A i \in DOMAIN value : value[i] = NL => n /\ i = Len(value)

\* Whatever the rules are and whichever of them take too long, the tokens of a code
\* block are its text: at any moment those given, the one held back and what is yet to
\* come, with those of a template in their places.  Its lines are the text, too, and only
\* the last token of a line ends it.  What SpecialTrim has cut off before is not
\* counted: the last line, where the block is in inline text and does not end in a
\* newline.  A lexer's own newline may be kept
\* (regexp.go:170-236, coalesce.go, delegate.go:56-133, iterator.go:56-83).
CodeKept ==
  \A g \in Goroutines :
    LET j == job[g] IN
    /\ j.pc = "tokens" =>
         LET tokens == j.c.out \o <<j.c.prev, Token("Rest", Rest(j.todo))>>
             all == IF j.insertions = None THEN tokens ELSE Merged(tokens, j.insertions)
         IN Same(Values(all), SpecialTrim(Head(j.code).text))
    /\ \A b \in DOMAIN j.shown :
         LET lines == j.shown[b]
             code == parser[g].code[b] IN
         code.info /\ lines # None =>
           /\ Same(FlattenSeq([i \in DOMAIN lines |-> Values(lines[i])]), SpecialTrim(code.text))
           /\ \A i \in DOMAIN lines : \A k \in DOMAIN lines[i] :
                Ends(lines[i][k].value, k = Len(lines[i]))

\* Every page is made, unless the program panics; and it does so only for an empty code
\* block with a language, or when the rules of a lexer cannot be loaded and a second
\* one needs them (main.go:255-257, regexp.go:188-190, 404-416).
Excused(g) == /\ job[g].pc = "panicked"
              /\ \/ Head(job[g].code).text = <<>>
                 \/ FetchFails
PagesEnd == \A g \in Goroutines : <>(job[g].pc = "done" \/ \E h \in Goroutines : Excused(h))
=============================================================================
