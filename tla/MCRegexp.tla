------------------------------ MODULE MCRegexp ------------------------------
(***************************************************************************)
(* Expressions and texts for RegexRunner.  A family of expressions is a    *)
(* sequence of trees as the parser reads them, for the options o.          *)
(***************************************************************************)
EXTENDS RegexRunner, RegexWriter

Chars == {"a", "b", "A", "-", "\n"}
LowerChar == [c \in Chars |-> IF c = "A" THEN "a" ELSE c]
LatinLetters == {"a", "b", "A"}

Plain == [rtl |-> FALSE, ci |-> FALSE]
Rtl == [rtl |-> TRUE, ci |-> FALSE]
IgnoreCase == [rtl |-> FALSE, ci |-> TRUE]
Reversed(o) == [o EXCEPT !.rtl = ~@]

a(o) == AddUnitOne("a", o)
b(o) == AddUnitOne("b", o)
dash(o) == AddUnitOne("-", o)
aORb(o) == AddUnitSet({"a", "b"}, FALSE, o)
NOTa(o) == AddUnitNotone("a", o)

Seqn(o, units) == Inner("Concatenate", o, units)
Group(o, branches) == Inner("Group", o, branches)
Cap(o, g, units) == InnerMN("Capture", o, <<Seqn(o, units)>>, g, -1)
Balance(o, g, h, units) == InnerMN("Capture", o, <<Seqn(o, units)>>, g, h)
Around(t, o, units) == Inner(t, o, <<Seqn(o, units)>>)
BackRef(o, g) == [Leaf("Ref", o) EXCEPT !.m = g]
IfGroup(o, g, branches) == InnerMN("Testref", o, branches, g, 0)
IfMatches(o, cond, branches) == Inner("Testgroup", o, <<cond>> \o branches)
TimesOf(o, lazy, mn, u) == InnerMN(IF lazy THEN "Lazyloop" ELSE "Loop", o, <<u>>, mn[1], mn[2])

Star == <<0, Inf>>
Plus == <<1, Inf>>
Opt == <<0, 1>>
OneTwo == <<1, 2>>
TwoMore == <<2, Inf>>
Quantifiers == <<Star, Plus, Opt, OneTwo, TwoMore, <<2, 2>>>>

\* All combinations f(x, y).
Each(xs, ys, f(_, _)) == FlattenSeq(Map(LAMBDA x : Map(LAMBDA y : f(x, y), ys), xs))
Both == <<FALSE, TRUE>>

\* Characters and classes with every quantifier, greedy and lazy.
Loops(o) ==
  LET units == <<a(o), aORb(o), NOTa(o)>>
      loops == Each(Quantifiers, Both, LAMBDA q, lazy : <<q, lazy>>)
  IN Each(units, loops, LAMBDA u, l : Seqn(o, <<TimesOf(o, l[2], l[1], u), b(o)>>))

\* Groups with every quantifier, the third of which may match nothing; and one
\* whose first branch may match nothing.
Groups(o) ==
  LET one == Cap(o, 1, <<aORb(o)>>)
      two == Group(o, <<Seqn(o, <<a(o), TimesOf(o, FALSE, Opt, b(o))>>), Seqn(o, <<b(o)>>)>>)
      three == Cap(o, 1, <<TimesOf(o, FALSE, Opt, a(o))>>)
      greedy(u) == [i \in DOMAIN Quantifiers |-> TimesOf(o, FALSE, Quantifiers[i], u)]
      lazy(u) == [i \in DOMAIN Quantifiers |-> Seqn(o, <<TimesOf(o, TRUE, Quantifiers[i], u), b(o)>>)]
      four == Group(o, <<Seqn(o, <<TimesOf(o, FALSE, Opt, a(o))>>), Seqn(o, <<dash(o)>>)>>)
  IN greedy(one) \o greedy(two) \o greedy(three) \o lazy(one) \o lazy(two) \o lazy(three) \o <<Seqn(o, <<four, b(o)>>)>>

\* Anchors and word boundaries before, after and between characters.
Anchoring(o) ==
  Each(<<"Beginning", "End", "EndZ", "Bol", "Eol", "Boundary", "Nonboundary", "Start">>, <<1, 2, 3>>,
       LAMBDA t, i : Seqn(o, <<<<Leaf(t, o), a(o)>>, <<a(o), Leaf(t, o)>>,
                               <<TimesOf(o, FALSE, Star, a(o)), Leaf(t, o)>>>>[i]))

\* Lookahead, lookbehind, and groups that give nothing back.
Lookaround(o) ==
  LET r == Reversed(o) IN
  <<Seqn(o, <<Around("Require", o, <<Cap(o, 1, <<a(o)>>)>>), aORb(o), b(o)>>),
    Seqn(o, <<Around("Prevent", o, <<Cap(o, 1, <<a(o)>>), b(o)>>), a(o)>>),
    Seqn(o, <<a(o), Around("Require", r, <<a(r), TimesOf(r, FALSE, Star, b(r))>>), b(o)>>),
    Seqn(o, <<Around("Prevent", r, <<a(r)>>), b(o)>>),
    Seqn(o, <<Around("Greedy", o, <<TimesOf(o, FALSE, Star, a(o))>>), a(o)>>),
    Seqn(o, <<Around("Greedy", o, <<Cap(o, 1, <<TimesOf(o, TRUE, Plus, aORb(o))>>)>>), b(o)>>),
    Seqn(o, <<TimesOf(o, FALSE, Star, Around("Greedy", o, <<Cap(o, 1, <<a(o)>>),
                                                            TimesOf(o, FALSE, Opt, b(o))>>)), b(o)>>)>>

\* References, conditions and balanced groups.
References(o) ==
  LET one == Cap(o, 1, <<aORb(o)>>)
      open == TimesOf(o, FALSE, Plus, Cap(o, 1, <<a(o)>>)) IN
  <<Seqn(o, <<one, BackRef(o, 1)>>),
    Seqn(o, <<TimesOf(o, FALSE, Plus, one), BackRef(o, 1)>>),
    Seqn(o, <<TimesOf(o, FALSE, Opt, Cap(o, 1, <<a(o)>>)), IfGroup(o, 1, <<Seqn(o, <<b(o)>>), Seqn(o, <<a(o)>>)>>)>>),
    Seqn(o, <<aORb(o), TimesOf(o, FALSE, Opt, Cap(o, 1, <<a(o)>>)), IfGroup(o, 1, <<Seqn(o, <<b(o)>>)>>), aORb(o)>>),
    IfMatches(o, Around("Require", o, <<Cap(o, 1, <<a(o)>>)>>), <<Seqn(o, <<aORb(o), b(o)>>), Seqn(o, <<b(o)>>)>>),
    Seqn(o, <<open, TimesOf(o, FALSE, Plus, Balance(o, -1, 1, <<b(o)>>)),
              IfGroup(o, 1, <<Leaf("Nothing", o)>>)>>),
    Seqn(o, <<open, TimesOf(o, FALSE, Plus, Balance(o, 2, 1, <<b(o)>>))>>),
    Seqn(o, <<open, Balance(o, 5, 1, <<b(o)>>), BackRef(o, 5)>>)>>

\* Strings, which are searched with tables, alone or before an alternative.
Str(o, s) == [i \in DOMAIN s |-> AddUnitOne(s[i], o)]
Strings(o) ==
  <<Seqn(o, Str(o, <<"a", "a", "b">>)), Seqn(o, Str(o, <<"a", "b", "a">>)),
    Seqn(o, Str(o, <<"b", "a", "a", "a">>)), Seqn(o, Str(o, <<"a", "b", "b", "a", "b">>)),
    Seqn(o, <<TimesOf(o, FALSE, TwoMore, a(o)), b(o)>>),
    Seqn(o, Str(o, <<"a", "b">>) \o <<Group(o, <<Seqn(o, <<a(o)>>), Seqn(o, <<dash(o)>>)>>)>>)>>

\* Quantifiers of quantified units, some of which the parser joins.
Nested(o) ==
  LET inner == <<OneTwo, <<2, 4>>, <<2, 3>>, Star>>
      outer == <<OneTwo, Plus, <<0, 2>>, <<2, 2>>>>
      of(lazy, q, i) == TimesOf(o, lazy, q, Group(o, <<Seqn(o, <<TimesOf(o, lazy, i, Cap(o, 1, <<a(o)>>))>>)>>))
  IN Each(outer, inner, LAMBDA q, i : of(FALSE, q, i)) \o Each(outer, inner, LAMBDA q, i : of(TRUE, q, i))

\* Expressions of the forms that FindsLeftmost excepts, and their neighbours.
Deviating(o) ==
  LET bOpt == TimesOf(o, FALSE, Opt, Cap(o, 1, <<b(o)>>))
      if(units) == IfGroup(o, 1, <<Seqn(o, units)>>)
      lazy(mn, u) == TimesOf(o, TRUE, mn, Group(o, <<Seqn(o, <<u>>)>>))
  IN <<Seqn(o, <<a(o), lazy(Plus, TimesOf(o, FALSE, Opt, b(o)))>>),
       Seqn(o, <<a(o), lazy(OneTwo, TimesOf(o, FALSE, Opt, b(o)))>>),
       Seqn(o, <<bOpt, if(<<a(o)>>), dash(o)>>),
       Seqn(o, <<dash(o), bOpt, if(<<a(o)>>), dash(o)>>),
       Seqn(o, Str(o, <<"a", "b", "b", "a", "b", "a">>)),
       Seqn(o, Str(o, <<"b", "a", "b", "b", "a", "b">>))>>

\* The expression with one branch, or a second one that is a dash.
Whole(o, u, more) ==
  InnerMN("Capture", o, <<IF u.t = "Concatenate" THEN u ELSE Seqn(o, <<u>>)>>
                        \o (IF more THEN <<Seqn(o, <<dash(o)>>)>> ELSE <<>>), 0, -1)

\* Families of expressions with the texts they are tried on.
Words(n) == UNION {[1 .. k -> {"a", "b"}] : k \in 0 .. n}
Cased == {<<"A", "a", "b">>, <<"b", "A", "b", "a">>}
Dashed == {<<"-", "b">>, <<"a", "-", "b">>}
Deviations == {<<"a">>, <<"a", "b">>, <<"-">>, <<"-", "-">>, <<"b", "a", "-">>, <<"-", "b", "a", "-">>,
               <<"b", "b", "a", "b", "b", "a", "b", "a">>}
Many == {[i \in 1 .. k |-> "a"] : k \in {1, 5}}
Long == {[i \in 1 .. 13 |-> "a"]}
Lines == {<<>>, <<"a">>, <<"a", "\n">>, <<"\n", "a", "b">>, <<"-", "a", "-", "a", "\n", "a">>, <<"\n", "\n">>}
Found == {<<"b", "a", "a", "b", "a", "a", "a", "b", "a">>, <<"a", "b", "a", "b", "b", "a", "b", "a", "a", "a", "a">>,
          <<"b", "b", "b">>, <<"A", "a", "b", "-", "a", "b">>}

Cases(trees, o, more, timed, texts) ==
  Map(LAMBDA u : [tree |-> Whole(o, u, more), timed |-> timed, texts |-> texts], trees)
BothWays(f(_), texts) == Cases(f(Plain), Plain, FALSE, FALSE, texts)
                         \o Cases(f(Rtl), Rtl, FALSE, FALSE, texts)
Folding(f(_), texts) == Cases(f(IgnoreCase), IgnoreCase, FALSE, FALSE, texts)

AllCases == BothWays(Loops, Words(2) \cup {<<"a", "a", "a", "b">>})
            \o BothWays(Groups, Words(2) \cup {<<"a", "b", "b", "a">>})
            \o BothWays(Anchoring, Lines)
            \o BothWays(Lookaround, Words(3))
            \o BothWays(References, Words(3) \cup {<<"a", "a", "b", "b">>})
            \o BothWays(Nested, Many) \o BothWays(Deviating, Deviations)
            \o BothWays(Strings, Found) \o Folding(Strings, Found)
            \o Folding(Loops, Cased) \o Folding(References, Cased)
            \o Cases(References(Plain), Plain, TRUE, TRUE, Dashed)
            \o Cases(SubSeq(Groups(Plain), 1, 2), Plain, FALSE, FALSE, Long)

InputsOf(cases) ==
  UNION {Of(LAMBDA re0 : {[re |-> re0, text |-> t] : t \in c.texts}, Compile(c.tree, c.timed))
           : c \in ToSet(cases)}
AllInputs == InputsOf(AllCases)
============================================================================
