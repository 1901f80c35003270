------------------------------- MODULE MCPage -------------------------------
(***************************************************************************)
(* Pages of one goroutine with all small documents of footnotes, or with a *)
(* block of code in every short text; and of two goroutines with code each. *)
(* Text is of "a" and "q", "z", "p", for which the rules have a use, and    *)
(* ends of lines.                                                          *)
(***************************************************************************)
EXTENDS Page

CONSTANTS g1, g2

Rule(mut, pattern, emit) == [mut |-> mut, pattern |-> pattern, emit |-> emit]
NoMut == [op |-> "none", of |-> 0]
Only(state) == Rule([op |-> "include", of |-> state], <<>>, [by |-> "nothing"])
One(c) == [chars |-> {c}, many |-> FALSE, least |-> 1]
Run(c) == [chars |-> {c}, many |-> TRUE, least |-> 1]
Opt(c) == [chars |-> {c}, many |-> TRUE, least |-> 0]
As(t) == [by |-> "type", type |-> t]

\* States that include each other's rules, groups with and without a rule of their own,
\* a state that ends when nothing matches, and one that pops the last state.
Good ==
  ( <<"root">> :> << Only(<<"basic">>),
      Rule([op |-> "push", of |-> <<<<"str">>>>], <<One("q")>>, As("String")),
      Rule([op |-> "combine", of |-> <<<<"basic">>, <<"str">>>>], <<One("z"), Opt("a")>>,
           [by |-> "groups", of |-> <<As("Keyword"), [by |-> "self", state |-> <<"str">>]>>]),
      Rule([op |-> "pop", of |-> 1], <<One("p")>>, As("Punct")) >> )
  @@ ( <<"basic">> :> << Only(<<"space">>), Rule(NoMut, <<Run("a")>>, As("Name")) >> )
  @@ ( <<"space">> :> << Rule(NoMut, <<Run("n")>>, As("Text")) >> )
  @@ ( <<"str">> :>
    << Rule([op |-> "all", of |-> <<[op |-> "pop", of |-> 1], [op |-> "push", of |-> <<<<"args">>>>]>>],
            <<One("q")>>, As("String")),
       Rule(NoMut, <<One("z"), Opt("p")>>, [by |-> "groups", of |-> <<As("Keyword")>>]),
       Rule(NoMut, <<Run("a")>>, As("String")) >> )
  @@ ( <<"args">> :> << Rule(NoMut, <<One("a")>>, As("Name")),
                        Rule([op |-> "push", of |-> <<<<"#pop">>>>], <<>>, [by |-> "nothing"]) >> )
WithoutSpace == [s \in DOMAIN Good \ {<<"space">>} |-> Good[s]]
BadPatterns == [Good EXCEPT ![<<"str">>][1].pattern = None]
RootLess == [s \in DOMAIN Good \ {<<"root">>} |-> Good[s]]

\* Of a template: code between "q"s, and the HTML around it, of which a token may go on
\* behind the code.
Template ==
  ( <<"root">> :> << Rule([op |-> "push", of |-> <<<<"code">>>>], <<One("q")>>, As("Punct")),
                     Rule(NoMut, <<Run("a")>>, As("Other")), Rule(NoMut, <<[Run("n") EXCEPT !.chars = {"n", "p"}]>>, As("Other")) >> )
  @@ ( <<"code">> :> << Rule(NoMut, <<Run("a")>>, As("Name")),
                        Rule([op |-> "pop", of |-> 1], <<One("q"), Opt("p")>>,
                             [by |-> "groups", of |-> <<As("Punct"), As("Other")>>]) >> )
MCHTML == <<"root">> :> << Rule(NoMut, <<Run("a")>>, As("Name")), Rule(NoMut, <<One("n"), Opt("a")>>, As("Text")) >>

AllFiles == [good |-> Good, template |-> Template, gone |-> WithoutSpace, bad |-> BadPatterns, rootless |-> RootLess, none |-> None]

Code(info, text) == [k |-> "code", info |-> info, text |-> text]
Texts3 == UNION {[1 .. n -> {"a", "q", "z", "p", "n"}] : n \in 0 .. 3}
Alone(doc, file, ensureNL) == [docs |-> (g1 :> doc) @@ (g2 :> None), file |-> file, ensureNL |-> ensureNL,
                               delegates |-> file = "template"]
Texts4 == UNION {[1 .. n -> {"a", "q", "n"}] : n \in 0 .. 4}
Templates == {Alone(<<Code(TRUE, Append(text, "n"))>>, "template", ensureNL) :
              text \in Texts4 \cup [1 .. 3 -> {"a", "q", "p"}], ensureNL \in BOOLEAN}
CodeAlone == {Alone(<<Code(TRUE, Append(text, "n"))>>, "good", ensureNL) : text \in Texts3, ensureNL \in BOOLEAN}
\* Blocks in inline text, which begin with an end of line and need not end in one.
Inlined == {Alone(<<Code(TRUE, <<"n">> \o text \o <<c>>)>>, "good", FALSE) :
            text \in UNION {[1 .. n -> {"a", "q", "n"}] : n \in 0 .. 2}, c \in {"a", "q"}}

Ref(l) == [k |-> "ref", label |-> l]
Note(items) == [k |-> "note", slug |-> "slug", items |-> items]
Contents == {<<>>, <<[k |-> "text"]>>} \cup {<<i>> : i \in {Ref("x"), Ref("y"), Note(<<>>), Note(<<Ref("x")>>)}}
         \cup {<<Ref(l), Ref(m)>> : l, m \in {"x", "y"}}
Para(items) == [k |-> "para", items |-> items]
Said == Contents \ {<<>>}
Lined(l) == {[k |-> "def", label |-> l, block |-> FALSE, body |-> items] : items \in Said}
Blocked(l) == {[k |-> "def", label |-> l, block |-> TRUE, body |-> <<Para(items), [k |-> "cell", items |-> items]>>] :
               items \in Said}
Notes == {Alone(<<Para(a), x, y, [k |-> "cell", items |-> b]>>, "good", FALSE) :
          a \in Contents \ {<<[k |-> "text"]>>}, b \in {<<>>, <<Ref("y")>>}, x \in Lined("x") \cup Blocked("x"), y \in Lined("x") \cup Lined("y") \cup Blocked("y")}

CodeDocs == { <<Code(TRUE, <<"a", "n">>)>>, <<Code(TRUE, <<>>)>>,
              <<Code(FALSE, <<"n", "a", "n">>), Code(TRUE, <<"z", "a", "n">>)>>,
              <<Para(<<Ref("x")>>), Code(TRUE, <<"q", "n">>),
                [k |-> "def", label |-> "x", block |-> TRUE, body |-> <<Code(TRUE, <<"a", "n">>)>>]>> }
CodePairs == {[docs |-> (g1 :> d1) @@ (g2 :> d2), file |-> file, ensureNL |-> TRUE, delegates |-> FALSE] :
              d1 \in CodeDocs, d2 \in CodeDocs, file \in DOMAIN AllFiles \ {"template"}}

AllCases == Notes \cup CodeAlone \cup Inlined \cup Templates \cup CodePairs

MCItems == UNION {ToSet(items) : items \in Contents}
Top == UNION {UNION {ToSet(case.docs[g]) : g \in {g \in Goroutines : case.docs[g] # None}} : case \in AllCases}
MCBlocks == Top \cup UNION {ToSet(b.body) : b \in {b \in Top : b.k = "def" /\ b.block}}
=============================================================================
