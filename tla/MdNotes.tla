------------------------------ MODULE MdNotes ------------------------------
(***************************************************************************)
(* markdown/parser: what a parser does with the footnotes of a document    *)
(* (parser.go, and link in inline.go), a block or an item at a time.       *)
(*                                                                         *)
(* A document is a sequence of blocks: "para" and "cell" (of a table) with *)
(* their items, "code", and "def", the definition of a footnote, which has *)
(* the items of one line, or further blocks below it.  An item is "text",  *)
(* "ref" (a footnote deferred), or "note" (an inline footnote; its slug is *)
(* what its text makes for a link).  What depth the nesting may have is    *)
(* never reached.                                                          *)
(***************************************************************************)
EXTENDS Naturals, SequencesExt, FiniteSetsExt

CONSTANTS Labels,   \* of footnotes, in lower case
          Items,    \* what texts consist of
          Blocks,   \* what documents consist of
          Pages     \* the parsers at work

ASSUME NotesAssumption ==
  /\ \A i \in Items : \/ i.k = "text"
                      \/ i.k = "ref" /\ i.label \in Labels
                      \/ i.k = "note" /\ i.items \in Seq(Items)
  /\ \A b \in Blocks : \/ b.k \in {"para", "cell"} /\ b.items \in Seq(Items)
                       \/ b.k = "code"
                       \/ b.k = "def" /\ b.label \in Labels /\ b.block = FALSE /\ b.body \in Seq(Items)
                       \/ b.k = "def" /\ b.label \in Labels /\ b.block = TRUE /\ b.body \in Seq(Blocks)

VARIABLE parser   \* per page, the Parser p

\* blocks, items, paras: what Block, Inline and the walk have still to come to.  objs: the
\* references that were made; refs and notes are indices of them, 0 for none.  made: the
\* links so far, with the number they show.  said: history: the references whose text is
\* in the list.
NewParser(doc) ==
  [phase |-> "block", doc |-> doc, blocks |-> doc, items |-> <<>>, paras |-> <<>>, code |-> <<>>,
   objs |-> <<>>, refs |-> [l \in Labels |-> 0], notes |-> <<>>, record |-> {},
   listed |-> <<>>, made |-> <<>>, said |-> <<>>]

\* isReference, scanFootnote: the number is a placeholder until there is a link.
Define(p, b) ==
  [p EXCEPT !.objs = Append(@, [link |-> b.label, number |-> 1, block |-> b.block, body |-> b.body]),
            !.refs[b.label] = Len(p.objs) + 1]
\* Block: a block as far as notes are concerned.  "code" stands for that which codeSpan
\* finds in inline text (inline.go:186-193), too, where its paragraph begins.
Block(p, b) == CASE b.k = "def" -> Define(p, b)
                 [] b.k \in {"para", "cell"} -> [p EXCEPT !.paras = Append(@, b)]
                 [] b.k = "code" -> [p EXCEPT !.code = Append(@, b)]

\* Mutant: numbers begin at 0.
NumberFromZero(p, o) == [p EXCEPT !.objs[o].number = Len(p.notes), !.notes = Append(@, o),
                                  !.record = @ \cup {p.objs[o].link}]
\* link: a note that is referred to for the first time gets the next number.  What
\* is recorded is its link.
Number(p, o) == [p EXCEPT !.objs[o].number = Len(p.notes) + 1, !.notes = Append(@, o),
                          !.record = @ \cup {p.objs[o].link}]
Made(p, to, o) == [p EXCEPT !.made = Append(@, [to |-> to, number |-> p.objs[o].number])]
\* Mutant: every reference makes a number.
DeferredAnew(p, label) ==
  LET o == p.refs[label] IN IF o = 0 THEN p ELSE Made(Number(p, o), label, o)
Deferred(p, label) ==
  LET o == p.refs[label] IN
  CASE o = 0 -> p
    [] o # 0 /\ p.objs[o].link \in p.record -> Made(p, label, o)
    [] OTHER -> Made(Number(p, o), label, o)
InlineNote(p, item) ==
  LET o == Len(p.objs) + 1
      q == [p EXCEPT !.objs = Append(@, [link |-> item.slug, number |-> 0, block |-> FALSE, body |-> item.items])]
  IN Made(Number(q, o), item.slug, o)

\* Inline
Inline(p, item) == CASE item.k = "ref" -> Deferred(p, item.label)
                     [] item.k = "note" -> InlineNote(p, item)
                     [] item.k = "text" -> p

-----------------------------------------------------------------------------
(* Parse.                                                                   *)

NextItem(p) == Inline([p EXCEPT !.items = Tail(@)], Head(p.items))
NextBlock(p) == Block([p EXCEPT !.blocks = Tail(@)], Head(p.blocks))

Walked(p) == IF p.paras = <<>> THEN [p EXCEPT !.phase = "list"]
           ELSE [p EXCEPT !.paras = Tail(@), !.items = Head(p.paras).items]

\* parseRefsToAST, a turn of its loop.  The paragraphs of a note with blocks are left
\* for the walk after it.
Enlisted(p, o) == [p EXCEPT !.listed = Append(@, o), !.said = Append(@, o)]
List(p) ==
  IF Len(p.listed) = Len(p.notes) THEN [p EXCEPT !.phase = "late"]
  ELSE LET o == p.notes[Len(p.listed) + 1] IN
       IF p.objs[o].block THEN [Enlisted(p, o) EXCEPT !.blocks = p.objs[o].body]
                          ELSE [Enlisted(p, o) EXCEPT !.items = p.objs[o].body]

\* The walk over the list leaves out the cells of tables.
Late(p) == IF p.paras = <<>> THEN [p EXCEPT !.phase = "done"]
           ELSE [p EXCEPT !.paras = Tail(@),
                          !.items = IF Head(p.paras).k = "para" THEN Head(p.paras).items ELSE <<>>]

ParseOn(p) == CASE p.items # <<>> -> NextItem(p)
                [] p.items = <<>> /\ p.blocks # <<>> -> NextBlock(p)
                [] OTHER -> CASE p.phase = "block" -> [p EXCEPT !.phase = "walk"]
                              [] p.phase = "walk" -> Walked(p)
                              [] p.phase = "list" -> List(p)
                              [] p.phase = "late" -> Late(p)

NotesInit == \E docs \in [Pages -> Seq(Blocks)] : parser = [g \in Pages |-> NewParser(docs[g])]
NotesNext == \E g \in Pages : /\ parser[g].phase # "done"
                              /\ parser' = [parser EXCEPT ![g] = ParseOn(@)]
NotesSpec == NotesInit /\ [][NotesNext]_parser
-----------------------------------------------------------------------------
\* No inline footnote makes a link that is a label, and no note defines another one.
Distinct ==
  /\ \A i \in Items : i.k = "note" => i.slug \notin Labels
  /\ \A b \in Blocks : b.k = "def" /\ b.block => \A i \in DOMAIN b.body : b.body[i].k # "def"

\* The number a reference shows is that of the note in the list it refers to, in
\* whatever order they are met (inline.go:541-655, parser.go:349-392).
NumbersAgree ==
  Distinct => \A g \in Pages : \A i \in DOMAIN parser[g].made :
    LET p == parser[g]
        m == p.made[i] IN
    m.number \in DOMAIN p.notes /\ p.objs[p.notes[m.number]].link = m.to

Refs(items) == {items[i].label : i \in {i \in DOMAIN items : items[i].k = "ref"}}
Defined(p) == {p.doc[i].label : i \in {i \in DOMAIN p.doc : p.doc[i].k = "def"}}
Listed(p, labels) == \A l \in labels : \E i \in DOMAIN p.listed : p.listed[i] = p.refs[l]

\* When a page is parsed no footnote is in the list twice, though the list grows while it
\* is written and notes refer to each other.  It has every one that is defined and referred
\* to from the text, or from a note of one line that is in the list itself
\* (parser.go:361-379).  Those first referred to in a note of blocks come too late for it.
NotesListed ==
  \A g \in Pages :
    LET p == parser[g] IN
    p.phase \in {"late", "done"} =>
      /\ IsInjective(p.said)
      /\ Distinct =>
           /\ \A i \in DOMAIN p.doc :
                p.doc[i].k \in {"para", "cell"} => Listed(p, Refs(p.doc[i].items) \cap Defined(p))
           /\ \A i \in DOMAIN p.listed :
                ~p.objs[p.listed[i]].block => Listed(p, Refs(p.objs[p.listed[i]].body) \cap Defined(p))
=============================================================================
