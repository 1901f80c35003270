-------------------------- MODULE RegexSemantics --------------------------
(***************************************************************************)
(* What a regular expression means, without code or stacks: the ways to    *)
(* match it at a position, best first, each with the position it ends at   *)
(* and the captures made.  It is defined on the tree as read, before any   *)
(* of tree.go's reductions, and follows the documentation of the .NET      *)
(* syntax that regexp2 implements.                                         *)
(***************************************************************************)
EXTENDS RegexTree

CONSTANT WordChars      \* those of \w
NewLine == "\n"

Result(pos, caps) == [pos |-> pos, caps |-> caps]

\* Whether the character n steps ahead of pos is one that u accepts.
Ahead(u, text, pos) == IF u.rtl THEN pos ELSE Len(text) - pos
CharAhead(u, text, pos, n) == LET c == text[IF u.rtl THEN pos - n + 1 ELSE pos + n]
                              IN IF u.ci THEN Lower[c] ELSE c
Moved(u, pos, n) == IF u.rtl THEN pos - n ELSE pos + n

IsWord(text, i) == i \in DOMAIN text /\ text[i] \in WordChars
Holds(t, text, pos, start) ==
  CASE t = "Beginning" -> pos = 0
    [] t = "End" -> pos = Len(text)
    [] t = "EndZ" -> pos = Len(text) \/ (pos = Len(text) - 1 /\ Last(text) = NewLine)
    [] t = "Bol" -> pos = 0 \/ text[pos] = NewLine
    [] t = "Eol" -> pos = Len(text) \/ text[pos + 1] = NewLine
    [] t = "Boundary" -> IsWord(text, pos) # IsWord(text, pos + 1)
    [] t = "Nonboundary" -> IsWord(text, pos) = IsWord(text, pos + 1)
    [] t = "Start" -> pos = start
    [] OTHER -> FALSE

\* A group refers to its last capture.
SameAhead(u, text, pos, cap) ==
  /\ cap[2] <= Ahead(u, text, pos)
  /\ LET from == IF u.rtl THEN pos - cap[2] ELSE pos
         fold(c) == IF u.ci THEN Lower[c] ELSE c
     IN \A i \in 1 .. cap[2] : fold(text[cap[1] + i]) = fold(text[from + i])

\* What lies between two captures, or what they share.
Between(s, e, cap) ==
  LET s2 == cap[1] e2 == cap[1] + cap[2] IN
  CASE s >= e2 -> <<e2, s - e2>>
    [] e <= s2 -> <<s2, e - s2>>
    [] OTHER -> LET f == IF s2 > s THEN s2 ELSE s l == IF e > e2 THEN e2 ELSE e IN <<f, l - f>>

\* Group u ends at r.pos after it began at pos; (?<m-n>) takes back a capture
\* of n, and fails if there is none.
Captured(u, pos, r) ==
  LET s == IF pos < r.pos THEN pos ELSE r.pos
      e == IF pos < r.pos THEN r.pos ELSE pos
      new == IF u.n = -1 THEN <<s, e - s>> ELSE Between(s, e, Last(r.caps[u.n]))
      less == IF u.n = -1 THEN r.caps ELSE [r.caps EXCEPT ![u.n] = Front(@)]
  IN Result(r.pos, IF u.m = -1 THEN less ELSE [less EXCEPT ![u.m] = Append(@, new)])

Flat(f(_), s) == Of(FlattenSeq, Map(f, s))
FirstOf(results) == SubSeq(results, 1, IF results = <<>> THEN 0 ELSE 1)
Back(pos, results) == Map(LAMBDA w : [w EXCEPT !.pos = pos], results)
Unless(results, r) == IF results = <<>> THEN <<r>> ELSE <<>>

RECURSIVE Ways(_, _, _, _), Sequel(_, _, _, _), Repeat(_, _, _, _, _, _)

\* The children one after the other.
Sequel(kids, r, text, start) ==
  IF kids = <<>> THEN <<r>>
  ELSE Flat(LAMBDA w : Sequel(Tail(kids), w, text, start), Ways(Head(kids), r, text, start))

\* After k turns of a quantified unit, the last of which was empty or not.
Repeat(u, k, empty, r, text, start) ==
  LET turns == Ways(u.kids[1], r, text, start)
      again == Flat(LAMBDA w : Repeat(u, k + 1, w.pos = r.pos, w, text, start), turns) IN
  CASE k < u.m -> again
    [] k >= u.m /\ (k >= u.n \/ empty) -> <<r>>
    [] OTHER -> IF u.t = "Lazyloop" THEN <<r>> \o again ELSE again \o <<r>>

Ways(u, r, text, start) ==
  LET branches == Flat(LAMBDA k : Ways(k, r, text, start), u.kids)
      set == r.caps[u.m] # <<>> IN
  CASE u.t = "Empty" -> <<r>>
    [] u.t \in {"One", "Notone", "Set"} ->
         IF Ahead(u, text, r.pos) > 0 /\ CharAhead(u, text, r.pos, 1) \in u.chars
         THEN <<[r EXCEPT !.pos = Moved(u, @, 1)]>> ELSE <<>>
    [] u.t = "Ref" -> IF set /\ SameAhead(u, text, r.pos, Last(r.caps[u.m]))
                      THEN <<[r EXCEPT !.pos = Moved(u, @, Last(r.caps[u.m])[2])]>> ELSE <<>>
    [] u.t = "Concatenate" -> Sequel(ReverseLeft(u).kids, r, text, start)
    [] u.t \in {"Loop", "Lazyloop"} -> Repeat(u, 0, FALSE, r, text, start)
    [] u.t = "Group" -> branches
    [] u.t = "Capture" ->
         LET ends == SelectSeq(branches, LAMBDA w : u.n = -1 \/ w.caps[u.n] # <<>>)
         IN Map(LAMBDA w : Captured(u, r.pos, w), ends)
    [] u.t = "Greedy" -> Of(FirstOf, branches)
    [] u.t = "Require" -> Back(r.pos, FirstOf(branches))
    [] u.t = "Prevent" -> Unless(branches, r)
    [] u.t = "Testref" -> IF set THEN Ways(u.kids[1], r, text, start)
                          ELSE IF Len(u.kids) = 1 THEN <<r>> ELSE Ways(u.kids[2], r, text, start)
    [] u.t = "Testgroup" ->
         LET cond == Back(r.pos, FirstOf(Ways(u.kids[1], r, text, start))) IN
         IF cond # <<>> THEN Ways(u.kids[2], cond[1], text, start)
         ELSE IF Len(u.kids) = 2 THEN <<r>> ELSE Ways(u.kids[3], r, text, start)
    [] OTHER -> IF Holds(u.t, text, r.pos, start) THEN <<r>> ELSE <<>>

\* The match whose start comes first, searching from start in u's direction.
NoMatch == <<>>
LeftmostFirst(u, groups, text, start) ==
  LET none == [g \in groups |-> <<>>]
      at(pos) == Ways(u, Result(pos, none), text, start)
      starts == {p \in (IF u.rtl THEN 0 .. start ELSE start .. Len(text)) : at(p) # <<>>}
      first(found) == IF u.rtl THEN Max(found) ELSE Min(found)
      result(found) == IF found = {} THEN NoMatch ELSE Head(at(first(found))).caps
  IN Of(result, starts)
============================================================================
