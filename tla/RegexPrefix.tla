---------------------------- MODULE RegexPrefix ----------------------------
(***************************************************************************)
(* regexp2/syntax/prefix.go: what can be said of the start of every match, *)
(* so that the runner can skip positions: a set of characters, a string    *)
(* searched with Boyer-Moore tables, or an anchor.  For an expression that *)
(* is matched from right to left, strings and texts are reversed first,    *)
(* where the code runs through them with a negative bump.                  *)
(***************************************************************************)
EXTENDS RegexTree

CONSTANT MaxPrefixSize
ASSUME RegexPrefixAssumption == MaxPrefixSize \in Nat \ {0}

Smaller(a, b) == IF a < b THEN a ELSE b
Larger(a, b) == IF a > b THEN a ELSE b

None == [found |-> FALSE]

-----------------------------------------------------------------------------
(* getFirstCharsPrefix: the set of characters that can start a match.       *)

Fc(chars, plain, nullable, ci) ==
  [found |-> TRUE, chars |-> chars, plain |-> plain, nullable |-> nullable, ci |-> ci]
NullableFc == Fc({}, TRUE, TRUE, FALSE)

AddFc(r, fc, concatenate) ==
  IF ~r.found \/ ~fc.found \/ ~r.plain \/ ~fc.plain THEN None
  ELSE Fc(r.chars \cup fc.chars, TRUE,
          IF concatenate THEN r.nullable /\ fc.nullable ELSE r.nullable \/ fc.nullable,
          r.ci \/ fc.ci)

\* Children after the first one that takes a character do not count.
ConcatenateFc(r, fc) == IF r.found /\ r.nullable THEN AddFc(r, fc, TRUE) ELSE r
AlternateFc(r, fc) == AddFc(r, fc, FALSE)

\* kid[i] is what was found for the ith child.
FcOfNode(u, kid) ==
  LET fc == IF kid = <<>> THEN None ELSE kid[1] IN
  CASE u.t = "Concatenate" -> FromLeft(ConcatenateFc, fc, Tail(kid))
    [] u.t \in {"Alternate", "Testref"} -> FromLeft(AlternateFc, fc, Tail(kid))
    [] u.t = "Testgroup" -> FromLeft(AlternateFc, kid[2], SubSeq(kid, 3, Len(kid)))
    [] u.t \in {"Loop", "Lazyloop"} -> IF fc.found /\ u.m = 0 THEN [fc EXCEPT !.nullable = TRUE] ELSE fc
    [] u.t \in {"Group", "Capture", "Greedy"} -> fc
    [] u.t = "Multi" -> Fc({IF u.rtl THEN Last(u.str) ELSE Head(u.str)}, TRUE, FALSE, u.ci)
    [] u.t \in {"One", "Notone", "Set"} -> Fc(u.chars, u.plain, FALSE, u.ci)
    [] u.t \in {"Oneloop", "Onelazy", "Notoneloop", "Notonelazy", "Setloop", "Setlazy"} ->
         Fc(u.chars, u.plain, u.m = 0, u.ci)
    [] u.t = "Ref" -> Fc(Alphabet, TRUE, TRUE, FALSE)
    [] OTHER -> NullableFc

RECURSIVE CalculateFc(_)
CalculateFc(u) == Of(LAMBDA kid : FcOfNode(u, kid), Map(CalculateFc, u.kids))

AddLowercase(fc) == IF fc.ci /\ fc.plain THEN fc.chars \cup {Lower[c] : c \in fc.chars} ELSE fc.chars

PrefixOfFc(fc) == IF ~fc.found \/ fc.nullable \/ fc.chars = {} THEN None
                  ELSE [found |-> TRUE, chars |-> AddLowercase(fc), ci |-> fc.ci]
FirstCharsPrefix(root) == Of(PrefixOfFc, CalculateFc(root))

-----------------------------------------------------------------------------
(* getPrefix, getAnchors: the first node that is not skipped; rest are the  *)
(* nodes after it in the same concatenation.                                *)

Anchors == {"Bol", "Eol", "Boundary", "Beginning", "Start", "EndZ", "End"}

RECURSIVE Lead(_, _, _)
Lead(cur, rest, skipped) ==
  CASE cur.t = "Concatenate" -> Lead(Head(cur.kids), Tail(cur.kids), skipped)
    [] cur.t \in {"Greedy", "Capture"} -> Lead(cur.kids[1], <<>>, skipped)
    [] cur.t \in skipped /\ rest # <<>> -> Lead(Head(rest), Tail(rest), skipped)
    [] OTHER -> cur

Skipped == {"Empty", "Require", "Prevent"}

StrOfNode(u, max) ==
  LET str == CASE u.t \in {"One", "Multi"} -> u.str
               [] u.t \in {"Oneloop", "Onelazy"} -> [i \in 1 .. Smaller(u.m, max) |-> u.str[1]]
               [] OTHER -> <<>>
  IN [found |-> str # <<>>, ci |-> u.ci, str |-> SubSeq(str, 1, Smaller(Len(str), max))]
PrefixStr(root, max) == Of(LAMBDA u : StrOfNode(u, max), Lead(root, <<>>, Skipped \cup Anchors))

Anchor(root) == LET u == Lead(root, <<>>, Skipped) IN IF u.t \in Anchors THEN u.t ELSE "none"

-----------------------------------------------------------------------------
(* newBmPrefix and Scan, from left to right.                                *)

\* How many characters at the end of a are those at the end of b.
CommonEnd(a, b) ==
  LET same(n) == \A i \in 0 .. n - 1 : a[Len(a) - i] = b[Len(b) - i]
  IN CHOOSE n \in 0 .. Smaller(Len(a), Len(b)) : same(n) /\ (n < Len(a) /\ n < Len(b) => ~same(n + 1))

\* positive[i]: how far the pattern can be moved when i is the first position
\* from the right that does not match.
Positive(p) ==
  LET last == Len(p)
      inner(i) == {e \in 1 .. last - 1 : p[e] = p[last] /\ last - CommonEnd(p, SubSeq(p, 1, e)) = i}
  IN [i \in 1 .. last |-> IF i = last \/ inner(i) = {} THEN 1
                          ELSE last - (CHOOSE e \in inner(i) : \A f \in inner(i) : f <= e)]

\* negative[c]: how far it can be moved when c stands under its last position.
Negative(p) ==
  [c \in Alphabet |-> LET at == {e \in 1 .. Len(p) : p[e] = c}
                      IN IF at = {} THEN Len(p) ELSE Len(p) - (CHOOSE e \in at : \A f \in at : f <= e)]

\* The start (from 0) of the first p in text whose end is at test or later, or
\* -1.
RECURSIVE BmScan(_, _, _)
BmScan(bm, text, test) ==
  IF test > Len(text) THEN -1
  ELSE LET same == CommonEnd(bm.pattern, SubSeq(text, 1, test))
           i == Len(bm.pattern) - same
           ahead == bm.negative[text[test - same]] - same IN
       IF i = 0 THEN test - same
       ELSE Of(LAMBDA next : BmScan(bm, text, next),
               test + (IF same = 0 THEN ahead ELSE Larger(bm.positive[i], ahead)))

Mirrored(rtl, s) == IF rtl THEN Reverse(s) ELSE s
Folded(ci, s) == IF ci THEN [i \in DOMAIN s |-> Lower[s[i]]] ELSE s

NewBmPrefix(prefix, rtl) ==
  Of(LAMBDA p :
     [found |-> TRUE, pattern |-> p, positive |-> Positive(p), negative |-> Negative(p), ci |-> prefix.ci, rtl |-> rtl],
     Mirrored(rtl, Folded(prefix.ci, prefix.str)))

Scan(bm, text, index) ==
  LET from == IF bm.rtl THEN Len(text) - index ELSE index
      at == Of(LAMBDA t : BmScan(bm, t, from + Len(bm.pattern)), Mirrored(bm.rtl, Folded(bm.ci, text)))
  IN IF at = -1 THEN -1 ELSE IF bm.rtl THEN Len(text) - at ELSE at

\* With an anchor, one position is enough.
IsMatch(bm, text, index) ==
  LET t == Mirrored(bm.rtl, Folded(bm.ci, text))
      from == IF bm.rtl THEN Len(text) - index ELSE index
  IN IsPrefix(bm.pattern, SubSeq(t, from + 1, Len(t)))
============================================================================
