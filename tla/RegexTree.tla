----------------------------- MODULE RegexTree -----------------------------
(***************************************************************************)
(* regexp2/syntax/tree.go: the nodes of a regular expression, and how      *)
(* parser.go puts them together, with every reduction on the way.          *)
(*                                                                         *)
(* What the parser has read is a tree of the same nodes: the children of a *)
(* group are its branches, Concatenate nodes whose children are units in   *)
(* the order of the pattern, and a quantified unit is a Loop or Lazyloop   *)
(* around it.  Build gives the tree the parser makes of it.                *)
(*                                                                         *)
(* A character class is the set of the characters it accepts; "plain"      *)
(* tells that it is not negated (subtraction is left out).                 *)
(***************************************************************************)
EXTENDS Integers, Sequences, FiniteSets, SequencesExt

CONSTANTS Alphabet,   \* the characters
          Lower       \* Lower[c]: unicode.ToLower(c)

ASSUME RegexTreeAssumption == Lower \in [Alphabet -> Alphabet]

Inf == 2147483647     \* math.MaxInt32

\* f of a value, f of every element of a sequence, and op from the left.  The
\* value is bound to a variable, so that it is computed once.
Of(f(_), x) == CHOOSE r \in {f(v) : v \in {x}} : TRUE
Map(f(_), s) == Of(LAMBDA t : [i \in DOMAIN t |-> f(t[i])] \o <<>>, s)
FromLeft(op(_, _), base, s) ==
  Of(LAMBDA t : FoldLeft(LAMBDA acc, x : Of(LAMBDA v : op(v, x), acc), base, t), s)

\* o holds the two options a node keeps: RightToLeft and IgnoreCase.
Leaf(t, o) == [t |-> t, rtl |-> o.rtl, ci |-> o.ci, chars |-> {}, plain |-> TRUE, str |-> <<>>,
               m |-> 0, n |-> 0, kids |-> <<>>]
Inner(t, o, kids) == [Leaf(t, o) EXCEPT !.kids = kids]
InnerMN(t, o, kids, m, n) == [Inner(t, o, kids) EXCEPT !.m = m, !.n = n]

ToLower(o, chars) == IF o.ci THEN {Lower[c] : c \in chars} ELSE chars

AddUnitOne(ch, o) == LET c == IF o.ci THEN Lower[ch] ELSE ch
                     IN [Leaf("One", o) EXCEPT !.chars = {c}, !.str = <<c>>]
AddUnitNotone(ch, o) == [Leaf("Notone", o) EXCEPT !.chars = Alphabet \ ToLower(o, {ch})]
AddUnitSet(chars, not, o) ==
  [Leaf("Set", o) EXCEPT !.plain = ~not,
                         !.chars = IF not THEN Alphabet \ ToLower(o, chars) ELSE ToLower(o, chars)]

-----------------------------------------------------------------------------
Options(u) == <<u.rtl, u.ci>>
NotOne == <<>>      \* the last child is none that could be merged with the next

\* Children of the same type are taken up, in their place.
RECURSIVE Flatten(_, _, _)
Flatten(kids, t, rtl) ==
  LET same(k) == k.t = t /\ (t = "Concatenate" => k.rtl = rtl)
  IN FlattenSeq(Map(LAMBDA k : IF same(k) THEN Flatten(k.kids, t, rtl) ELSE <<k>>, kids))

StripEnation(u, empty) == CASE Len(u.kids) = 0 -> Leaf(empty, u)
                            [] Len(u.kids) = 1 -> u.kids[1]
                            [] OTHER -> u

(* Single characters and classes side by side become one class. *)

AddAlternative(acc, at) ==
  LET merges == acc.last = Options(at) /\ at.plain IN
  CASE at.t = "Nothing" -> acc
    [] at.t \in {"Set", "One"} /\ merges ->
         [acc EXCEPT !.out[Len(acc.out)] = [@ EXCEPT !.t = "Set", !.chars = @ \cup at.chars]]
    [] OTHER -> [out |-> Append(acc.out, at),
                 last |-> IF at.t \in {"Set", "One"} /\ at.plain THEN Options(at) ELSE NotOne]

ReduceAlternation(u) ==
  LET kids == Flatten(u.kids, "Alternate", u.rtl)
      acc == FromLeft(AddAlternative, [out |-> <<>>, last |-> NotOne], kids)
  IN Of(LAMBDA v : StripEnation(v, "Nothing"), [u EXCEPT !.kids = acc.out])

(* Strings and characters side by side become one string, which reads from   *)
(* left to right even if it is matched from right to left.                   *)

AddSide(acc, at) ==
  [acc EXCEPT !.out[Len(acc.out)] =
     [@ EXCEPT !.t = "Multi", !.str = IF at.rtl THEN at.str \o @ ELSE @ \o at.str]]

AddString(acc, at) ==
  CASE at.t = "Empty" -> acc
    [] at.t \in {"Multi", "One"} /\ acc.last = Options(at) -> AddSide(acc, at)
    [] OTHER -> [out |-> Append(acc.out, at),
                 last |-> IF at.t \in {"Multi", "One"} THEN Options(at) ELSE NotOne]

ReduceConcatenation(u) ==
  LET kids == Flatten(u.kids, "Concatenate", u.rtl)
      acc == FromLeft(AddString, [out |-> <<>>, last |-> NotOne], kids)
  IN Of(LAMBDA v : StripEnation(v, "Empty"), [u EXCEPT !.kids = acc.out])

(* Nested repeaters are multiplied if they are not too lumpy. *)

Blurs(t, child) == \/ child.t = t
                   \/ t = "Loop" /\ child.t \in {"Oneloop", "Notoneloop", "Setloop"}
                   \/ t = "Lazyloop" /\ child.t \in {"Onelazy", "Notonelazy", "Setlazy"}

TooLumpy(u, child) == (u.m = 0 /\ child.m > 1) \/ child.n < child.m * 2

Times(a, b) == CASE a = 0 -> 0
                 [] a > 0 /\ (Inf - 1) \div a < b -> Inf
                 [] OTHER -> a * b

RECURSIVE Blur(_, _)
Blur(u, rep) ==
  IF u.kids = <<>> \/ ~Blurs(rep.t, u.kids[1]) \/ TooLumpy(u, u.kids[1])
  THEN u
  ELSE Blur([u.kids[1] EXCEPT !.m = Times(@, rep.m), !.n = Times(@, rep.n)], rep)

ReduceRep(u) == IF u.m = Inf THEN Leaf("Nothing", u) ELSE Blur(u, u)

RECURSIVE ReduceGroup(_)
ReduceGroup(u) == IF u.t = "Group" THEN ReduceGroup(u.kids[1]) ELSE u

\* A class of one character, or of all but one.
ReduceClass(u) ==
  CASE u.plain /\ Cardinality(u.chars) = 1 ->
         [u EXCEPT !.t = IF u.t = "Set" THEN "One" ELSE "Oneloop", !.str = SetToSeq(u.chars)]
    [] ~u.plain /\ Cardinality(Alphabet \ u.chars) = 1 ->
         [u EXCEPT !.t = IF u.t = "Set" THEN "Notone" ELSE "Notoneloop", !.plain = TRUE]
    [] OTHER -> u

Reduce(u) == CASE u.t = "Alternate" -> ReduceAlternation(u)
               [] u.t = "Concatenate" -> ReduceConcatenation(u)
               [] u.t \in {"Loop", "Lazyloop"} -> ReduceRep(u)
               [] u.t = "Group" -> ReduceGroup(u)
               [] u.t \in {"Set", "Setloop"} -> ReduceClass(u)
               [] OTHER -> u

MakeRep(u, lazy, m, n) ==
  LET t == IF lazy THEN [One |-> "Onelazy", Notone |-> "Notonelazy", Set |-> "Setlazy"]
                   ELSE [One |-> "Oneloop", Notone |-> "Notoneloop", Set |-> "Setloop"]
  IN [u EXCEPT !.t = t[u.t], !.m = m, !.n = n]

MakeQuantifier(u, lazy, m, n) ==
  CASE m = 0 /\ n = 0 -> Leaf("Empty", u)
    [] m = 1 /\ n = 1 -> u
    [] u.t \in {"One", "Notone", "Set"} -> MakeRep(u, lazy, m, n)
    [] OTHER -> InnerMN(IF lazy THEN "Lazyloop" ELSE "Loop", u, <<Reduce(u)>>, m, n)

-----------------------------------------------------------------------------
(* addConcatenate, addAlternate, addGroup, popGroup.                        *)

ReverseLeft(u) == IF u.rtl THEN [u EXCEPT !.kids = Reverse(@)] ELSE u

RECURSIVE Build(_)
AddConcatenate(u) == [u EXCEPT !.kids = Map(Reduce, Map(Build, @))]
AddAlternate(u) == Of(Reduce, Of(ReverseLeft, AddConcatenate(u)))
AddGroup(u) ==
  LET branches == Map(LAMBDA k : IF k.t = "Concatenate" THEN AddAlternate(k) ELSE Of(Reduce, Build(k)),
                      u.kids)
  IN IF u.t \in {"Testref", "Testgroup"}
     THEN [u EXCEPT !.kids = branches]
     ELSE [u EXCEPT !.kids = <<Of(Reduce, Inner("Alternate", u.kids[1], branches))>>]
Build(u) ==
  CASE u.t \in {"Loop", "Lazyloop"} -> Of(LAMBDA k : MakeQuantifier(k, u.t = "Lazyloop", u.m, u.n), Build(u.kids[1]))
    [] u.kids = <<>> -> u
    [] OTHER -> AddGroup(u)
============================================================================
