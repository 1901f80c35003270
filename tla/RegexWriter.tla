---------------------------- MODULE RegexWriter ----------------------------
(***************************************************************************)
(* regexp2/syntax/writer.go: the code for a tree.  An instruction is a     *)
(* record; a is its first operand, n its second, and the character, class  *)
(* or string is in chars and str.  Where a is the target of a jump it is   *)
(* relative until CodeFromTree makes a position of it.                     *)
(***************************************************************************)
EXTENDS RegexPrefix

Op(op) == [op |-> op, rtl |-> FALSE, ci |-> FALSE, a |-> 0, n |-> 0, chars |-> {}, str |-> <<>>]
Emit(op) == <<Op(op)>>
Emit1(op, a) == <<[Op(op) EXCEPT !.a = a]>>
Emit2(op, a, n) == <<[Op(op) EXCEPT !.a = a, !.n = n]>>

\* Instructions with a character, a class, a string or a group.
Bits(op, u, n) == <<[op |-> op, rtl |-> u.rtl, ci |-> u.ci, a |-> u.m, n |-> n,
                     chars |-> u.chars, str |-> u.str]>>

\* A repeated character or class: what it needs, and what it may take.
EmitRep(op, rep, u) ==
  (IF u.m > 0 THEN Bits(rep, u, u.m) ELSE <<>>)
  \o (IF u.n > u.m THEN Bits(op, u, IF u.n = Inf THEN Inf ELSE u.n - u.m) ELSE <<>>)

EmitAlternate(first, rest) ==
  Emit1("Lazybranch", Len(first) + 2) \o first \o Emit1("Goto", Len(rest) + 1) \o rest

Counts(u) == u.n < Inf \/ u.m > 1
EmitMark(u) == CASE Counts(u) /\ u.m = 0 -> Emit1("Nullcount", 0)
                 [] Counts(u) /\ u.m > 0 -> Emit1("Setcount", 1 - u.m)
                 [] ~Counts(u) /\ u.m = 0 -> Emit("Nullmark")
                 [] OTHER -> Emit("Setmark")
EmitBranch(u, back) ==
  LET lazy == u.t = "Lazyloop" IN
  IF Counts(u)
  THEN Emit2(IF lazy THEN "Lazybranchcount" ELSE "Branchcount", -back,
             IF u.n = Inf THEN Inf ELSE u.n - u.m)
  ELSE Emit1(IF lazy THEN "Lazybranchmark" ELSE "Branchmark", -back)
EmitLoop(u, body) == EmitMark(u) \o (IF u.m = 0 THEN Emit1("Goto", Len(body) + 1) ELSE <<>>)
                     \o body \o EmitBranch(u, Len(body))

EmitTestref(u, yes, no) ==
  Emit("Setjump") \o Emit1("Lazybranch", Len(yes) + 4) \o Bits("Testref", u, 0) \o Emit("Forejump")
  \o yes \o Emit1("Goto", Len(no) + 2) \o Emit("Forejump") \o no

EmitTestgroup(cond, yes, no) ==
  Emit("Setjump") \o Emit("Setmark") \o Emit1("Lazybranch", Len(cond) + Len(yes) + 4)
  \o cond \o Emit("Getmark") \o Emit("Forejump")
  \o yes \o Emit1("Goto", Len(no) + 3) \o Emit("Getmark") \o Emit("Forejump") \o no

\* kid[i] is the code of the ith child.
EmitNode(u, kid) ==
  LET else(i) == IF Len(kid) < i THEN <<>> ELSE kid[i]
      last == Len(kid) IN
  CASE u.t = "Empty" -> <<>>
    [] u.t = "Concatenate" -> FlattenSeq(kid)
    [] u.t = "Alternate" -> FoldRight(EmitAlternate, Front(kid), kid[last])
    [] u.t = "Testref" -> EmitTestref(u, kid[1], else(2))
    [] u.t = "Testgroup" -> EmitTestgroup(kid[1], kid[2], else(3))
    [] u.t \in {"Loop", "Lazyloop"} -> EmitLoop(u, kid[1])
    [] u.t = "Group" -> kid[1]
    [] u.t = "Capture" -> Emit("Setmark") \o kid[1] \o Emit2("Capturemark", u.m, u.n)
    [] u.t = "Require" -> Emit("Setjump") \o Emit("Setmark") \o kid[1]
                          \o Emit("Getmark") \o Emit("Forejump")
    [] u.t = "Prevent" -> Emit("Setjump") \o Emit1("Lazybranch", Len(kid[1]) + 2) \o kid[1]
                          \o Emit("Backjump") \o Emit("Forejump")
    [] u.t = "Greedy" -> Emit("Setjump") \o kid[1] \o Emit("Forejump")
    [] u.t \in {"Oneloop", "Onelazy"} -> EmitRep(u.t, "Onerep", u)
    [] u.t \in {"Notoneloop", "Notonelazy"} -> EmitRep(u.t, "Notonerep", u)
    [] u.t \in {"Setloop", "Setlazy"} -> EmitRep(u.t, "Setrep", u)
    [] u.t \in {"One", "Notone", "Set", "Multi", "Ref"} -> Bits(u.t, u, 0)
    [] OTHER -> Emit(u.t)

RECURSIVE EmitFragment(_)
EmitFragment(u) == Of(LAMBDA kid : EmitNode(u, kid), Map(EmitFragment, u.kids))

-----------------------------------------------------------------------------
Jumps == {"Goto", "Lazybranch", "Branchmark", "Lazybranchmark", "Branchcount", "Lazybranchcount"}

OpcodeBacktracks ==
  {"Oneloop", "Notoneloop", "Setloop", "Onelazy", "Notonelazy", "Setlazy", "Lazybranch",
   "Branchmark", "Lazybranchmark", "Nullcount", "Setcount", "Branchcount", "Lazybranchcount",
   "Setmark", "Capturemark", "Getmark", "Setjump", "Backjump", "Forejump", "Goto"}

\* The groups of a tree, and the slots they are mapped to.
RECURSIVE Caps(_)
Caps(u) == (IF u.t = "Capture" THEN {u.m} \ {-1} ELSE {})
           \cup UNION {Caps(u.kids[i]) : i \in DOMAIN u.kids}
MapCapnum(caps, c) == IF c = -1 THEN -1 ELSE Cardinality({d \in caps : d < c})

Mapped(caps, ins) ==
  CASE ins.op \in {"Testref", "Ref"} -> [ins EXCEPT !.a = MapCapnum(caps, @)]
    [] ins.op = "Capturemark" -> [ins EXCEPT !.a = MapCapnum(caps, @), !.n = MapCapnum(caps, @)]
    [] OTHER -> ins

Framed(body) == Emit1("Lazybranch", Len(body) + 1) \o body \o Emit("Stop")
Resolved(caps, code) ==
  [i \in DOMAIN code |-> LET ins == Mapped(caps, code[i])
                         IN IF ins.op \in Jumps THEN [ins EXCEPT !.a = i + @] ELSE ins] \o <<>>
CodeFromTree(root) ==
  Of(LAMBDA code : Resolved(Caps(root), code), Of(Framed, EmitFragment(root)))

TrackCount(code) == Cardinality({i \in DOMAIN code : code[i].op \in OpcodeBacktracks})

\* What a Regexp keeps of an expression, and what it was read from; timed: it
\* has a MatchTimeout.
Compiled(raw, root, code, timed) ==
  LET caps == Caps(root)
      prefix == PrefixStr(root, MaxPrefixSize)
  IN [tree |-> raw, groups |-> caps, slot |-> [g \in caps |-> MapCapnum(caps, g)],
      slots |-> Cardinality(caps), code |-> code, tracks |-> TrackCount(code),
      fc |-> FirstCharsPrefix(root),
      bm |-> IF prefix.found THEN NewBmPrefix(prefix, raw.rtl) ELSE None,
      anchor |-> Anchor(root), rtl |-> raw.rtl, timed |-> timed]
Compile(raw, timed) ==
  Of(LAMBDA root : Of(LAMBDA code : Compiled(raw, root, code, timed), CodeFromTree(root)), Build(raw))
============================================================================
