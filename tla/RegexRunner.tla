---------------------------- MODULE RegexRunner ----------------------------
(***************************************************************************)
(* regexp2/runner.go and match.go: the machine that runs the code of a     *)
(* regular expression over a text, and the calls an application makes one  *)
(* after the other with the runner that the Regexp keeps.                  *)
(*                                                                         *)
(* The stacks are sequences of integers that grow at their end, as long    *)
(* as the storage in use.  A frame of the track is data and then the       *)
(* position in the code, negative for "back2".  "mode" is what backtrack   *)
(* adds to the operator: "go", "Back" or "Back2".                          *)
(***************************************************************************)
EXTENDS RegexPrefix

CONSTANTS Inputs,          \* records of a compiled expression and a text
          WordChars        \* the characters of \w

NewLine == "\n"
Nil == <<>>

\* What the calls should give.
Meaning == INSTANCE RegexSemantics
NoMatch == Meaning!NoMatch

VARIABLES
  re, text,      \* the Regexp and the text of all calls
  m,             \* the runner
  phase,         \* where scan is: "idle", "find" or "run"
  call,          \* the call: whether it is quick, r.runtextstart, whether no attempt has
                 \* been made, the match before, and where the attempt began
  given          \* what the last call has returned

vars == <<re, text, m, phase, call, given>>

End == Len(text)
Stops == IF re.rtl THEN 0 ELSE End

-----------------------------------------------------------------------------
(* Stacks and storage.                                                      *)

Top(s, n) == SubSeq(s, Len(s) - n + 1, Len(s))
Drop(s, n) == SubSeq(s, 1, Len(s) - n)

\* What no longer fits is not saved by growing: the push has failed by then.
Doubled(size, s) == IF Len(s) <= size /\ size - Len(s) < re.tracks * 4 THEN 2 * size ELSE size
EnsureStorage(r) == [r EXCEPT !.stackSize = Doubled(@, r.stack), !.trackSize = Doubled(@, r.track)]

Push(r, data) == [r EXCEPT !.track = @ \o Append(data, m.codepos)]
PushNeg(r, data) == [r EXCEPT !.track = @ \o Append(data, -m.codepos)]
Pop(r, n) == [r EXCEPT !.track = Drop(@, n)]
StackPush(r, data) == [r EXCEPT !.stack = @ \o data]
StackPop(r, n) == [r EXCEPT !.stack = Drop(@, n)]
TextTo(r, pos) == [r EXCEPT !.pos = pos]

Advance(r) == [r EXCEPT !.codepos = @ + 1, !.mode = "go"]

\* Mutant: storage is not ensured on the way back.
GoToOnly(r, target) == [r EXCEPT !.codepos = target, !.mode = "go"]
GoTo(r, target) == [(IF target <= r.codepos THEN EnsureStorage(r) ELSE r)
                      EXCEPT !.codepos = target, !.mode = "go"]

Resume(r, at) ==
  LET target == IF at < 0 THEN -at ELSE at
  IN [(IF target < r.codepos THEN EnsureStorage(r) ELSE r)
        EXCEPT !.codepos = target, !.mode = IF at < 0 THEN "Back2" ELSE "Back"]
Backtrack(r) == Of(LAMBDA v : Resume(Pop(v, 1), Last(v.track)), r)

-----------------------------------------------------------------------------
(* Captures: match.go, and the log of them.  A capture is two integers; a   *)
(* balanced group gets two negative ones, which refer to the capture that   *)
(* is now the last.                                                         *)

Matched(r, c) == r.matches[c] # <<>> /\ Last(r.matches[c]) # -2

Referred(s, i) == IF i >= 0 THEN i ELSE s[-2 - i]
MatchIndex(r, c) == Referred(r.matches[c], Top(r.matches[c], 2)[1])
MatchLength(r, c) == Referred(r.matches[c], Last(r.matches[c]))

AddMatch(r, c, start, len) == [r EXCEPT !.crawl = Append(@, c), !.matches[c] = @ \o <<start, len>>]

BalanceMatch(r, c) ==
  LET s == r.matches[c]
      last == Top(s, 2)[1]
      target == (IF last < 0 THEN -3 - last ELSE Len(s) - 2) - 2
  IN IF target >= 0 /\ s[target + 1] < 0
     THEN AddMatch(r, c, s[target + 1], s[target + 2])
     ELSE AddMatch(r, c, -3 - target, -4 - target)

Capture(r, c, from, to) == IF to < from THEN AddMatch(r, c, to, from - to)
                                        ELSE AddMatch(r, c, from, to - from)

\* The new capture gets the innermost defined interval.
TransferCapture(r, c, d, from, to) ==
  LET s == IF to < from THEN to ELSE from
      e == IF to < from THEN from ELSE to
      s2 == MatchIndex(r, d)
      e2 == s2 + MatchLength(r, d)
      f == CASE s >= e2 -> e2 [] s < e2 /\ s < s2 -> s2 [] OTHER -> s
      l == CASE s >= e2 -> s [] s < e2 /\ e > s2 /\ e > e2 -> e2 [] OTHER -> e
      less == BalanceMatch(r, d)
  IN IF c = -1 THEN less ELSE AddMatch(less, c, f, l - f)

\* Captures are taken back until the log has n entries.
UncaptureTo(r, n) ==
  LET undone(c) == Cardinality({i \in n + 1 .. Len(m.crawl) : m.crawl[i] = c})
  IN [r EXCEPT !.crawl = SubSeq(@, 1, n),
               !.matches = [c \in DOMAIN @ |-> Drop(@[c], 2 * undone(c))]]

\* tidy: without the captures that were balanced away.
Tidy(s) == FoldLeft(LAMBDA t, i : IF i < 0 THEN Front(t) ELSE Append(t, i), <<>>, s)

-----------------------------------------------------------------------------
(* Instructions: each continues or backtracks.  Where a character that does *)
(* not match has moved the position, backtracking sets it again.            *)

Ins == re.code[m.codepos]
At(ops, mode) == Ins.op \in ops /\ m.mode = mode
Else(ok, r) == m' = IF ok THEN Advance(r) ELSE Backtrack(m)

Goto == At({"Goto"}, "go") /\ m' = GoTo(m, Ins.a)
NothingMatches == At({"Nothing"}, "go") /\ m' = Backtrack(m)

Testref == At({"Testref"}, "go") /\ Else(Matched(m, Ins.a), m)

Lazybranch == At({"Lazybranch"}, "go") /\ m' = Advance(Push(m, <<m.pos>>))
LazybranchBack == At({"Lazybranch"}, "Back")
                  /\ m' = GoTo(TextTo(Pop(m, 1), Last(m.track)), Ins.a)

Setmark == At({"Setmark"}, "go") /\ m' = Advance(Push(StackPush(m, <<m.pos>>), <<>>))
Nullmark == At({"Nullmark"}, "go") /\ m' = Advance(Push(StackPush(m, <<-1>>), <<>>))
\* Mutant: the mark stays.
KeepMark == At({"Setmark", "Nullmark"}, "Back") /\ m' = Backtrack(m)
MarkBack == At({"Setmark", "Nullmark"}, "Back") /\ m' = Backtrack(StackPop(m, 1))

\* In every code Forejump is next, which drops the frame: nothing backtracks to it.
Getmark == At({"Getmark"}, "go")
           /\ LET mark == Last(m.stack)
              IN m' = Advance(TextTo(Push(StackPop(m, 1), <<mark>>), mark))

Capturemark ==
  /\ At({"Capturemark"}, "go")
  /\ LET mark == Last(m.stack)
         r == StackPop(m, 1)
         captured == IF Ins.n = -1 THEN Capture(r, Ins.a, mark, r.pos)
                     ELSE TransferCapture(r, Ins.a, Ins.n, mark, r.pos)
     IN m' = IF Ins.n # -1 /\ ~Matched(m, Ins.n) THEN Backtrack(m)
             ELSE Advance(Push(captured, <<mark>>))
CapturemarkBack ==
  /\ At({"Capturemark"}, "Back")
  /\ LET count == IF Ins.a # -1 /\ Ins.n # -1 THEN 2 ELSE 1
     IN m' = Backtrack(UncaptureTo(StackPush(Pop(m, 1), <<Last(m.track)>>), Len(m.crawl) - count))

\* A turn of an unbounded loop has ended.
Branchmark ==
  /\ At({"Branchmark"}, "go")
  /\ LET mark == Last(m.stack)
         r == StackPop(m, 1)
     IN m' = IF m.pos # mark THEN GoTo(StackPush(Push(r, <<mark, m.pos>>), <<m.pos>>), Ins.a)
                             ELSE Advance(PushNeg(r, <<mark>>))
BranchmarkBack ==
  /\ At({"Branchmark"}, "Back")
  /\ LET d == Top(m.track, 2)
     IN m' = Advance(PushNeg(TextTo(StackPop(Pop(m, 2), 1), d[2]), <<d[1]>>))
BranchmarkBack2 == At({"Branchmark"}, "Back2")
                   /\ m' = Backtrack(StackPush(Pop(m, 1), <<Last(m.track)>>))

Lazybranchmark ==
  /\ At({"Lazybranchmark"}, "go")
  /\ LET mark == Last(m.stack)
     IN m' = Advance(IF m.pos # mark
                     THEN Push(StackPop(m, 1), <<IF mark = -1 THEN m.pos ELSE mark, m.pos>>)
                     ELSE PushNeg(m, <<mark>>))
LazybranchmarkBack ==
  /\ At({"Lazybranchmark"}, "Back")
  /\ LET d == Top(m.track, 2)
     IN m' = GoTo(TextTo(StackPush(PushNeg(Pop(m, 2), <<d[1]>>), <<d[2]>>), d[2]), Ins.a)
LazybranchmarkBack2 == At({"Lazybranchmark"}, "Back2")
                       /\ m' = Backtrack(StackPush(StackPop(Pop(m, 1), 1), <<Last(m.track)>>))

Setcount == At({"Setcount"}, "go") /\ m' = Advance(Push(StackPush(m, <<m.pos, Ins.a>>), <<>>))
Nullcount == At({"Nullcount"}, "go") /\ m' = Advance(Push(StackPush(m, <<-1, Ins.a>>), <<>>))
CountBack == At({"Setcount", "Nullcount"}, "Back") /\ m' = Backtrack(StackPop(m, 2))

\* A turn of a counted loop has ended; below zero it has to go on.
Branchcount ==
  /\ At({"Branchcount"}, "go")
  /\ LET d == Top(m.stack, 2)
         r == StackPop(m, 2)
     IN m' = IF d[2] >= Ins.n \/ (m.pos = d[1] /\ d[2] >= 0)
             THEN Advance(PushNeg(r, d))
             ELSE GoTo(StackPush(Push(r, <<d[1]>>), <<m.pos, d[2] + 1>>), Ins.a)
BranchcountBack ==
  /\ At({"Branchcount"}, "Back")
  /\ LET d == Top(m.stack, 2)
         mark == Last(m.track)
         r == StackPop(Pop(m, 1), 2)
     IN m' = IF d[2] > 0 THEN Advance(PushNeg(TextTo(r, d[1]), <<mark, d[2] - 1>>))
                         ELSE Backtrack(StackPush(r, <<mark, d[2] - 1>>))
BranchcountBack2 == At({"Branchcount"}, "Back2")
                    /\ m' = Backtrack(StackPush(Pop(m, 2), Top(m.track, 2)))

Lazybranchcount ==
  /\ At({"Lazybranchcount"}, "go")
  /\ LET d == Top(m.stack, 2)
         r == StackPop(m, 2)
     IN m' = IF d[2] < 0 THEN GoTo(StackPush(PushNeg(r, <<d[1]>>), <<m.pos, d[2] + 1>>), Ins.a)
                         ELSE Advance(Push(r, <<d[1], d[2], m.pos>>))
LazybranchcountBack ==
  /\ At({"Lazybranchcount"}, "Back")
  /\ LET d == Top(m.track, 3)
         r == Pop(m, 3)
     IN m' = IF d[2] < Ins.n /\ d[3] # d[1]
             THEN GoTo(PushNeg(StackPush(TextTo(r, d[3]), <<d[3], d[2] + 1>>), <<d[1]>>), Ins.a)
             ELSE Backtrack(StackPush(r, <<d[1], d[2]>>))
LazybranchcountBack2 ==
  /\ At({"Lazybranchcount"}, "Back2")
  /\ m' = Backtrack(StackPush(StackPop(Pop(m, 1), 2), <<Last(m.track), Last(m.stack) - 1>>))

\* What is matched on its own: Setjump notes the heights, and the jumps go back
\* to them, Backjump for failure and Forejump for success.
Setjump == At({"Setjump"}, "go")
           /\ m' = Advance(Push(StackPush(m, <<Len(m.track), Len(m.crawl)>>), <<>>))
SetjumpBack == At({"Setjump"}, "Back") /\ m' = Backtrack(StackPop(m, 2))

TrackTo(r, n) == [r EXCEPT !.track = SubSeq(@, 1, n)]
Backjump ==
  /\ At({"Backjump"}, "go")
  /\ LET d == Top(m.stack, 2)
     IN m' = Backtrack(UncaptureTo(TrackTo(StackPop(m, 2), d[1]), d[2]))
Forejump ==
  /\ At({"Forejump"}, "go")
  /\ LET d == Top(m.stack, 2)
     IN m' = Advance(Push(TrackTo(StackPop(m, 2), d[1]), <<d[2]>>))
ForejumpBack == At({"Forejump"}, "Back")
                /\ m' = Backtrack(UncaptureTo(Pop(m, 1), Last(m.track)))

IsWord(i) == i \in 1 .. End /\ text[i] \in WordChars
IsBoundary(pos) == IsWord(pos) # IsWord(pos + 1)
Assertions == {"Bol", "Eol", "Boundary", "Nonboundary", "Beginning", "Start", "EndZ", "End"}
Assertion ==
  /\ At(Assertions, "go")
  /\ Else(CASE Ins.op = "Bol" -> m.pos > 0 => text[m.pos] = NewLine
            [] Ins.op = "Eol" -> m.pos < End => text[m.pos + 1] = NewLine
            [] Ins.op = "Boundary" -> IsBoundary(m.pos)
            [] Ins.op = "Nonboundary" -> ~IsBoundary(m.pos)
            [] Ins.op = "Beginning" -> m.pos = 0
            [] Ins.op = "Start" -> m.pos = call.start
            [] Ins.op = "EndZ" -> End - m.pos <= 1 /\ (End - m.pos = 1 => text[End] = NewLine)
            [] Ins.op = "End" -> m.pos = End, m)

-----------------------------------------------------------------------------
(* Characters, in the direction of the instruction.                         *)

Bump == IF Ins.rtl THEN -1 ELSE 1
ForwardChars == IF Ins.rtl THEN m.pos ELSE End - m.pos
Fold(c) == IF Ins.ci THEN Lower[c] ELSE c
\* The nth character from pos.
Forward(pos, n) == Fold(text[IF Ins.rtl THEN pos - n + 1 ELSE pos + n])
Accepts(pos, n) == Forward(pos, n) \in Ins.chars
Moved(n) == TextTo(m, m.pos + n * Bump)
AtMost(n) == IF n > ForwardChars THEN ForwardChars ELSE n

OneChar == At({"One", "Notone", "Set"}, "go")
           /\ Else(ForwardChars >= 1 /\ Accepts(m.pos, 1), Moved(1))

\* The characters that n steps cover, from left to right.
Covered(n) == [i \in 1 .. n |-> Fold(text[(IF Ins.rtl THEN m.pos - n ELSE m.pos) + i])]
Multi == At({"Multi"}, "go")
         /\ LET n == Len(Ins.str) IN Else(ForwardChars >= n /\ Covered(n) = Ins.str, Moved(n))
Ref == At({"Ref"}, "go")
       /\ IF ~Matched(m, Ins.a) THEN m' = Backtrack(m)
          ELSE LET n == MatchLength(m, Ins.a)
                   last == [i \in 1 .. n |-> Fold(text[MatchIndex(m, Ins.a) + i])]
               IN Else(ForwardChars >= n /\ Covered(n) = last, Moved(n))

Rep == At({"Onerep", "Notonerep", "Setrep"}, "go")
       /\ Else(ForwardChars >= Ins.n /\ \A i \in 1 .. Ins.n : Accepts(m.pos, i), Moved(Ins.n))

\* As many as there are; the track has how many can be given back, and where.
Loop == /\ At({"Oneloop", "Notoneloop", "Setloop"}, "go")
        /\ LET most == AtMost(Ins.n)
               n == CHOOSE k \in 0 .. most : /\ \A i \in 1 .. k : Accepts(m.pos, i)
                                             /\ k < most => ~Accepts(m.pos, k + 1)
           IN m' = Advance(IF n > 0 THEN Push(Moved(n), <<n - 1, m.pos + (n - 1) * Bump>>) ELSE m)
LoopBack == /\ At({"Oneloop", "Notoneloop", "Setloop"}, "Back")
            /\ LET d == Top(m.track, 2)
                   r == TextTo(Pop(m, 2), d[2])
               IN m' = Advance(IF d[1] > 0 THEN Push(r, <<d[1] - 1, d[2] - Bump>>) ELSE r)

\* As few as there are; the track has how many can be taken, and where.
Lazy == /\ At({"Onelazy", "Notonelazy", "Setlazy"}, "go")
        /\ LET most == AtMost(Ins.n)
           IN m' = Advance(IF most > 0 THEN Push(m, <<most - 1, m.pos>>) ELSE m)
LazyBack == /\ At({"Onelazy", "Notonelazy", "Setlazy"}, "Back")
            /\ LET d == Top(m.track, 2)
                   r == TextTo(Pop(m, 2), d[2] + Bump)
               IN m' = IF ~Accepts(d[2], 1) THEN Backtrack(r)
                       ELSE Advance(IF d[1] > 0 THEN Push(r, <<d[1] - 1, d[2] + Bump>>) ELSE r)

BranchOps == \/ Goto \/ NothingMatches \/ Testref \/ Lazybranch \/ LazybranchBack
MarkOps == \/ Setmark \/ Nullmark \/ MarkBack \/ Getmark \/ Capturemark \/ CapturemarkBack
         \/ Branchmark \/ BranchmarkBack \/ BranchmarkBack2
         \/ Lazybranchmark \/ LazybranchmarkBack \/ LazybranchmarkBack2
CountOps == \/ Setcount \/ Nullcount \/ CountBack \/ Branchcount \/ BranchcountBack \/ BranchcountBack2
          \/ Lazybranchcount \/ LazybranchcountBack \/ LazybranchcountBack2
JumpOps == \/ Setjump \/ SetjumpBack \/ Backjump \/ Forejump \/ ForejumpBack
CharOps == Assertion \/ OneChar \/ Multi \/ Ref \/ Rep \/ Loop \/ LoopBack \/ Lazy \/ LazyBack

Execute == /\ phase = "run" /\ Ins.op # "Stop"
           /\ BranchOps \/ MarkOps \/ CountOps \/ JumpOps \/ CharOps
           /\ UNCHANGED <<re, text, phase, call, given>>

-----------------------------------------------------------------------------
(* findFirstChar, initMatch and scan.                                       *)

Anchored == re.anchor \in {"Beginning", "Start", "EndZ", "End"}

\* Where an anchor lets a match start: nowhere, or not before some position.
Missed(pos) ==
  LET anchor == re.anchor IN
  IF re.rtl
  THEN \/ anchor = "End" /\ pos < End
       \/ anchor = "EndZ" /\ (pos < End - 1 \/ (pos = End - 1 /\ text[End] # NewLine))
       \/ anchor = "Start" /\ pos < call.start
  ELSE \/ anchor = "Beginning" /\ pos > 0
       \/ anchor = "Start" /\ pos > call.start
Nearest(pos) ==
  LET anchor == re.anchor IN
  CASE anchor = "Beginning" /\ re.rtl -> 0
    [] anchor = "EndZ" /\ ~re.rtl -> Larger(pos, End - 1)
    [] anchor = "End" /\ ~re.rtl -> End
    [] OTHER -> pos

Candidate(found, pos) == [found |-> found, pos |-> pos]

ByAnchor(pos) ==
  IF Missed(pos) THEN Candidate(FALSE, Stops)
  ELSE LET at == Nearest(pos)
       IN Candidate(re.bm.found => IsMatch(re.bm, text, at), at)
ByPrefix(pos) ==
  LET at == Scan(re.bm, text, pos)
  IN IF at = -1 THEN Candidate(FALSE, Stops) ELSE Candidate(TRUE, at)
ByFirstChar(pos) ==
  LET fold(c) == IF re.fc.ci THEN Lower[c] ELSE c
      at == {p \in (IF re.rtl THEN 1 .. pos ELSE pos .. End - 1) :
               fold(text[IF re.rtl THEN p ELSE p + 1]) \in re.fc.chars}
  IN IF at = {} THEN Candidate(FALSE, Stops)
     ELSE Candidate(TRUE, IF re.rtl THEN Max(at) ELSE Min(at))

FindFirstChar(pos) == CASE Anchored -> ByAnchor(pos)
                        [] ~Anchored /\ re.bm.found -> ByPrefix(pos)
                        [] ~Anchored /\ ~re.bm.found /\ re.fc.found -> ByFirstChar(pos)
                        [] OTHER -> Candidate(TRUE, pos)

NewMatch == [c \in 0 .. re.slots - 1 |-> <<>>]

\* The stacks of a runner that has been used are emptied, and keep their size;
\* a match that was not given away is reset.
\* Mutant: it is used again as it is.
UseMatch(r) ==
  [r EXCEPT !.matches = IF @ = Nil THEN NewMatch ELSE @,
            !.track = <<>>, !.stack = <<>>, !.crawl = <<>>,
            !.trackSize = IF @ > 0 THEN @ ELSE Larger(8 * re.tracks, 32),
            !.stackSize = IF @ > 0 THEN @ ELSE Larger(8 * re.tracks, 16)]
InitMatch(r) ==
  [r EXCEPT !.matches = NewMatch,
            !.track = <<>>, !.stack = <<>>, !.crawl = <<>>,
            !.trackSize = IF @ > 0 THEN @ ELSE Larger(8 * re.tracks, 32),
            !.stackSize = IF @ > 0 THEN @ ELSE Larger(8 * re.tracks, 16)]

Outcome(kind, caps, pos) == [kind |-> kind, caps |-> caps, pos |-> pos]
NothingFound == Outcome("none", NoMatch, 0)
Finish(outcome) == phase' = "idle" /\ given' = outcome

\* The next position, or the end of the search.
\* Mutant: the position stays.
SamePosition(r) == m' = r /\ phase' = "find" /\ UNCHANGED given
NextPosition(r) ==
  IF r.pos = Stops
  THEN m' = r /\ Finish(NothingFound)
  ELSE /\ m' = TextTo(r, r.pos + (IF re.rtl THEN -1 ELSE 1))
       /\ phase' = "find" /\ UNCHANGED given

\* call.first: no attempt has been made by this call.
Find ==
  /\ phase = "find"
  /\ LET c == FindFirstChar(m.pos)
         r == TextTo(m, c.pos) IN
     IF c.found
     THEN /\ m' = GoTo(IF call.first THEN InitMatch(r) ELSE r, 1)
          /\ phase' = "run" /\ call' = [call EXCEPT !.first = FALSE, !.from = c.pos]
          /\ UNCHANGED given
     ELSE NextPosition(r) /\ UNCHANGED call
  /\ UNCHANGED <<re, text>>

\* Without a match the stacks are emptied for another go.
Pairs(s) == [i \in 1 .. Len(s) \div 2 |-> <<s[2 * i - 1], s[2 * i]>>]
TidyMatch(r) == [g \in re.groups |-> Pairs(Tidy(r.matches[re.slot[g]]))]
StopFound ==
  /\ phase = "run" /\ Ins.op = "Stop" /\ m.mode = "go" /\ m.matches[0] # <<>>
  /\ IF call.quick THEN m' = m /\ Finish(Outcome("true", NoMatch, 0))
     ELSE m' = [m EXCEPT !.matches = Nil] /\ Finish(Outcome("match", TidyMatch(m), m.pos))
  /\ UNCHANGED <<re, text, call>>
StopFailed ==
  /\ phase = "run" /\ Ins.op = "Stop" /\ m.mode = "go" /\ m.matches[0] = <<>>
  /\ NextPosition([m EXCEPT !.track = <<>>, !.stack = <<>>, !.crawl = <<>>])
  /\ UNCHANGED <<re, text, call>>

\* checkTimeout, after findFirstChar and before every instruction: the runner goes
\* back to the cache as it is.
Timeout ==
  /\ re.timed
  /\ phase = "run" \/ (phase = "find" /\ FindFirstChar(m.pos).found)
  /\ Finish(Outcome("timeout", NoMatch, 0))
  /\ UNCHANGED <<re, text, m, call>>

-----------------------------------------------------------------------------
(* The calls of an application: MatchString, FindStringMatch, and           *)
(* FindNextMatch until it gives no match.                                   *)

\* run with a start of -1 begins at the end that the direction calls for.
StartOf(from) == IF from >= 0 THEN from ELSE IF re.rtl THEN End ELSE 0
Run(quick, from, previous) ==
  /\ call' = [quick |-> quick, start |-> StartOf(from), first |-> TRUE, previous |-> previous, from |-> StartOf(from)]
  /\ m' = TextTo(m, StartOf(from))
  /\ phase' = "find"
  /\ UNCHANGED <<re, text, given>>

FindStringMatch == phase = "idle" /\ given.kind # "match" /\ Run(FALSE, -1, Nil)
MatchString == phase = "idle" /\ given.kind # "match" /\ Run(TRUE, -1, Nil)

\* After an empty match the search starts one further.
\* Mutant: it starts where the match is.
StayAt(empty) == given.pos
StartAt(empty) == CASE ~empty -> given.pos
                    [] empty /\ re.rtl -> given.pos - 1
                    [] empty /\ ~re.rtl -> given.pos + 1
FindNextMatch ==
  /\ phase = "idle" /\ given.kind = "match"
  /\ LET empty == given.caps[0][1][2] = 0 IN
     IF empty /\ given.pos = End
     THEN given' = Outcome("end", NoMatch, 0) /\ UNCHANGED <<re, text, m, phase, call>>
     ELSE Run(FALSE, StartAt(empty), given.caps[0][1])

NewRunner == [pos |-> 0, codepos |-> 1, mode |-> "go", track |-> <<>>, stack |-> <<>>, crawl |-> <<>>,
              matches |-> Nil, stackSize |-> 0, trackSize |-> 0]

Init == /\ \E input \in Inputs : re = input.re /\ text = input.text
        /\ m = NewRunner /\ phase = "idle" /\ given = Outcome("new", NoMatch, 0)
        /\ call = [quick |-> FALSE, start |-> 0, first |-> TRUE, previous |-> Nil, from |-> 0]

Step == Find \/ Execute \/ StopFound \/ StopFailed
Next == Step \/ Timeout \/ FindStringMatch \/ MatchString \/ FindNextMatch

\* A search goes on until it is done: it runs in the goroutine that called.
Spec == Init /\ [][Next]_vars /\ WF_vars(Step)

-----------------------------------------------------------------------------
TypeOK ==
  /\ text \in Seq(Alphabet)
  /\ m.pos \in 0 .. End /\ m.codepos \in DOMAIN re.code
  /\ m.mode \in {"go", "Back", "Back2"}
  /\ \A s \in {m.track, m.stack, m.crawl} : s \in Seq(Int)
  /\ m.trackSize \in Nat /\ m.stackSize \in Nat
  /\ phase \in {"idle", "find", "run"}
  /\ given.kind \in {"new", "match", "true", "none", "end", "timeout"}

RECURSIVE Nullable(_), SomeNode(_, _), LeadsWithIf(_)

\* u may match nothing, as far as its form tells.
Nullable(u) ==
  CASE u.t \in {"One", "Notone", "Set", "Nothing"} -> FALSE
    [] u.t = "Concatenate" -> \A i \in DOMAIN u.kids : Nullable(u.kids[i])
    [] u.t \in {"Loop", "Lazyloop"} -> u.m = 0 \/ Nullable(u.kids[1])
    [] u.t \in {"Group", "Capture", "Greedy"} -> \E i \in DOMAIN u.kids : Nullable(u.kids[i])
    [] OTHER -> TRUE

SomeNode(f(_), u) == f(u) \/ \E i \in DOMAIN u.kids : SomeNode(f, u.kids[i])

\* An unbounded lazy loop of turns that may be empty leaves a mark on the stack
\* (runner.go:314-322).
EmptyLazyLoop(u) == u.t = "Lazyloop" /\ u.n = Inf /\ u.m <= 1 /\ Nullable(u.kids[1])

\* Two quantifiers are joined to one that tries in another order (tree.go:393-445).
JoinedRep(u) ==
  /\ u.t \in {"Loop", "Lazyloop"}
  /\ Of(LAMBDA kid : Blurs(u.t, kid) /\ ~TooLumpy(u, kid) /\ kid.m > 1, Reduce(Build(u.kids[1])))

\* A condition without else comes first, and its first characters are taken for
\* those of all matches (prefix.go:198-214).
LeadsWithIf(u) ==
  CASE u.t = "Testref" /\ Len(u.kids) = 1 -> TRUE
    [] u.t = "Testgroup" /\ Len(u.kids) = 2 -> TRUE
    [] u.t = "Concatenate" ->
         LET kids == ReverseLeft(u).kids
         IN \E i \in DOMAIN kids : LeadsWithIf(kids[i]) /\ \A j \in 1 .. i - 1 : Nullable(kids[j])
    [] u.t \in {"Require", "Prevent"} -> FALSE
    [] OTHER -> \E i \in DOMAIN u.kids : LeadsWithIf(u.kids[i])

\* A long string that is matched from right to left is cut at its start
\* (writer.go:131-134).
CutFromRight(u) ==
  LET lead == Lead(Build(u), <<>>, Skipped \cup Anchors)
  IN u.rtl /\ lead.t = "Multi" /\ Len(lead.str) > MaxPrefixSize

\* The four forms for which the code finds something else than they mean.
Deviates(u) == \/ SomeNode(EmptyLazyLoop, u) \/ SomeNode(JoinedRep, u)
               \/ LeadsWithIf(u) \/ CutFromRight(u)

\* What a call gives is what the expression means: the match that starts first,
\* in it the first of the ways to match, with all its captures.  So neither the
\* reductions of the tree nor the jumps to the next candidate change what is
\* found, and nothing of an earlier call is seen, even of one that timed out; but
\* for expressions that Deviate.
FindsLeftmost ==
  phase = "idle" /\ given.kind \in {"match", "true", "none"} /\ ~Deviates(re.tree) =>
    LET expected == Meaning!LeftmostFirst(re.tree, re.groups, text, call.start)
    IN CASE given.kind = "match" -> given.caps = expected
         [] given.kind = "true" -> expected # NoMatch
         [] given.kind = "none" -> expected = NoMatch

\* The slices of both stacks are grown on jumps back only, by the number of
\* instructions that may backtrack: no push in between finds them full.
StorageSuffices ==
  phase = "run" => Len(m.track) <= m.trackSize /\ Len(m.stack) <= m.stackSize

\* An attempt that fails has undone everything, and stands where it began, so that
\* the next one is looked for one position further, and none is left out.
FailureUndone ==
  phase = "run" /\ Ins.op = "Stop" /\ m.matches[0] = <<>> =>
    /\ m.pos = call.from /\ m.stack = <<>> /\ m.track = <<>> /\ m.crawl = <<>>
    /\ \A c \in DOMAIN m.matches : m.matches[c] = <<>>

\* FindNextMatch goes on behind the match before, so that a loop over the matches
\* of a text ends (regexp.go:211-231).  From right to left it does not.
Follows(span, previous) == span # previous /\ span[1] >= previous[1] + previous[2]
NextMatchFollowsForward ==
  phase = "idle" /\ given.kind = "match" /\ call.previous # Nil /\ ~re.rtl =>
    Follows(given.caps[0][1], call.previous)

\* Every search ends: empty turns of a loop are not repeated.
SearchEnds == phase # "idle" ~> phase = "idle"
============================================================================
