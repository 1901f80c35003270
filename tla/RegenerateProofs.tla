-------------------------- MODULE RegenerateProofs --------------------------
(***************************************************************************)
(* Proofs about what jobs do: about Regenerate, for any folders, style     *)
(* sheets, jobs and edits; and then about MdNotes, for any documents.      *)
(***************************************************************************)
EXTENDS Regenerate, MdNotes, SequenceTheorems, TLAPS

AloneInv == \A j, k \in Jobs : Active(j) /\ solo[j] /\ Active(k) => j = k

SourceInv == /\ src[Root] # 0
             /\ \A e \in Entries \ {Root} : src[e] # 0 => src[Parent[e]] # 0

Files == Entries \ Dirs
Copying(j) == job[j].pc \in {"read", "generate", "open", "fill"}
InWalk1(j) == job[j].pc \in {"walk1", "store"}
InWalk2(j) == job[j].pc = "walk2" \/ (Copying(j) /\ job[j].full)

\* The walk of job j will come to a path that is there.
ToCome(j, e) == Path[e] \cap job[j].todo # {}

\* What the job has swept away is gone, what it has still to visit is there, and a
\* folder is made, or will be.
NothingStale(j) == \A e \in Entries : src[e] = 0 => Excused(j, e) \/ out[e] = None
TodoThere(j) == \A e \in job[j].todo : Excused(j, e) \/ src[e] # 0
FoldersMade(j) == \A d \in Dirs :
  src[d] # 0 => Excused(j, d) \/ out[d] = Folder \/ (InWalk1(j) /\ ToCome(j, d))

\* The second walk has copied a file, or does so now, or will.
FilesCopied(j) == \A f \in Files :
  src[f] # 0 => \/ Excused(j, f) \/ FileAsExpected(j, f) \/ ToCome(j, f)
                \/ Copying(j) /\ job[j].at = f

\* The first walk has found the style sheets up to where it is; the last one it may
\* have found, but not written to the list.
Found(j) == IF job[j].pc = "store" THEN Append(css, job[j].at) ELSE css
SheetsFound(j) ==
  /\ job[j].pc = "store" => job[j].links = css
  /\ Ascending(Found(j)) /\ ToSet(Found(j)) \subseteq TopCss
  /\ \A e \in TopCss : e \in ToSet(Found(j)) \/ ToCome(j, e)
  /\ \A e \in ToSet(Found(j)), f \in job[j].todo : Before(e, f)
SheetsInv(j) == touched[j] \cap Css = {} =>
  /\ job[j].pc = "sweep" => css = <<>>
  /\ InWalk1(j) => SheetsFound(j)
  /\ InWalk2(j) => LinksTopCss(css)

\* What has been read of the file that is copied.
ReadRight(j) ==
  /\ job[j].full => Excused(j, job[j].at) \/ src[job[j].at] # 0
  /\ job[j].pc # "read" => Excused(j, job[j].at) \/ job[j].data.v = src[job[j].at]
  /\ job[j].pc = "generate" => job[j].at \in Md
  /\ job[j].full /\ job[j].pc \in {"open", "fill"} =>
       IF job[j].at \in Md THEN touched[j] \cap Css # {} \/ LinksTopCss(job[j].data.css)
                           ELSE job[j].data.css = <<>>
  /\ job[j].pc = "fill" => out[job[j].at] = Empty

Progress(j) ==
  /\ InWalk1(j) \/ InWalk2(j) => NothingStale(j) /\ TodoThere(j) /\ FoldersMade(j)
  /\ InWalk2(j) => FilesCopied(j)
  /\ SheetsInv(j)
  /\ Copying(j) => ReadRight(j)
ProgressInv == \A j \in Jobs : Active(j) /\ solo[j] => Progress(j)

\* The inductive invariant.
IInv == TypeOK /\ AloneInv /\ SourceInv /\ ProgressInv /\ EndHasCause
-----------------------------------------------------------------------------
(* The tree. *)

LEMMA PathFacts ==
  ASSUME NEW e \in Entries
  PROVE  /\ Path[e] \subseteq Entries /\ e \in Path[e] /\ Root \in Path[e]
         /\ Path[e] \subseteq Dirs \cup {e}
         /\ \A d \in Path[e] \ {Root} : Parent[d] \in Path[e]
         /\ \A d \in Path[e] : d # e => \E c \in Path[e] \ {Root} : Parent[c] = d
<1>1. \A x \in Entries : /\ Path[x] \in SUBSET Entries /\ x \in Path[x]
                         /\ \A S \in SUBSET Entries : x \in S /\ Upward(S) => Path[x] \subseteq S
  BY DEF Path
<1>2. \A x \in Entries \ {Root} : Parent[x] \in Dirs /\ Parent[x] \in Entries
  BY RegenerateAssumption
<1>3. ASSUME NEW x \in Entries, NEW d \in Path[x] \ {Root} PROVE Parent[d] \in Path[x]
  <2>1. Parent[d] \in Entries
    BY <1>1, <1>2
  <2>2. ASSUME NEW S \in SUBSET Entries, x \in S, Upward(S) PROVE Parent[d] \in S
    BY <1>1, <2>2 DEF Upward
  <2>3. QED
    BY <2>1, <2>2 DEF Path
<1>4. Root \in Path[e]
  <2>1. PICK S : S = {x \in Entries : Root \in Path[x]}
    OBVIOUS
  <2>2. S \in SUBSET Entries /\ Root \in S
    BY <1>1, <2>1, RegenerateAssumption
  <2>3. ASSUME NEW x \in Entries \ {Root}, Parent[x] \in S PROVE x \in S
    <3>1. Parent[x] \in Path[x] /\ Path[x] \in SUBSET Entries
      BY <1>1, <1>3
    <3>2. Upward(Path[x])
      BY <1>3 DEF Upward
    <3>3. Path[Parent[x]] \subseteq Path[x]
      BY <1>1, <1>2, <3>1, <3>2
    <3>4. QED
      BY <2>1, <2>3, <3>3
  <2>4. S = Entries
    BY <2>2, <2>3, RegenerateAssumption DEF BelowRoot
  <2>5. QED
    BY <2>1, <2>4
<1>5. Path[e] \subseteq Dirs \cup {e}
  <2>1. Dirs \cup {e} \in SUBSET Entries /\ Upward(Dirs \cup {e})
    BY <1>2, RegenerateAssumption DEF Upward
  <2>2. QED
    BY <1>1, <2>1
<1>6. ASSUME NEW d \in Path[e], d # e PROVE \E c \in Path[e] \ {Root} : Parent[c] = d
  <2>1. SUFFICES ASSUME \A c \in Path[e] \ {Root} : Parent[c] # d PROVE FALSE
    OBVIOUS
  <2>2. Path[e] \ {d} \in SUBSET Entries /\ e \in Path[e] \ {d}
    BY <1>1, <1>6
  <2>3. Upward(Path[e] \ {d})
    BY <1>3, <2>1 DEF Upward
  <2>4. QED
    BY <1>1, <2>2, <2>3
<1>7. QED
  BY <1>1, <1>3, <1>4, <1>5, <1>6

\* What excuses a folder excuses all that is in it.
LEMMA ParentExcused ==
  ASSUME NEW j \in Jobs, NEW e \in Entries \ {Root}, Excused(j, Parent[e])
  PROVE  Excused(j, e)
<1>1. Parent[e] \in Path[e] /\ Path[e] \subseteq Entries /\ Parent[e] \in Entries
  BY PathFacts
<1>2. Path[e] \in SUBSET Entries /\ Parent[e] \in Path[e] /\ Upward(Path[e])
  BY <1>1, PathFacts DEF Upward
<1>3. Path[Parent[e]] \subseteq Path[e]
  BY <1>1, <1>2 DEF Path
<1>4. QED
  BY <1>3 DEF Excused

\* The sources are a tree.
LEMMA PathThere ==
  ASSUME SourceInv, NEW e \in Entries, src[e] # 0, NEW d \in Path[e]
  PROVE  src[d] # 0
<1>1. PICK S : S = {x \in Entries : src[x] # 0}
  OBVIOUS
<1>2. S \in SUBSET Entries /\ e \in S
  BY <1>1
<1>3. Upward(S)
  BY <1>1, RegenerateAssumption DEF Upward, SourceInv
<1>4. d \in S
  BY <1>2, <1>3 DEF Path
<1>5. QED
  BY <1>1, <1>4

\* When a walk has visited e it still comes to all it would have come to but e.
LEMMA FolderVisited ==
  ASSUME SourceInv, NEW e \in Entries, NEW t, NEW x \in Entries, src[x] # 0,
         Path[x] \cap t # {}, x # e
  PROVE  Path[x] \cap ((t \ {e}) \cup Listing(e)) # {}
<1>1. CASE e \in Path[x]
  <2>1. PICK c \in Path[x] \ {Root} : Parent[c] = e
    BY <1>1, PathFacts
  <2>2. c \in Entries /\ src[c] # 0
    BY PathFacts, PathThere
  <2>3. QED
    BY <2>1, <2>2 DEF Listing
<1>2. CASE e \notin Path[x]
  BY <1>2
<1>3. QED
  BY <1>1, <1>2

LEMMA FileVisited ==
  ASSUME NEW e \in Files, NEW t, NEW x \in Entries, Path[x] \cap t # {}, x # e
  PROVE  Path[x] \cap (t \ {e}) # {}
BY PathFacts DEF Files

LEMMA BeforeOrders ==
  /\ \A e, f, g \in Entries : Before(e, f) /\ Before(f, g) => Before(e, g)
  /\ \A e, f \in Entries : e = f \/ Before(e, f) \/ Before(f, e)
  /\ \A e \in Entries : ~Before(e, e)
  /\ \A e \in Entries \ {Root} : Before(Parent[e], e)
<1>1. Order \in Seq(Entries) /\ DOMAIN Order \subseteq Nat
  BY RegenerateAssumption
<1>2. \A e \in Entries : \E i \in DOMAIN Order : Order[i] = e
  BY DEF Entries, ToSet
<1>3. \A e \in Entries : ~Before(e, e)
  BY RegenerateAssumption DEF WalkOrder
<1>4. ASSUME NEW e \in Entries, NEW f \in Entries
      PROVE  e = f \/ Before(e, f) \/ Before(f, e)
  <2>1. PICK i, j \in DOMAIN Order : Order[i] = e /\ Order[j] = f
    BY <1>2
  <2>2. i \in Nat /\ j \in Nat
    BY <1>1
  <2>3. i < j \/ j < i \/ i = j
    BY <2>2
  <2>4. QED
    BY <2>1, <2>3 DEF Before
<1>5. ASSUME NEW e \in Entries, NEW f \in Entries, NEW g \in Entries,
             Before(e, f), Before(f, g)
      PROVE  Before(e, g)
  <2>1. PICK i, j \in DOMAIN Order : i < j /\ Order[i] = e /\ Order[j] = f
    BY <1>5 DEF Before
  <2>2. PICK k, l \in DOMAIN Order : k < l /\ Order[k] = f /\ Order[l] = g
    BY <1>5 DEF Before
  <2>3. ~(j < k) /\ ~(k < j)
    BY <1>3, <2>1, <2>2 DEF Before
  <2>4. i \in Nat /\ j \in Nat /\ k \in Nat /\ l \in Nat
    BY <1>1
  <2>5. i < l
    BY <2>1, <2>2, <2>3, <2>4
  <2>6. QED
    BY <2>1, <2>2, <2>5 DEF Before
<1>6. \A e \in Entries \ {Root} : Before(Parent[e], e)
  BY RegenerateAssumption DEF WalkOrder
<1>7. QED
  BY <1>3, <1>4, <1>5, <1>6

\* What comes next in a walk is before all the rest.
LEMMA ComesFirst ==
  ASSUME TypeOK, NEW j \in Jobs, NEW e \in Entries, Comes(j, e)
  PROVE  \A f \in job[j].todo \ {e} : Before(e, f)
<1>1. job[j].todo \subseteq Entries
  BY DEF TypeOK, JobStates
<1>2. QED
  BY <1>1, BeforeOrders DEF Comes

LEMMA MoreLinks ==
  ASSUME NEW s \in Links, NEW e \in Css, Ascending(s), \A x \in ToSet(s) : Before(x, e)
  PROVE  /\ Append(s, e) \in Links /\ Ascending(Append(s, e))
         /\ ToSet(Append(s, e)) = ToSet(s) \cup {e}
<1>1. s \in Seq(Css) /\ Len(s) \in Nat /\ DOMAIN s = 1..Len(s)
  BY DEF Links
<1>2. Append(s, e) \in Seq(Css) /\ DOMAIN Append(s, e) = 1..(Len(s) + 1)
  BY <1>1
<1>3. \A i \in 1..(Len(s) + 1) : Append(s, e)[i] = IF i \in 1..Len(s) THEN s[i] ELSE e
  BY <1>1
<1>4. Len(s) + 1 \in 1..(Len(s) + 1)
  BY <1>1
<1>5. ToSet(Append(s, e)) = ToSet(s) \cup {e}
  BY <1>1, <1>2, <1>3, <1>4 DEF ToSet
<1>6. ASSUME NEW i \in 1..(Len(s) + 1), NEW k \in 1..(Len(s) + 1), i < k
      PROVE  Before(Append(s, e)[i], Append(s, e)[k])
  <2>1. i \in 1..Len(s)
    BY <1>1, <1>6
  <2>2. CASE k \in 1..Len(s)
    BY <1>1, <1>3, <1>6, <2>1, <2>2 DEF Ascending
  <2>3. CASE k \notin 1..Len(s)
    BY <1>1, <1>3, <2>1, <2>3 DEF ToSet
  <2>4. QED
    BY <2>2, <2>3
<1>7. QED
  BY <1>2, <1>5, <1>6 DEF Links, Ascending

\* As long as the sources are not edited, what was as expected still is.
LEMMA Kept ==
  ASSUME NEW j \in Jobs, UNCHANGED <<src, touched>>
  PROVE  /\ \A e \in Entries : Excused(j, e)' <=> Excused(j, e)
         /\ TopCss' = TopCss
         /\ \A s \in Links : LinksTopCss(s)' <=> LinksTopCss(s)
         /\ \A e \in Entries : out'[e] = out[e] => (FileAsExpected(j, e)' <=> FileAsExpected(j, e))
BY DEF Excused, TopCss, LinksTopCss, FileAsExpected
-----------------------------------------------------------------------------
\* A step of job j that leaves it in state q.
Steps(j, q) == up /\ Active(j) /\ job' = [job EXCEPT ![j] = q] /\ History

LEMMA StepTypeOK ==
  ASSUME TypeOK, NEW j \in Jobs, NEW q \in JobStates, Steps(j, q), JobOK(j)', OutOK',
         OpenOK', css' \in Links, up' \in BOOLEAN,
         \A k \in Jobs \ {j} : job[k].pc = "fill" => out'[job[k].at] # None
  PROVE  TypeOK'
<1>1. job' \in [Jobs -> JobStates] /\ \A k \in Jobs \ {j} : job'[k] = job[k]
  BY DEF TypeOK, Steps
<1>2. \A k \in Jobs : JobOK(k)'
  BY <1>1 DEF TypeOK, JobOK
<1>3. QED
  BY <1>1, <1>2 DEF TypeOK, Steps, History

\* What is open stays there unless it is removed.
LEMMA StepOpenOK ==
  ASSUME OpenOK, UNCHANGED open, \A e \in open : out[e] # None => out'[e] # None
  PROVE  OpenOK'
BY DEF OpenOK

LEMMA StepIInv ==
  ASSUME IInv, NEW j \in Jobs, NEW q \in JobStates, Steps(j, q), TypeOK', up' = TRUE,
         Active(j)' /\ solo[j] => Progress(j)'
  PROVE  IInv'
<1>1. /\ job'[j] = q /\ \A k \in Jobs \ {j} : job'[k] = job[k]
      /\ UNCHANGED <<src, edits, solo, touched>> /\ Active(j)
  BY DEF IInv, TypeOK, Steps, History
<1>2. \A k \in Jobs : Active(k)' => Active(k)
  BY <1>1 DEF Active
<1>3. AloneInv' /\ SourceInv' /\ EndHasCause'
  BY <1>1, <1>2 DEF IInv, AloneInv, SourceInv, EndHasCause
<1>4. ProgressInv'
  <2>1. ASSUME NEW k \in Jobs, Active(k)', solo'[k] PROVE Progress(k)'
    <3>1. k = j
      BY <1>1, <1>2, <2>1 DEF IInv, AloneInv
    <3>2. QED
      BY <1>1, <2>1, <3>1
  <2>2. QED
    BY <2>1 DEF ProgressInv
<1>5. QED
  BY <1>3, <1>4 DEF IInv

LEMMA StutterIInv ==
  ASSUME IInv, UNCHANGED <<src, out, css, job, edits, solo, touched>>, OpenOK',
         up' \in BOOLEAN, EndHasCause'
  PROVE  IInv'
<1>1. TypeOK'
  BY DEF IInv, TypeOK, OutOK, JobOK
<1>2. AloneInv' /\ SourceInv'
  BY DEF IInv, AloneInv, SourceInv, Active
<1>3. ASSUME NEW j \in Jobs, Progress(j) PROVE Progress(j)'
  <2>1. InWalk1(j)' = InWalk1(j) /\ InWalk2(j)' = InWalk2(j) /\ Copying(j)' = Copying(j)
    BY DEF InWalk1, InWalk2, Copying
  <2>2. NothingStale(j)' = NothingStale(j) /\ TodoThere(j)' = TodoThere(j)
    BY DEF NothingStale, TodoThere, Excused
  <2>3. FoldersMade(j)' = FoldersMade(j)
    BY DEF FoldersMade, InWalk1, ToCome, Excused
  <2>4. FilesCopied(j)' = FilesCopied(j)
    BY DEF FilesCopied, Copying, ToCome, Excused, FileAsExpected, LinksTopCss, TopCss
  <2>5. SheetsInv(j)' = SheetsInv(j)
    BY DEF SheetsInv, SheetsFound, Found, InWalk1, InWalk2, Copying, ToCome, LinksTopCss, TopCss
  <2>6. ReadRight(j)' = ReadRight(j)
    BY DEF ReadRight, Excused, LinksTopCss, TopCss
  <2>7. QED
    BY <1>3, <2>1, <2>2, <2>3, <2>4, <2>5, <2>6 DEF Progress
<1>4. ProgressInv'
  BY <1>3 DEF IInv, ProgressInv, Active
<1>5. QED
  BY <1>1, <1>2, <1>4 DEF IInv

\* The process ends in a job that is not alone, or for a cause.
LEMMA StopIInv ==
  ASSUME IInv, NEW j \in Jobs, Active(j), ~solo[j] \/ Cause(j), up' = FALSE,
         UNCHANGED <<out, css, job>>, History
  PROVE  IInv'
<1>1. Active(j)' /\ solo'[j] = solo[j]
  BY DEF Active, History
<1>2. Cause(j)' = Cause(j)
  BY DEF Cause, EditedAway, NoFile, OpenInServer, FragileText, Comes, Excused, Leaf, History
<1>3. EndHasCause'
  BY <1>1, <1>2 DEF EndHasCause
<1>4. OpenOK'
  BY DEF IInv, TypeOK, OpenOK, History
<1>5. QED
  BY <1>3, <1>4, StutterIInv DEF History

LEMMA FailIInv ==
  ASSUME IInv, NEW j \in Jobs, up, Active(j), job[j].full => ~solo[j] \/ Cause(j), Fail(j), History
  PROVE  IInv'
<1>1. CASE job[j].full
  BY <1>1, StopIInv DEF Fail
<1>2. CASE ~job[j].full
  <2>1. PICK q : q = [job[j] EXCEPT !.pc = "done"]
    OBVIOUS
  <2>2. q \in JobStates /\ q.full = job[j].full /\ q.pc = "done"
    BY <2>1 DEF IInv, TypeOK, JobStates
  <2>3. Steps(j, q) /\ UNCHANGED <<out, css, up>>
    BY <1>2, <2>1 DEF Fail, Goto, Steps
  <2>4. job'[j] = q
    BY <2>3 DEF Steps, IInv, TypeOK
  <2>5. JobOK(j)' /\ OutOK'
    BY <2>2, <2>3, <2>4 DEF JobOK, OutOK, IInv, TypeOK
  <2>6. TypeOK'
    BY <2>2, <2>3, <2>5, StepOpenOK, StepTypeOK DEF IInv, TypeOK, JobOK, Steps, History
  <2>7. up' = TRUE /\ ~Active(j)'
    BY <2>2, <2>3, <2>4 DEF IInv, TypeOK, Steps, Active
  <2>8. QED
    BY <2>2, <2>3, <2>6, <2>7, StepIInv
<1>3. QED
  BY <1>1, <1>2 DEF IInv, TypeOK, JobStates

\* A step that leaves the target folder and the list of style sheets alone.
LEMMA PlainIInv ==
  ASSUME IInv, NEW j \in Jobs, NEW q \in JobStates, Steps(j, q),
         UNCHANGED <<out, css, up>>, JobOK(j)', Active(j)' /\ solo[j] => Progress(j)'
  PROVE  IInv'
<1>1. OutOK' /\ css' \in Links /\ up' \in BOOLEAN
  BY DEF IInv, TypeOK, OutOK
<1>2. \A k \in Jobs \ {j} : job[k].pc = "fill" => out'[job[k].at] # None
  BY DEF IInv, TypeOK, JobOK
<1>3. TypeOK'
  BY <1>1, <1>2, StepOpenOK, StepTypeOK DEF IInv, TypeOK, Steps, History
<1>4. up' = TRUE
  BY DEF Steps, IInv, TypeOK
<1>5. QED
  BY <1>3, <1>4, StepIInv
-----------------------------------------------------------------------------
(* CleanUpFolders. *)

LEMMA ResetIInv == ASSUME IInv, NEW j \in Jobs, Reset(j) PROVE IInv'
<1>1. PICK q : q = [job[j] EXCEPT !.pc = "sweep"]
  OBVIOUS
<1>2. job[j] \in JobStates /\ JobOK(j) /\ job[j].pc = "reset"
  BY DEF IInv, TypeOK, Reset, At
<1>3. q \in JobStates /\ q.full = job[j].full /\ q.todo = {} /\ q.pc = "sweep" /\ q.full
  BY <1>1, <1>2 DEF JobStates, JobOK
<1>4. Steps(j, q) /\ UNCHANGED <<out, up>> /\ css' = <<>> /\ job'[j] = q
  BY <1>1, <1>2 DEF Reset, At, Goto, Steps, Active, IInv, TypeOK
<1>5. JobOK(j)' /\ OutOK' /\ css' \in Links /\ up' \in BOOLEAN /\ up' = TRUE
  BY <1>3, <1>4 DEF JobOK, OutOK, IInv, TypeOK, Links, Steps
<1>6. \A k \in Jobs \ {j} : job[k].pc = "fill" => out'[job[k].at] # None
  BY <1>4 DEF IInv, TypeOK, JobOK
<1>7. TypeOK'
  BY <1>3, <1>4, <1>5, <1>6, StepOpenOK, StepTypeOK DEF IInv, TypeOK, Steps, History
<1>8. Progress(j)'
  BY <1>3, <1>4 DEF Progress, InWalk1, InWalk2, Copying, SheetsInv
<1>9. QED
  BY <1>3, <1>4, <1>5, <1>7, <1>8, StepIInv

LEMMA SweepIInv == ASSUME IInv, NEW j \in Jobs, Sweep(j) PROVE IInv'
<1>1. PICK e \in Entries \ {Root} : Leaf(e) /\ ~Held(e) /\ out' = [out EXCEPT ![e] = None]
  BY DEF Sweep
<1>2. PICK q : q = job[j]
  OBVIOUS
<1>3. q \in JobStates /\ q.full = job[j].full /\ q.pc = "sweep" /\ JobOK(j) /\ q.todo = {}
  BY <1>2 DEF IInv, TypeOK, Sweep, At, JobOK
<1>4. Steps(j, q) /\ UNCHANGED <<css, up>> /\ job' = job /\ up' = TRUE
  BY <1>2, <1>3 DEF Sweep, At, Steps, Active, IInv, TypeOK
<1>5. OutOK /\ e \in Entries
  BY DEF IInv, TypeOK
<1>6. OutOK'
  <2>1. out' \in [Entries -> {None, Folder, Empty, Torn} \cup Contents]
    BY <1>1, <1>5 DEF OutOK
  <2>2. \A x \in Entries : out'[x] = IF x = e THEN None ELSE out[x]
    BY <1>1, <1>5 DEF OutOK
  <2>3. \A d \in Dirs : out'[d] \in {None, Folder}
    BY <1>5, <2>2, RegenerateAssumption DEF OutOK
  <2>4. \A x \in Entries \ {Root} : out'[x] # None => out'[Parent[x]] # None
    BY <1>1, <1>5, <2>2, RegenerateAssumption DEF OutOK, Leaf
  <2>5. QED
    BY <2>1, <2>3, <2>4 DEF OutOK
<1>7. \A k \in Jobs \ {j} : job[k].pc = "fill" => out'[job[k].at] # None
  BY <1>1, <1>5 DEF Held, BeingWritten, IInv, TypeOK, JobOK, OutOK, JobStates
<1>8. JobOK(j)' /\ css' \in Links /\ up' \in BOOLEAN /\ OpenOK'
  <2>1. \A x \in Entries : x # e => out'[x] = out[x]
    BY <1>1, <1>5 DEF OutOK
  <2>2. OpenOK'
    BY <1>1, <1>4, <2>1 DEF OpenOK, Held, IInv, TypeOK, Steps, History
  <2>3. QED
    BY <1>2, <1>3, <1>4, <2>2 DEF JobOK, IInv, TypeOK
<1>9. TypeOK'
  BY <1>3, <1>4, <1>6, <1>7, <1>8, StepTypeOK DEF IInv
<1>10. ASSUME solo[j] PROVE Progress(j)'
  <2>1. Progress(j)
    BY <1>4, <1>10 DEF IInv, ProgressInv, Steps
  <2>2. UNCHANGED <<src, touched>>
    BY <1>4 DEF Steps, History
  <2>3. QED
    BY <1>2, <1>3, <1>4, <2>1, <2>2 DEF Progress, InWalk1, InWalk2, Copying, SheetsInv
<1>11. QED
  BY <1>3, <1>4, <1>9, <1>10, StepIInv

LEMMA SweepFailsIInv == ASSUME IInv, NEW j \in Jobs, SweepFails(j) PROVE IInv'
<1>1. PICK e \in Entries : Leaf(e) /\ Held(e)
  BY DEF SweepFails
<1>2. up /\ Active(j) /\ job[j].pc = "sweep" /\ Fail(j) /\ History
  BY DEF SweepFails, At, Active
<1>3. CASE e \in open
  <2>1. Cause(j)
    BY <1>1, <1>2, <1>3 DEF Cause, OpenInServer
  <2>2. QED
    BY <1>2, <2>1, FailIInv
<1>4. CASE BeingWritten(e)
  <2>1. PICK k \in Jobs : job[k].pc = "fill"
    BY <1>4 DEF BeingWritten
  <2>2. ~solo[j]
    BY <1>2, <2>1 DEF IInv, AloneInv, Active
  <2>3. QED
    BY <1>2, <2>2, FailIInv
<1>5. QED
  BY <1>1, <1>3, <1>4 DEF Held

LEMMA SweepDoneIInv == ASSUME IInv, NEW j \in Jobs, SweepDone(j) PROVE IInv'
<1>1. PICK a : a = [job[j] EXCEPT !.pc = "walk1"]
  OBVIOUS
<1>2. PICK q : q = [a EXCEPT !.todo = {Root}]
  OBVIOUS
<1>3. job[j] \in JobStates /\ JobOK(j) /\ job[j].pc = "sweep" /\ OutOK
  BY DEF IInv, TypeOK, SweepDone, At
<1>4. a \in JobStates /\ a.full = job[j].full /\ a.pc = "walk1"
  BY <1>1, <1>3 DEF JobStates
<1>5. q \in JobStates /\ q.full = job[j].full /\ q.todo = {Root} /\ q.pc = "walk1" /\ q.full
  BY <1>2, <1>3, <1>4, RegenerateAssumption DEF JobStates, JobOK
<1>6. Steps(j, q) /\ UNCHANGED <<css, up>> /\ job'[j] = q /\ up' = TRUE
  BY <1>1, <1>2, <1>3 DEF SweepDone, At, Steps, Active, IInv, TypeOK
<1>7. out' \in [Entries -> {None, Folder, Empty, Torn} \cup Contents] /\ \A e \in Entries : out'[e] = None
  BY <1>3, RegenerateAssumption DEF SweepDone, OutOK
<1>8. OutOK'
  BY <1>7, RegenerateAssumption DEF OutOK
<1>9. ASSUME NEW k \in Jobs \ {j}, job[k].pc = "fill" PROVE out'[job[k].at] # None
  <2>1. job[k].at \in Entries \ {Root} /\ out[job[k].at] # None
    BY <1>9, RegenerateAssumption DEF IInv, TypeOK, JobOK, JobStates
  <2>2. QED
    BY <2>1 DEF SweepDone
<1>10. JobOK(j)' /\ css' \in Links /\ up' \in BOOLEAN /\ OpenOK'
  <2>1. open = {}
    BY DEF SweepDone, OpenOK, IInv, TypeOK
  <2>2. OpenOK'
    BY <1>6, <2>1 DEF OpenOK, Steps, History
  <2>3. QED
    BY <1>5, <1>6, <2>2 DEF JobOK, IInv, TypeOK
<1>11. TypeOK'
  BY <1>5, <1>6, <1>8, <1>9, <1>10, StepTypeOK DEF IInv
<1>12. ASSUME solo[j] PROVE Progress(j)'
  <2>1. UNCHANGED <<src, touched>> /\ src[Root] # 0 /\ css' = css
    BY <1>6 DEF IInv, SourceInv, Steps, History
  <2>2. touched[j] \cap Css = {} => css = <<>>
    BY <1>3, <1>6, <1>12 DEF IInv, ProgressInv, Progress, SheetsInv, Steps
  <2>3. ~InWalk2(j)' /\ ~Copying(j)'
    BY <1>5, <1>6 DEF InWalk2, Copying
  <2>4. \A e \in Entries : ToCome(j, e)'
    BY <1>5, <1>6, PathFacts DEF ToCome
  <2>5. NothingStale(j)'
    BY <1>7 DEF NothingStale
  <2>6. TodoThere(j)'
    BY <1>5, <1>6, <2>1 DEF TodoThere
  <2>7. FoldersMade(j)'
    BY <1>5, <1>6, <2>4, RegenerateAssumption DEF FoldersMade, InWalk1
  <2>8. SheetsInv(j)'
    <3>1. SUFFICES ASSUME touched[j] \cap Css = {} PROVE SheetsFound(j)'
      BY <1>5, <1>6, <2>1, <2>3 DEF SheetsInv
    <3>2. Found(j)' = <<>> /\ job'[j].pc # "store"
      BY <1>5, <1>6, <2>1, <2>2, <3>1 DEF Found
    <3>3. ToSet(<<>>) = {} /\ Ascending(<<>>)
      BY DEF ToSet, Ascending
    <3>4. \A e \in TopCss' : ToCome(j, e)'
      BY <2>4, RegenerateAssumption DEF TopCss
    <3>5. QED
      BY <3>2, <3>3, <3>4 DEF SheetsFound
  <2>9. QED
    BY <2>3, <2>5, <2>6, <2>7, <2>8 DEF Progress
<1>13. QED
  BY <1>5, <1>6, <1>11, <1>12, StepIInv
-----------------------------------------------------------------------------
(* WalkAndCopyCSSFilesAndFolders. *)

LEMMA VisitGoneIInv == ASSUME IInv, NEW j \in Jobs, VisitGone(j) PROVE IInv'
<1>1. /\ up /\ up' = FALSE /\ UNCHANGED <<out, css, job>> /\ History
      /\ job[j].pc \in {"walk1", "walk2"}
  BY DEF VisitGone, Panic, At
<1>2. PICK e \in job[j].todo : Comes(j, e) /\ src[e] = 0
  BY DEF VisitGone
<1>3. Active(j) /\ (InWalk1(j) \/ InWalk2(j)) /\ e \in Entries
  BY <1>1 DEF Active, IInv, TypeOK, JobStates, InWalk1, InWalk2
<1>4. ASSUME solo[j] PROVE Cause(j)
  <2>1. Excused(j, e)
    BY <1>2, <1>3, <1>4 DEF IInv, ProgressInv, Progress, TodoThere
  <2>2. QED
    BY <1>1, <1>2, <1>3, <2>1 DEF Cause, EditedAway
<1>5. QED
  BY <1>1, <1>3, <1>4, StopIInv DEF IInv, TypeOK

\* Where one job sweeps, another one is not alone.
LEMMA MakeFolderFailsIInv == ASSUME IInv, NEW j \in Jobs, MakeFolderFails(j) PROVE IInv'
<1>1. up /\ Active(j) /\ Fail(j) /\ History /\ \E k \in Jobs \ {j} : Active(k)
  BY DEF MakeFolderFails, Visit, At, Active
<1>2. ~solo[j]
  BY <1>1 DEF IInv, AloneInv
<1>3. QED
  BY <1>1, <1>2, FailIInv

LEMMA MakeFolderIInv == ASSUME IInv, NEW j \in Jobs, MakeFolder(j) PROVE IInv'
<1>1. PICK e \in Dirs :
        /\ job[j].pc = "walk1" /\ up /\ Comes(j, e) /\ src[e] # 0
        /\ out' = [d \in Entries |-> IF d \in Path[e] THEN Folder ELSE out[d]]
        /\ job' = [job EXCEPT ![j].todo = (@ \ {e}) \cup Listing(e)]
  BY DEF MakeFolder, Visit, At
<1>2. PICK q : q = [job[j] EXCEPT !.todo = (@ \ {e}) \cup Listing(e)]
  OBVIOUS
<1>3. job[j] \in JobStates /\ JobOK(j) /\ OutOK /\ SourceInv
  BY DEF IInv, TypeOK
<1>4. Listing(e) \subseteq Entries /\ e \in Entries
  BY RegenerateAssumption DEF Listing
<1>5. /\ q \in JobStates /\ q.full = job[j].full /\ q.pc = "walk1" /\ q.full
      /\ q.todo = (job[j].todo \ {e}) \cup Listing(e)
  BY <1>1, <1>2, <1>3, <1>4 DEF JobStates, JobOK
<1>6. Steps(j, q) /\ UNCHANGED <<css, up>> /\ job'[j] = q /\ up' = TRUE
  BY <1>1, <1>2 DEF MakeFolder, Steps, Active, IInv, TypeOK
<1>7. /\ Path[e] \subseteq Dirs /\ e \in Path[e]
      /\ \A d \in Path[e] \ {Root} : Parent[d] \in Path[e]
  BY <1>4, PathFacts
<1>8. \A d \in Entries : out'[d] = IF d \in Path[e] THEN Folder ELSE out[d]
  BY <1>1
<1>9. OutOK'
  <2>1. out' \in [Entries -> {None, Folder, Empty, Torn} \cup Contents]
    BY <1>1, <1>3 DEF OutOK
  <2>2. \A d \in Dirs : out'[d] \in {None, Folder}
    BY <1>3, <1>8, RegenerateAssumption DEF OutOK
  <2>3. ASSUME NEW x \in Entries \ {Root}, out'[x] # None PROVE out'[Parent[x]] # None
    <3>1. Parent[x] \in Entries /\ Folder # None
      BY RegenerateAssumption
    <3>2. CASE x \in Path[e]
      BY <1>7, <1>8, <3>1, <3>2
    <3>3. CASE x \notin Path[e]
      BY <1>3, <1>8, <2>3, <3>1, <3>3 DEF OutOK
    <3>4. QED
      BY <3>2, <3>3
  <2>4. QED
    BY <2>1, <2>2, <2>3 DEF OutOK
<1>10. \A k \in Jobs \ {j} : job[k].pc = "fill" => out'[job[k].at] # None
  BY <1>8, RegenerateAssumption DEF IInv, TypeOK, JobOK, JobStates
<1>11. JobOK(j)' /\ css' \in Links /\ up' \in BOOLEAN /\ OpenOK'
  <2>1. \A d \in Entries : out[d] # None => out'[d] # None
    BY <1>8, RegenerateAssumption
  <2>2. OpenOK'
    BY <1>6, <2>1 DEF OpenOK, IInv, TypeOK, Steps, History
  <2>3. QED
    BY <1>5, <1>6, <2>2 DEF JobOK, IInv, TypeOK
<1>12. TypeOK'
  BY <1>5, <1>6, <1>9, <1>10, <1>11, StepTypeOK DEF IInv
<1>13. ASSUME solo[j] PROVE Progress(j)'
  <2>1. UNCHANGED <<src, touched>> /\ css' = css
    BY <1>6 DEF Steps, History
  <2>2. InWalk1(j) /\ Progress(j) /\ ~InWalk2(j)' /\ ~Copying(j)' /\ InWalk1(j)'
    BY <1>1, <1>5, <1>6, <1>13 DEF IInv, ProgressInv, Steps, InWalk1, InWalk2, Copying
  <2>3. NothingStale(j) /\ TodoThere(j) /\ FoldersMade(j) /\ SheetsInv(j)
    BY <2>2 DEF Progress
  <2>4. \A x \in Entries : Excused(j, x)' <=> Excused(j, x)
    BY <2>1, Kept
  <2>5. NothingStale(j)'
    BY <1>1, <1>3, <1>4, <1>8, <2>1, <2>3, <2>4, PathThere DEF NothingStale
  <2>6. TodoThere(j)'
    <3>1. \A x \in q.todo : x \in Entries /\ (src[x] # 0 \/ x \in job[j].todo)
      BY <1>4, <1>5 DEF Listing, JobStates
    <3>2. QED
      BY <1>6, <2>1, <2>3, <2>4, <3>1 DEF TodoThere
  <2>7. \A x \in Entries : src[x] # 0 /\ ToCome(j, x) => x = e \/ ToCome(j, x)'
    BY <1>3, <1>4, <1>5, <1>6, FolderVisited DEF ToCome
  <2>8. FoldersMade(j)'
    <3>1. ASSUME NEW d \in Dirs, src[d] # 0
          PROVE  Excused(j, d)' \/ out'[d] = Folder \/ ToCome(j, d)'
      <4>1. d \in Entries
        BY RegenerateAssumption
      <4>2. Excused(j, d) \/ out[d] = Folder \/ ToCome(j, d)
        BY <2>3, <3>1 DEF FoldersMade
      <4>3. QED
        BY <1>7, <1>8, <2>4, <2>7, <3>1, <4>1, <4>2
    <3>2. QED
      BY <2>1, <2>2, <3>1 DEF FoldersMade
  <2>9. SheetsInv(j)'
    <3>1. SUFFICES ASSUME touched[j] \cap Css = {} PROVE SheetsFound(j)'
      BY <1>5, <1>6, <2>1, <2>2 DEF SheetsInv
    <3>2. SheetsFound(j)
      BY <2>2, <2>3, <3>1 DEF SheetsInv
    <3>3. Found(j) = css /\ Found(j)' = css /\ job'[j].pc # "store" /\ TopCss' = TopCss
      BY <1>1, <1>5, <1>6, <2>1 DEF Found, TopCss
    <3>4. \A x \in TopCss : x \in Entries /\ src[x] # 0 /\ x # e
      BY RegenerateAssumption DEF TopCss
    <3>5. \A x \in TopCss : x \in ToSet(css) \/ ToCome(j, x)'
      BY <2>7, <3>2, <3>3, <3>4 DEF SheetsFound
    <3>6. ASSUME NEW x \in ToSet(css), NEW f \in q.todo PROVE Before(x, f)
      <4>1. x \in Entries /\ f \in Entries /\ Before(x, e)
        BY <1>1, <1>5, <3>2, <3>3, <3>4 DEF SheetsFound, Comes, JobStates
      <4>2. CASE f \in job[j].todo
        BY <3>2, <3>3, <4>2 DEF SheetsFound
      <4>3. CASE f \in Listing(e)
        BY <1>4, <4>1, <4>3, BeforeOrders DEF Listing
      <4>4. QED
        BY <1>5, <4>2, <4>3
    <3>7. QED
      BY <1>6, <3>2, <3>3, <3>5, <3>6 DEF SheetsFound
  <2>10. QED
    BY <2>2, <2>5, <2>6, <2>8, <2>9 DEF Progress
<1>14. QED
  BY <1>5, <1>6, <1>12, <1>13, StepIInv

LEMMA LoadCssIInv == ASSUME IInv, NEW j \in Jobs, LoadCss(j) PROVE IInv'
<1>1. PICK e \in Css :
        /\ job[j].pc = "walk1" /\ up /\ Comes(j, e) /\ src[e] # 0 /\ Parent[e] = Root
        /\ job' = [job EXCEPT ![j] = [@ EXCEPT !.pc = "store", !.at = e, !.links = css,
                                               !.todo = job[j].todo \ {e}]]
  BY DEF LoadCss, Visit, At
<1>2. PICK q : q = [job[j] EXCEPT !.pc = "store", !.at = e, !.links = css,
                                 !.todo = job[j].todo \ {e}]
  OBVIOUS
<1>3. job[j] \in JobStates /\ JobOK(j) /\ css \in Links /\ e \in Files /\ e \in Entries
  BY RegenerateAssumption DEF IInv, TypeOK, Files
<1>4. /\ q \in JobStates /\ q.full = job[j].full /\ q.pc = "store" /\ q.at = e
      /\ q.links = css /\ q.todo = job[j].todo \ {e} /\ q.full
  BY <1>1, <1>2, <1>3 DEF JobStates, JobOK
<1>5. Steps(j, q) /\ UNCHANGED <<out, css, up>> /\ job'[j] = q
  <2>1. job' = [job EXCEPT ![j] = q]
    BY <1>1, <1>2
  <2>2. History /\ UNCHANGED <<out, css, up>> /\ Active(j)
    BY <1>1 DEF LoadCss, Active
  <2>3. QED
    BY <1>1, <2>1, <2>2 DEF Steps, IInv, TypeOK
<1>6. JobOK(j)'
  BY <1>4, <1>5 DEF JobOK
<1>7. ASSUME solo[j] PROVE Progress(j)'
  <2>1. UNCHANGED <<src, touched, out, css>>
    BY <1>5 DEF Steps, History
  <2>2. InWalk1(j) /\ Progress(j) /\ ~InWalk2(j)' /\ ~Copying(j)' /\ InWalk1(j)'
    BY <1>1, <1>4, <1>5, <1>7 DEF IInv, ProgressInv, Steps, InWalk1, InWalk2, Copying
  <2>3. NothingStale(j) /\ TodoThere(j) /\ FoldersMade(j) /\ SheetsInv(j)
    BY <2>2 DEF Progress
  <2>4. \A x \in Entries : ToCome(j, x) => x = e \/ ToCome(j, x)'
    BY <1>3, <1>4, <1>5, FileVisited DEF ToCome
  <2>5. NothingStale(j)' /\ TodoThere(j)'
    BY <1>4, <1>5, <2>1, <2>3 DEF NothingStale, TodoThere, Excused
  <2>6. FoldersMade(j)'
    BY <1>3, <2>1, <2>2, <2>3, <2>4, RegenerateAssumption DEF FoldersMade, Excused, Files
  <2>7. SheetsInv(j)'
    <3>1. SUFFICES ASSUME touched[j] \cap Css = {} PROVE SheetsFound(j)'
      BY <1>4, <1>5, <2>1, <2>2 DEF SheetsInv
    <3>2. SheetsFound(j)
      BY <2>2, <2>3, <3>1 DEF SheetsInv
    <3>3. Found(j) = css /\ Found(j)' = Append(css, e) /\ TopCss' = TopCss
      BY <1>1, <1>4, <1>5, <2>1 DEF Found, TopCss
    <3>4. Ascending(css) /\ \A x \in ToSet(css) : Before(x, e)
      BY <1>1, <3>2, <3>3 DEF SheetsFound, Comes
    <3>5. Ascending(Append(css, e)) /\ ToSet(Append(css, e)) = ToSet(css) \cup {e}
      BY <1>3, <3>4, MoreLinks
    <3>6. e \in TopCss /\ \A x \in TopCss : x \in Entries
      BY <1>1, RegenerateAssumption DEF TopCss
    <3>7. \A f \in q.todo : Before(e, f)
      BY <1>1, <1>3, <1>4, ComesFirst DEF IInv
    <3>8. QED
      BY <1>4, <1>5, <2>1, <2>4, <3>2, <3>3, <3>5, <3>6, <3>7 DEF SheetsFound
  <2>8. QED
    BY <2>2, <2>5, <2>6, <2>7 DEF Progress
<1>8. QED
  BY <1>4, <1>5, <1>6, <1>7, PlainIInv

LEMMA StoreCssIInv == ASSUME IInv, NEW j \in Jobs, StoreCss(j) PROVE IInv'
<1>1. PICK q : q = [job[j] EXCEPT !.pc = "walk1"]
  OBVIOUS
<1>2. job[j] \in JobStates /\ JobOK(j) /\ job[j].pc = "store"
  BY DEF IInv, TypeOK, StoreCss, At
<1>3. /\ q \in JobStates /\ q.full = job[j].full /\ q.todo = job[j].todo
      /\ q.pc = "walk1" /\ q.full
  BY <1>1, <1>2 DEF JobStates, JobOK
<1>4. /\ Steps(j, q) /\ UNCHANGED <<out, up>> /\ job'[j] = q /\ up' = TRUE
      /\ css' = Append(job[j].links, job[j].at)
  BY <1>1, <1>2 DEF StoreCss, At, Goto, Steps, Active, IInv, TypeOK
<1>5. job[j].links \in Seq(Css) /\ job[j].at \in Css
  BY <1>2 DEF JobStates, JobOK, Links
<1>6. css' \in Links
  BY <1>4, <1>5 DEF Links
<1>7. JobOK(j)' /\ OutOK' /\ up' \in BOOLEAN
  BY <1>3, <1>4 DEF JobOK, OutOK, IInv, TypeOK
<1>8. \A k \in Jobs \ {j} : job[k].pc = "fill" => out'[job[k].at] # None
  BY <1>4 DEF IInv, TypeOK, JobOK
<1>9. TypeOK'
  BY <1>3, <1>4, <1>6, <1>7, <1>8, StepOpenOK, StepTypeOK DEF IInv, TypeOK, Steps, History
<1>10. ASSUME solo[j] PROVE Progress(j)'
  <2>1. UNCHANGED <<src, touched, out>>
    BY <1>4 DEF Steps, History
  <2>2. InWalk1(j) /\ Progress(j) /\ ~InWalk2(j)' /\ ~Copying(j)' /\ InWalk1(j)'
    BY <1>2, <1>3, <1>4, <1>10 DEF IInv, ProgressInv, Steps, InWalk1, InWalk2, Copying
  <2>3. NothingStale(j) /\ TodoThere(j) /\ FoldersMade(j) /\ SheetsInv(j)
    BY <2>2 DEF Progress
  <2>4. \A x \in Entries : ToCome(j, x)' <=> ToCome(j, x)
    BY <1>3, <1>4 DEF ToCome
  <2>5. NothingStale(j)' /\ TodoThere(j)'
    BY <1>3, <1>4, <2>1, <2>3 DEF NothingStale, TodoThere, Excused
  <2>6. FoldersMade(j)'
    BY <2>1, <2>2, <2>3, <2>4, RegenerateAssumption DEF FoldersMade, Excused
  <2>7. SheetsInv(j)'
    <3>1. SUFFICES ASSUME touched[j] \cap Css = {} PROVE SheetsFound(j)'
      BY <1>3, <1>4, <2>1, <2>2 DEF SheetsInv
    <3>2. SheetsFound(j)
      BY <2>2, <2>3, <3>1 DEF SheetsInv
    <3>3. Found(j)' = Found(j) /\ TopCss' = TopCss /\ job'[j].pc # "store"
      BY <1>2, <1>3, <1>4, <2>1, <3>2 DEF Found, TopCss, SheetsFound
    <3>4. \A x \in TopCss : x \in Entries
      BY RegenerateAssumption DEF TopCss
    <3>5. QED
      BY <1>3, <1>4, <2>4, <3>2, <3>3, <3>4 DEF SheetsFound
  <2>8. QED
    BY <2>2, <2>5, <2>6, <2>7 DEF Progress
<1>11. QED
  BY <1>3, <1>4, <1>9, <1>10, StepIInv

LEMMA SkipFileIInv == ASSUME IInv, NEW j \in Jobs, SkipFile(j) PROVE IInv'
<1>1. PICK e \in Files : /\ job[j].pc = "walk1" /\ up /\ ~(e \in Css /\ Parent[e] = Root)
                         /\ job' = [job EXCEPT ![j].todo = @ \ {e}]
  BY DEF SkipFile, Visit, At, Files
<1>2. PICK q : q = [job[j] EXCEPT !.todo = @ \ {e}]
  OBVIOUS
<1>3. job[j] \in JobStates /\ JobOK(j)
  BY DEF IInv, TypeOK
<1>4. /\ q \in JobStates /\ q.full = job[j].full /\ q.todo = job[j].todo \ {e}
      /\ q.pc = "walk1" /\ q.full
  BY <1>1, <1>2, <1>3 DEF JobStates, JobOK
<1>5. Steps(j, q) /\ UNCHANGED <<out, css, up>> /\ job'[j] = q
  BY <1>1, <1>2 DEF SkipFile, Steps, Active, IInv, TypeOK
<1>6. JobOK(j)'
  BY <1>4, <1>5 DEF JobOK
<1>7. ASSUME solo[j] PROVE Progress(j)'
  <2>1. UNCHANGED <<src, touched, out, css>>
    BY <1>5 DEF Steps, History
  <2>2. InWalk1(j) /\ Progress(j) /\ ~InWalk2(j)' /\ ~Copying(j)' /\ InWalk1(j)'
    BY <1>1, <1>4, <1>5, <1>7 DEF IInv, ProgressInv, Steps, InWalk1, InWalk2, Copying
  <2>3. NothingStale(j) /\ TodoThere(j) /\ FoldersMade(j) /\ SheetsInv(j)
    BY <2>2 DEF Progress
  <2>4. \A x \in Entries : ToCome(j, x) => x = e \/ ToCome(j, x)'
    BY <1>4, <1>5, FileVisited DEF ToCome
  <2>5. NothingStale(j)' /\ TodoThere(j)'
    BY <1>4, <1>5, <2>1, <2>3 DEF NothingStale, TodoThere, Excused
  <2>6. FoldersMade(j)'
    BY <2>1, <2>2, <2>3, <2>4, RegenerateAssumption DEF FoldersMade, Excused, Files
  <2>7. SheetsInv(j)'
    <3>1. SUFFICES ASSUME touched[j] \cap Css = {} PROVE SheetsFound(j)'
      BY <1>4, <1>5, <2>1, <2>2 DEF SheetsInv
    <3>2. SheetsFound(j)
      BY <2>2, <2>3, <3>1 DEF SheetsInv
    <3>3. Found(j)' = Found(j) /\ TopCss' = TopCss /\ job'[j].pc # "store"
      BY <1>1, <1>4, <1>5, <2>1 DEF Found, TopCss
    <3>4. \A x \in TopCss : x \in Entries /\ x # e
      BY <1>1, RegenerateAssumption DEF TopCss
    <3>5. QED
      BY <1>4, <1>5, <2>4, <3>2, <3>3, <3>4 DEF SheetsFound
  <2>8. QED
    BY <2>2, <2>5, <2>6, <2>7 DEF Progress
<1>8. QED
  BY <1>4, <1>5, <1>6, <1>7, PlainIInv

LEMMA Walk1DoneIInv == ASSUME IInv, NEW j \in Jobs, Walk1Done(j) PROVE IInv'
<1>1. PICK a : a = [job[j] EXCEPT !.pc = "walk2"]
  OBVIOUS
<1>2. PICK q : q = [a EXCEPT !.todo = {Root}]
  OBVIOUS
<1>3. job[j] \in JobStates /\ JobOK(j) /\ job[j].pc = "walk1" /\ job[j].todo = {}
  BY DEF IInv, TypeOK, Walk1Done, At
<1>4. a \in JobStates /\ a.full = job[j].full /\ a.pc = "walk2"
  BY <1>1, <1>3 DEF JobStates
<1>5. q \in JobStates /\ q.full = job[j].full /\ q.todo = {Root} /\ q.pc = "walk2" /\ q.full
  BY <1>2, <1>3, <1>4, RegenerateAssumption DEF JobStates, JobOK
<1>6. Steps(j, q) /\ UNCHANGED <<out, css, up>> /\ job'[j] = q
  BY <1>1, <1>2, <1>3 DEF Walk1Done, At, Steps, Active, IInv, TypeOK
<1>7. JobOK(j)'
  BY <1>5, <1>6 DEF JobOK
<1>8. ASSUME solo[j] PROVE Progress(j)'
  <2>1. UNCHANGED <<src, touched, out, css>> /\ src[Root] # 0
    BY <1>6 DEF IInv, SourceInv, Steps, History
  <2>2. InWalk1(j) /\ Progress(j) /\ InWalk2(j)' /\ ~Copying(j)' /\ ~InWalk1(j)'
    BY <1>3, <1>5, <1>6, <1>8 DEF IInv, ProgressInv, Steps, InWalk1, InWalk2, Copying
  <2>3. NothingStale(j) /\ FoldersMade(j) /\ SheetsInv(j)
    BY <2>2 DEF Progress
  <2>4. \A x \in Entries : ~ToCome(j, x) /\ ToCome(j, x)'
    BY <1>3, <1>5, <1>6, PathFacts DEF ToCome
  <2>5. NothingStale(j)' /\ TodoThere(j)'
    BY <1>5, <1>6, <2>1, <2>3 DEF NothingStale, TodoThere, Excused
  <2>6. FoldersMade(j)'
    BY <2>1, <2>3, <2>4, RegenerateAssumption DEF FoldersMade, Excused
  <2>7. FilesCopied(j)'
    BY <2>4 DEF FilesCopied, Files
  <2>8. SheetsInv(j)'
    <3>1. SUFFICES ASSUME touched[j] \cap Css = {} PROVE LinksTopCss(css)'
      BY <1>5, <1>6, <2>1, <2>2 DEF SheetsInv
    <3>2. SheetsFound(j) /\ Found(j) = css
      BY <1>3, <2>2, <2>3, <3>1 DEF SheetsInv, Found
    <3>3. \A x \in TopCss : x \in Entries
      BY RegenerateAssumption DEF TopCss
    <3>4. ToSet(css) = TopCss /\ Ascending(css)
      BY <2>4, <3>2, <3>3 DEF SheetsFound
    <3>5. QED
      BY <2>1, <3>4 DEF LinksTopCss, TopCss
  <2>9. QED
    BY <2>2, <2>5, <2>6, <2>7, <2>8 DEF Progress
<1>9. QED
  BY <1>5, <1>6, <1>7, <1>8, PlainIInv
-----------------------------------------------------------------------------
(* WalkAndCopyMarkdownFiles. *)

LEMMA EnterFolderIInv == ASSUME IInv, NEW j \in Jobs, EnterFolder(j) PROVE IInv'
<1>1. PICK e \in Dirs : /\ job[j].pc = "walk2" /\ up
                        /\ job' = [job EXCEPT ![j].todo = (@ \ {e}) \cup Listing(e)]
  BY DEF EnterFolder, Visit, At
<1>2. PICK q : q = [job[j] EXCEPT !.todo = (@ \ {e}) \cup Listing(e)]
  OBVIOUS
<1>3. job[j] \in JobStates /\ JobOK(j) /\ SourceInv /\ e \in Entries /\ Listing(e) \subseteq Entries
  BY RegenerateAssumption DEF IInv, TypeOK, Listing
<1>4. /\ q \in JobStates /\ q.full = job[j].full /\ q.pc = "walk2" /\ q.full
      /\ q.todo = (job[j].todo \ {e}) \cup Listing(e)
  BY <1>1, <1>2, <1>3 DEF JobStates, JobOK
<1>5. Steps(j, q) /\ UNCHANGED <<out, css, up>> /\ job'[j] = q
  BY <1>1, <1>2 DEF EnterFolder, Steps, Active, IInv, TypeOK
<1>6. JobOK(j)'
  BY <1>4, <1>5 DEF JobOK
<1>7. ASSUME solo[j] PROVE Progress(j)'
  <2>1. UNCHANGED <<src, touched, out, css>>
    BY <1>5 DEF Steps, History
  <2>2. /\ InWalk2(j) /\ Progress(j) /\ InWalk2(j)'
        /\ ~Copying(j) /\ ~Copying(j)' /\ ~InWalk1(j) /\ ~InWalk1(j)'
    BY <1>1, <1>4, <1>5, <1>7 DEF IInv, ProgressInv, Steps, InWalk1, InWalk2, Copying
  <2>3. NothingStale(j) /\ TodoThere(j) /\ FoldersMade(j) /\ FilesCopied(j) /\ SheetsInv(j)
    BY <2>2 DEF Progress
  <2>4. \A x \in Entries : src[x] # 0 /\ ToCome(j, x) => x = e \/ ToCome(j, x)'
    BY <1>3, <1>4, <1>5, FolderVisited DEF ToCome
  <2>5. NothingStale(j)' /\ TodoThere(j)' /\ FoldersMade(j)'
    BY <1>4, <1>5, <2>1, <2>2, <2>3 DEF NothingStale, TodoThere, FoldersMade, Excused, Listing
  <2>6. FilesCopied(j)'
    BY <2>1, <2>2, <2>3, <2>4, Kept DEF FilesCopied, Files
  <2>7. SheetsInv(j)'
    BY <1>4, <1>5, <2>1, <2>2, <2>3 DEF SheetsInv, LinksTopCss, TopCss
  <2>8. QED
    BY <2>2, <2>5, <2>6, <2>7 DEF Progress
<1>8. QED
  BY <1>4, <1>5, <1>6, <1>7, PlainIInv

LEMMA CopyOneIInv == ASSUME IInv, NEW j \in Jobs, CopyOne(j) PROVE IInv'
<1>1. PICK e \in Files :
        /\ job[j].pc = "walk2" /\ up /\ src[e] # 0
        /\ job' = [job EXCEPT ![j] = [@ EXCEPT !.pc = "read", !.at = e,
                                               !.todo = job[j].todo \ {e}]]
  BY DEF CopyOne, Visit, At, Files
<1>2. PICK q : q = [job[j] EXCEPT !.pc = "read", !.at = e, !.todo = job[j].todo \ {e}]
  OBVIOUS
<1>3. job[j] \in JobStates /\ JobOK(j) /\ job[j].full /\ e \in Entries /\ e \notin Dirs
  BY <1>1 DEF IInv, TypeOK, JobOK, Files
<1>4. /\ q \in JobStates /\ q.full = job[j].full /\ q.pc = "read" /\ q.at = e /\ q.full
      /\ q.todo = job[j].todo \ {e}
  BY <1>1, <1>2, <1>3 DEF JobStates
<1>5. Steps(j, q) /\ UNCHANGED <<out, css, up>> /\ job'[j] = q
  <2>1. job' = [job EXCEPT ![j] = q]
    BY <1>1, <1>2
  <2>2. History /\ UNCHANGED <<out, css, up>> /\ Active(j)
    BY <1>1 DEF CopyOne, Active
  <2>3. QED
    BY <1>1, <2>1, <2>2 DEF Steps, IInv, TypeOK
<1>6. JobOK(j)'
  BY <1>3, <1>4, <1>5 DEF JobOK
<1>7. ASSUME solo[j] PROVE Progress(j)'
  <2>1. UNCHANGED <<src, touched, out, css>>
    BY <1>5 DEF Steps, History
  <2>2. /\ InWalk2(j) /\ Progress(j) /\ InWalk2(j)'
        /\ ~Copying(j) /\ Copying(j)' /\ ~InWalk1(j) /\ ~InWalk1(j)'
    BY <1>1, <1>4, <1>5, <1>7 DEF IInv, ProgressInv, Steps, InWalk1, InWalk2, Copying
  <2>3. NothingStale(j) /\ TodoThere(j) /\ FoldersMade(j) /\ FilesCopied(j) /\ SheetsInv(j)
    BY <2>2 DEF Progress
  <2>4. \A x \in Entries : ToCome(j, x) => x = e \/ ToCome(j, x)'
    BY <1>4, <1>5, FileVisited DEF ToCome
  <2>5. NothingStale(j)' /\ TodoThere(j)' /\ FoldersMade(j)'
    BY <1>4, <1>5, <2>1, <2>2, <2>3 DEF NothingStale, TodoThere, FoldersMade, Excused
  <2>6. FilesCopied(j)'
    BY <1>4, <1>5, <2>1, <2>2, <2>3, <2>4, Kept DEF FilesCopied, Files
  <2>7. SheetsInv(j)'
    BY <1>4, <1>5, <2>1, <2>2, <2>3 DEF SheetsInv, LinksTopCss, TopCss
  <2>8. ReadRight(j)'
    BY <1>1, <1>4, <1>5, <2>1 DEF ReadRight
  <2>9. QED
    BY <2>2, <2>5, <2>6, <2>7, <2>8 DEF Progress
<1>8. QED
  BY <1>4, <1>5, <1>6, <1>7, PlainIInv

LEMMA Walk2DoneIInv == ASSUME IInv, NEW j \in Jobs, Walk2Done(j) PROVE IInv'
<1>1. PICK q : q = [job[j] EXCEPT !.pc = "done"]
  OBVIOUS
<1>2. job[j] \in JobStates /\ JobOK(j) /\ job[j].pc = "walk2"
  BY DEF IInv, TypeOK, Walk2Done, At
<1>3. q \in JobStates /\ q.full = job[j].full /\ q.pc = "done" /\ q.todo = job[j].todo
  BY <1>1, <1>2 DEF JobStates
<1>4. Steps(j, q) /\ UNCHANGED <<out, css, up>> /\ job'[j] = q
  BY <1>1, <1>2 DEF Walk2Done, At, Goto, Steps, Active, IInv, TypeOK
<1>5. JobOK(j)' /\ ~Active(j)'
  BY <1>3, <1>4 DEF JobOK, Active
<1>6. QED
  BY <1>3, <1>4, <1>5, PlainIInv
-----------------------------------------------------------------------------
(* CopyFile and CopyAndTransformMarkdownFile. *)

\* A step within a file that leaves the target folder alone.
LEMMA CopyingProgress ==
  ASSUME IInv, NEW j \in Jobs, NEW q \in JobStates, Steps(j, q), Copying(j), solo[j],
         UNCHANGED <<out, css>>, Copying(j)', q.full = job[j].full, q.at = job[j].at,
         q.todo = job[j].todo, ReadRight(j)'
  PROVE  Progress(j)'
<1>1. UNCHANGED <<src, touched>> /\ job'[j] = q
  BY DEF IInv, TypeOK, Steps, History
<1>2. /\ Progress(j) /\ InWalk2(j)' = InWalk2(j) /\ ~InWalk1(j) /\ ~InWalk1(j)'
      /\ job[j].pc # "sweep" /\ q.pc # "sweep"
  BY <1>1 DEF IInv, ProgressInv, Steps, InWalk1, InWalk2, Copying
<1>3. \A x \in Entries : ToCome(j, x)' = ToCome(j, x)
  BY <1>1 DEF ToCome
<1>4. SheetsInv(j)'
  BY <1>1, <1>2 DEF Progress, SheetsInv, LinksTopCss, TopCss
<1>5. ASSUME InWalk2(j) PROVE NothingStale(j)' /\ TodoThere(j)' /\ FoldersMade(j)' /\ FilesCopied(j)'
  <2>1. NothingStale(j) /\ TodoThere(j) /\ FoldersMade(j) /\ FilesCopied(j)
    BY <1>2, <1>5 DEF Progress
  <2>2. NothingStale(j)' /\ TodoThere(j)' /\ FoldersMade(j)'
    BY <1>1, <1>2, <2>1 DEF NothingStale, TodoThere, FoldersMade, Excused
  <2>3. FilesCopied(j)'
    BY <1>1, <1>3, <2>1, Kept DEF FilesCopied, Files
  <2>4. QED
    BY <2>2, <2>3
<1>6. QED
  BY <1>2, <1>4, <1>5 DEF Progress

LEMMA ReadIInv == ASSUME IInv, NEW j \in Jobs, Read(j) PROVE IInv'
<1>1. job[j] \in JobStates /\ JobOK(j) /\ job[j].pc = "read" /\ up /\ Active(j) /\ History
  BY DEF IInv, TypeOK, Read, At, Active
<1>2. Copying(j) /\ (solo[j] => ReadRight(j))
  BY <1>1 DEF Copying, IInv, ProgressInv, Progress
<1>3. CASE src[job[j].at] = 0
  <2>1. job[j].full => ~solo[j] \/ Cause(j)
    BY <1>1, <1>2, <1>3 DEF ReadRight, Cause, NoFile
  <2>2. QED
    BY <1>1, <1>3, <2>1, FailIInv DEF Read
<1>4. CASE src[job[j].at] # 0
  <2>1. PICK c : c = Content(src[job[j].at], <<>>)
    OBVIOUS
  <2>2. PICK p : p = IF job[j].at \in Md THEN "generate" ELSE "open"
    OBVIOUS
  <2>3. PICK q : q = [job[j] EXCEPT !.data = c, !.pc = p]
    OBVIOUS
  <2>4. c \in Contents /\ c.v = src[job[j].at] /\ c.css = <<>>
    <3>1. job[j].at \in Entries
      BY <1>1 DEF JobStates
    <3>2. src[job[j].at] \in Nat
      BY <3>1 DEF IInv, TypeOK
    <3>3. <<>> \in Links
      BY DEF Links
    <3>4. QED
      BY <2>1, <3>2, <3>3 DEF Content, Contents
  <2>5. p \in {"generate", "open"}
    BY <2>2
  <2>6. /\ q \in JobStates /\ q.full = job[j].full /\ q.pc = p /\ q.data = c
        /\ q.at = job[j].at /\ q.todo = job[j].todo
    BY <1>1, <2>3, <2>4, <2>5 DEF JobStates
  <2>7. Steps(j, q) /\ UNCHANGED <<out, css, up>> /\ job'[j] = q
    <3>1. job' = [job EXCEPT ![j] = q] /\ UNCHANGED <<out, css, up>>
      BY <1>4, <2>1, <2>2, <2>3 DEF Read
    <3>2. QED
      BY <1>1, <3>1 DEF Steps, IInv, TypeOK
  <2>8. JobOK(j)' /\ Copying(j)'
    BY <1>1, <2>4, <2>5, <2>6, <2>7 DEF JobOK, Copying
  <2>9. ASSUME solo[j] PROVE Progress(j)'
    <3>1. UNCHANGED <<src, touched>>
      BY <2>7 DEF Steps, History
    <3>2. ReadRight(j)'
      BY <1>4, <2>2, <2>4, <2>6, <2>7, <3>1 DEF ReadRight
    <3>3. QED
      BY <1>2, <2>6, <2>7, <2>8, <2>9, <3>2, CopyingProgress
  <2>10. QED
    BY <2>6, <2>7, <2>8, <2>9, PlainIInv
<1>5. QED
  BY <1>3, <1>4

LEMMA GenerateIInv == ASSUME IInv, NEW j \in Jobs, Generate(j) PROVE IInv'
<1>1. job[j] \in JobStates /\ JobOK(j) /\ job[j].pc = "generate" /\ up /\ Active(j) /\ History
  BY DEF IInv, TypeOK, Generate, At, Active
<1>2. PICK c : c = Content(job[j].data.v, css)
  OBVIOUS
<1>3. PICK q : q = [job[j] EXCEPT !.data = c, !.pc = "open"]
  OBVIOUS
<1>4. c \in Contents /\ c.v = job[j].data.v /\ c.css = css
  <2>1. job[j].data.v \in Nat
    BY <1>1 DEF JobOK, Contents
  <2>2. css \in Links
    BY DEF IInv, TypeOK
  <2>3. QED
    BY <1>2, <2>1, <2>2 DEF Content, Contents
<1>5. /\ q \in JobStates /\ q.full = job[j].full /\ q.pc = "open" /\ q.data = c
      /\ q.at = job[j].at /\ q.todo = job[j].todo
  BY <1>1, <1>3, <1>4 DEF JobStates
<1>6. Steps(j, q) /\ UNCHANGED <<out, css, up>> /\ job'[j] = q
  <2>1. job' = [job EXCEPT ![j] = q] /\ UNCHANGED <<out, css, up>>
    BY <1>2, <1>3 DEF Generate
  <2>2. QED
    BY <1>1, <2>1 DEF Steps, IInv, TypeOK
<1>7. JobOK(j)' /\ Copying(j) /\ Copying(j)'
  BY <1>1, <1>4, <1>5, <1>6 DEF JobOK, Copying
<1>8. ASSUME solo[j] PROVE Progress(j)'
  <2>1. UNCHANGED <<src, touched>>
    BY <1>6 DEF Steps, History
  <2>2. ReadRight(j) /\ SheetsInv(j)
    BY <1>1, <1>7, <1>8 DEF IInv, ProgressInv, Progress
  <2>3. job[j].full => touched[j] \cap Css # {} \/ LinksTopCss(css)
    BY <1>7, <2>2 DEF SheetsInv, InWalk2
  <2>4. job[j].full => touched[j] \cap Css # {} \/ LinksTopCss(c.css)'
    BY <1>4, <2>1, <2>3 DEF LinksTopCss, TopCss
  <2>5. ReadRight(j)'
    BY <1>1, <1>4, <1>5, <1>6, <2>1, <2>2, <2>4 DEF ReadRight, Excused
  <2>6. QED
    BY <1>5, <1>6, <1>7, <1>8, <2>5, CopyingProgress
<1>9. QED
  BY <1>5, <1>6, <1>7, <1>8, PlainIInv

LEMMA GeneratePanicsIInv == ASSUME IInv, NEW j \in Jobs, GeneratePanics(j) PROVE IInv'
<1>1. /\ up' = FALSE /\ UNCHANGED <<out, css, job>> /\ History /\ Active(j)
      /\ job[j].pc = "generate" /\ FragileText(j)
  BY DEF GeneratePanics, Panic, At, Active, FragileText
<1>2. QED
  BY <1>1, StopIInv DEF Cause

\* A file that is put in a folder that is there.
LEMMA PutOutOK ==
  ASSUME OutOK, NEW e \in Files, NEW c \in {Empty, Torn} \cup Contents,
         out[Parent[e]] # None, out' = [out EXCEPT ![e] = c]
  PROVE  /\ OutOK' /\ out'[e] = c /\ out'[e] # None
         /\ \A x \in Entries : x # e => out'[x] = out[x]
<1>1. /\ c # None /\ e # Root /\ Dirs \subseteq Entries /\ e \notin Dirs /\ e \in Entries
      /\ \A x \in Entries \ {Root} : Parent[x] \in Entries
  BY RegenerateAssumption DEF Files
<1>2. \A x \in Entries : out'[x] = IF x = e THEN c ELSE out[x]
  BY <1>1 DEF OutOK
<1>3. out' \in [Entries -> {None, Folder, Empty, Torn} \cup Contents]
  BY <1>1 DEF OutOK
<1>4. ASSUME NEW x \in Entries \ {Root}, out'[x] # None PROVE out'[Parent[x]] # None
  <2>1. out[Parent[x]] # None
    BY <1>2, <1>4 DEF OutOK
  <2>2. QED
    BY <1>1, <1>2, <2>1
<1>5. QED
  BY <1>1, <1>2, <1>3, <1>4 DEF OutOK

\* Nothing but the file that is copied changes in the target folder.
LEMMA PutProgress ==
  ASSUME IInv, NEW j \in Jobs, NEW q \in JobStates, Steps(j, q), InWalk2(j), Copying(j), solo[j],
         NEW e \in Files, e = job[j].at, css' = css, \A x \in Entries : x # e => out'[x] = out[x],
         q.todo = job[j].todo, q.full, q.pc \in {"walk2", "fill"},
         q.pc = "fill" => q.at = e /\ ReadRight(j)',
         q.pc = "walk2" => Excused(j, e) \/ FileAsExpected(j, e)'
  PROVE  Progress(j)'
<1>1. UNCHANGED <<src, touched>> /\ job'[j] = q
  BY DEF IInv, TypeOK, Steps, History
<1>2. /\ Progress(j) /\ InWalk2(j)' /\ ~InWalk1(j) /\ ~InWalk1(j)' /\ job[j].full
      /\ (Copying(j)' <=> q.pc = "fill") /\ q.pc # "sweep"
  BY <1>1 DEF IInv, ProgressInv, Steps, InWalk1, InWalk2, Copying
<1>3. Dirs \subseteq Entries
  BY RegenerateAssumption
<1>4. \A x \in Entries : ToCome(j, x)' = ToCome(j, x)
  BY <1>1 DEF ToCome
<1>5. NothingStale(j) /\ TodoThere(j) /\ FoldersMade(j) /\ FilesCopied(j) /\ SheetsInv(j) /\ ReadRight(j)
  BY <1>2 DEF Progress
<1>6. SheetsInv(j)'
  BY <1>1, <1>2, <1>5 DEF SheetsInv, LinksTopCss, TopCss
<1>7. Excused(j, e) \/ src[e] # 0
  BY <1>2, <1>5 DEF ReadRight
<1>8. NothingStale(j)'
  BY <1>1, <1>5, <1>7 DEF NothingStale, Excused
<1>9. TodoThere(j)' /\ FoldersMade(j)'
  BY <1>1, <1>2, <1>3, <1>5 DEF TodoThere, FoldersMade, Excused, Files
<1>10. FilesCopied(j)'
  <2>1. ASSUME NEW f \in Files, src[f] # 0
        PROVE  \/ Excused(j, f)' \/ FileAsExpected(j, f)' \/ ToCome(j, f)'
               \/ Copying(j)' /\ q.at = f
    <3>1. f \in Entries /\ (Excused(j, f)' <=> Excused(j, f))
      BY <1>1 DEF Files, Excused
    <3>2. CASE f = e
      BY <1>2, <3>1, <3>2
    <3>3. CASE f # e
      <4>1. Excused(j, f) \/ FileAsExpected(j, f) \/ ToCome(j, f)
        BY <1>5, <2>1, <3>3 DEF FilesCopied
      <4>2. FileAsExpected(j, f)' <=> FileAsExpected(j, f)
        BY <1>1, <3>1, <3>3, Kept
      <4>3. QED
        BY <1>4, <3>1, <4>1, <4>2
    <3>4. QED
      BY <3>2, <3>3
  <2>2. QED
    BY <1>1, <2>1 DEF FilesCopied
<1>11. QED
  BY <1>2, <1>6, <1>8, <1>9, <1>10 DEF Progress

LEMMA OpenIInv == ASSUME IInv, NEW j \in Jobs, Open(j) PROVE IInv'
<1>1. /\ job[j] \in JobStates /\ JobOK(j) /\ job[j].pc = "open" /\ up /\ Active(j) /\ History
      /\ Copying(j)
  BY DEF IInv, TypeOK, Open, At, Active, Copying
<1>2. PICK e \in Files : e = job[j].at
  BY <1>1 DEF JobOK, JobStates, Files
<1>3. e # Root /\ Parent[e] \in Dirs /\ e \in Entries /\ Dirs \subseteq Entries
  BY <1>2, RegenerateAssumption DEF Files
<1>4. CASE out[Parent[e]] = None
  <2>1. ASSUME job[j].full, solo[j], ~Excused(j, e) PROVE FALSE
    <3>1. Progress(j) /\ InWalk2(j) /\ ~InWalk1(j)
      BY <1>1, <2>1 DEF IInv, ProgressInv, InWalk1, InWalk2
    <3>2. src[e] # 0
      BY <1>1, <1>2, <2>1, <3>1 DEF Progress, ReadRight
    <3>3. src[Parent[e]] # 0
      BY <1>3, <3>2 DEF IInv, SourceInv
    <3>4. ~Excused(j, Parent[e]) /\ FoldersMade(j)
      BY <1>3, <2>1, <3>1, ParentExcused DEF Progress
    <3>5. out[Parent[e]] = Folder /\ Folder # None
      BY <1>3, <3>1, <3>3, <3>4, RegenerateAssumption DEF FoldersMade
    <3>6. QED
      BY <1>4, <3>5
  <2>2. job[j].full => ~solo[j] \/ Cause(j)
    BY <1>1, <1>2, <2>1 DEF Cause, NoFile
  <2>3. QED
    BY <1>1, <1>2, <1>4, <2>2, FailIInv DEF Open
<1>5. CASE out[Parent[e]] # None
  <2>1. PICK q : q = [job[j] EXCEPT !.pc = "fill"]
    OBVIOUS
  <2>2. /\ q \in JobStates /\ q.full = job[j].full /\ q.pc = "fill" /\ q.at = e
        /\ q.data = job[j].data /\ q.todo = job[j].todo
    BY <1>1, <1>2, <2>1 DEF JobStates
  <2>3. /\ Steps(j, q) /\ UNCHANGED <<css, up>> /\ job'[j] = q /\ up' = TRUE
        /\ out' = [out EXCEPT ![e] = Empty]
    BY <1>1, <1>2, <1>5, <2>1 DEF Open, Goto, Steps, IInv, TypeOK
  <2>4. OutOK
    BY DEF IInv, TypeOK
  <2>5. /\ OutOK' /\ out'[e] = Empty /\ out'[e] # None
        /\ \A x \in Entries : x # e => out'[x] = out[x]
    BY <1>5, <2>3, <2>4, PutOutOK
  <2>6. \A k \in Jobs \ {j} : job[k].pc = "fill" => out'[job[k].at] # None
    BY <2>5 DEF IInv, TypeOK, JobOK, JobStates
  <2>7. JobOK(j)' /\ css' \in Links /\ up' \in BOOLEAN /\ OpenOK'
    <3>1. OpenOK'
      BY <2>3, <2>5 DEF OpenOK, IInv, TypeOK, Steps, History
    <3>2. QED
      BY <1>1, <1>2, <1>3, <2>2, <2>3, <2>5, <3>1 DEF JobOK, IInv, TypeOK
  <2>8. TypeOK'
    BY <2>2, <2>3, <2>5, <2>6, <2>7, StepTypeOK DEF IInv
  <2>9. ASSUME solo[j] PROVE Progress(j)'
    <3>1. UNCHANGED <<src, touched>> /\ Progress(j)
      BY <1>1, <2>3, <2>9 DEF IInv, ProgressInv, Steps, History
    <3>2. ReadRight(j)'
      <4>1. ReadRight(j)
        BY <1>1, <3>1 DEF Progress
      <4>2. job[j].full => IF e \in Md THEN touched[j] \cap Css # {} \/ LinksTopCss(q.data.css)'
                                       ELSE q.data.css = <<>>
        BY <1>1, <1>2, <2>2, <3>1, <4>1 DEF ReadRight, LinksTopCss, TopCss
      <4>3. QED
        BY <1>1, <1>2, <2>2, <2>3, <2>5, <3>1, <4>1, <4>2 DEF ReadRight, Excused
    <3>3. CASE q.full
      BY <1>1, <1>2, <2>2, <2>3, <2>5, <2>9, <3>2, <3>3, PutProgress DEF InWalk2
    <3>4. CASE ~q.full
      BY <2>2, <2>3, <3>2, <3>4 DEF Progress, SheetsInv, InWalk1, InWalk2, Copying
    <3>5. QED
      BY <3>3, <3>4
  <2>10. QED
    BY <2>2, <2>3, <2>8, <2>9, StepIInv
<1>6. QED
  BY <1>4, <1>5

\* What a job that is alone writes is what it has read and generated.
LEMMA FillsAsExpected ==
  ASSUME IInv, NEW j \in Jobs, Fill(j), solo[j]
  PROVE  /\ out' = [out EXCEPT ![job[j].at] = job[j].data] /\ job[j].data \in Contents
         /\ ReadRight(j)
<1>1. JobOK(j) /\ job[j].pc = "fill" /\ Active(j) /\ Copying(j)
  BY DEF IInv, TypeOK, Fill, At, Active, Copying
<1>2. ReadRight(j)
  BY <1>1 DEF IInv, ProgressInv, Progress
<1>3. out[job[j].at] = Empty
  BY <1>1, <1>2 DEF ReadRight
<1>4. QED
  BY <1>1, <1>2, <1>3 DEF Fill, JobOK

LEMMA FillIInv == ASSUME IInv, NEW j \in Jobs, Fill(j) PROVE IInv'
<1>1. /\ job[j] \in JobStates /\ JobOK(j) /\ job[j].pc = "fill" /\ up /\ Active(j) /\ History
      /\ Copying(j)
  BY DEF IInv, TypeOK, Fill, At, Active, Copying
<1>2. PICK e \in Files : e = job[j].at
  BY <1>1 DEF JobOK, JobStates, Files
<1>3. e # Root /\ e \in Entries /\ out[e] # None /\ out[Parent[e]] # None
  BY <1>1, <1>2, RegenerateAssumption DEF IInv, TypeOK, OutOK, JobOK, Files
<1>4. PICK c \in {Empty, Torn} \cup Contents : out' = [out EXCEPT ![e] = c]
  BY <1>1, <1>2 DEF Fill, JobOK
<1>5. PICK p : p = IF job[j].full THEN "walk2" ELSE "done"
  OBVIOUS
<1>6. PICK q : q = [job[j] EXCEPT !.pc = p]
  OBVIOUS
<1>7. /\ q \in JobStates /\ q.full = job[j].full /\ q.pc = p
      /\ q.todo = job[j].todo
  BY <1>1, <1>5, <1>6 DEF JobStates
<1>8. Steps(j, q) /\ UNCHANGED <<css, up>> /\ job'[j] = q /\ up' = TRUE
  BY <1>1, <1>5, <1>6 DEF Fill, Goto, Steps, IInv, TypeOK
<1>9. OutOK
  BY DEF IInv, TypeOK
<1>10. /\ OutOK' /\ out'[e] = c /\ out'[e] # None
       /\ \A x \in Entries : x # e => out'[x] = out[x]
  BY <1>3, <1>4, <1>9, PutOutOK
<1>11. \A k \in Jobs \ {j} : job[k].pc = "fill" => out'[job[k].at] # None
  BY <1>10 DEF IInv, TypeOK, JobOK, JobStates
<1>12. JobOK(j)' /\ css' \in Links /\ up' \in BOOLEAN /\ OpenOK'
  <2>1. OpenOK'
    BY <1>8, <1>10 DEF OpenOK, IInv, TypeOK, Steps, History
  <2>2. QED
    BY <1>5, <1>7, <1>8, <2>1 DEF JobOK, IInv, TypeOK
<1>13. TypeOK'
  BY <1>7, <1>8, <1>10, <1>11, <1>12, StepTypeOK DEF IInv
<1>14. ASSUME Active(j)', solo[j] PROVE Progress(j)'
  <2>1. job[j].full /\ p = "walk2" /\ InWalk2(j)
    BY <1>1, <1>5, <1>7, <1>8, <1>14 DEF Active, InWalk2
  <2>2. out'[e] = job[j].data /\ job[j].data \in Contents /\ ReadRight(j)
    BY <1>2, <1>3, <1>9, <1>14, FillsAsExpected DEF OutOK
  <2>3. UNCHANGED <<src, touched>>
    BY <1>8 DEF Steps, History
  <2>4. Excused(j, e) \/ FileAsExpected(j, e)'
    <3>1. Excused(j, e) \/ job[j].data.v = src[e]
      BY <1>1, <1>2, <2>2 DEF ReadRight
    <3>2. IF e \in Md THEN touched[j] \cap Css # {} \/ LinksTopCss(job[j].data.css)
                      ELSE job[j].data.css = <<>>
      BY <1>1, <1>2, <2>1, <2>2 DEF ReadRight
    <3>3. PICK l : l = job[j].data.css
      OBVIOUS
    <3>4. LinksTopCss(l)' = LinksTopCss(l)
      BY <2>3 DEF LinksTopCss, TopCss
    <3>5. QED
      BY <2>2, <2>3, <3>1, <3>2, <3>3, <3>4 DEF FileAsExpected, LinksTopCss
  <2>5. QED
    BY <1>1, <1>2, <1>7, <1>8, <1>10, <1>14, <2>1, <2>4, PutProgress
<1>15. QED
  BY <1>7, <1>8, <1>13, <1>14, StepIInv
-----------------------------------------------------------------------------
(* OnReload, and the user. *)

LEMMA StartIInv == ASSUME IInv, NEW j \in Jobs, Start(j) PROVE IInv'
<1>1. /\ up /\ job[j].pc = "idle" /\ job[j] \in JobStates /\ JobOK(j)
      /\ UNCHANGED <<src, out, css, open, up, edits, touched>>
      /\ solo' = [k \in Jobs |-> IF Active(k) THEN FALSE
                                 ELSE IF k = j THEN ~ \E i \in Jobs : Active(i)
                                 ELSE solo[k]]
  BY DEF Start, IInv, TypeOK
<1>2. PICK q \in JobStates :
        /\ job' = [job EXCEPT ![j] = q]
        /\ \/ q.pc = "reset" /\ q.full /\ q.todo = {}
           \/ q.pc = "read" /\ ~q.full /\ q.at \notin Dirs
  <2>1. CASE job' = [job EXCEPT ![j].pc = "reset"]
    <3>1. PICK q : q = [job[j] EXCEPT !.pc = "reset"]
      OBVIOUS
    <3>2. q \in JobStates /\ q.pc = "reset" /\ q.full /\ q.todo = {}
      BY <1>1, <3>1 DEF JobStates, JobOK
    <3>3. job' = [job EXCEPT ![j] = q]
      BY <2>1, <3>1
    <3>4. QED
      BY <3>2, <3>3
  <2>2. ASSUME NEW e \in Md,
               job' = [job EXCEPT ![j] = [@ EXCEPT !.pc = "read", !.full = FALSE, !.at = e]]
        PROVE  \E q \in JobStates : /\ job' = [job EXCEPT ![j] = q]
                                    /\ q.pc = "read" /\ ~q.full /\ q.at \notin Dirs
    <3>1. PICK q : q = [job[j] EXCEPT !.pc = "read", !.full = FALSE, !.at = e]
      OBVIOUS
    <3>2. e \in Entries /\ e \notin Dirs
      BY RegenerateAssumption
    <3>3. q \in JobStates /\ q.pc = "read" /\ ~q.full /\ q.at \notin Dirs
      BY <1>1, <3>1, <3>2 DEF JobStates
    <3>4. job' = [job EXCEPT ![j] = q]
      BY <2>2, <3>1
    <3>5. QED
      BY <3>3, <3>4
  <2>3. QED
    BY <2>1, <2>2 DEF Start
<1>3. /\ job' \in [Jobs -> JobStates] /\ job'[j] = q
      /\ \A k \in Jobs \ {j} : job'[k] = job[k]
  BY <1>2 DEF IInv, TypeOK
<1>4. ~Active(j) /\ \A k \in Jobs \ {j} : Active(k)' = Active(k)
  BY <1>1, <1>3 DEF Active
<1>5. TypeOK'
  <2>1. JobOK(j)'
    BY <1>2, <1>3 DEF JobOK
  <2>2. \A k \in Jobs \ {j} : JobOK(k)'
    BY <1>1, <1>3 DEF JobOK, IInv, TypeOK
  <2>3. OutOK' /\ OpenOK'
    BY <1>1 DEF OutOK, OpenOK, IInv, TypeOK
  <2>4. solo' \in [Jobs -> BOOLEAN]
    BY <1>1 DEF IInv, TypeOK
  <2>5. QED
    BY <1>1, <1>3, <2>1, <2>2, <2>3, <2>4 DEF IInv, TypeOK
<1>6. \A k \in Jobs : Active(k)' /\ solo'[k] => k = j /\ ~ \E i \in Jobs : Active(i)
  BY <1>1, <1>4
<1>7. AloneInv'
  BY <1>4, <1>6 DEF AloneInv
<1>8. SourceInv' /\ EndHasCause'
  BY <1>1 DEF IInv, SourceInv, EndHasCause
<1>9. ProgressInv'
  <2>1. ASSUME NEW k \in Jobs, Active(k)', solo'[k] PROVE Progress(k)'
    <3>1. k = j
      BY <1>6, <2>1
    <3>2. ~InWalk1(j)' /\ ~InWalk2(j)' /\ q.pc # "sweep"
      BY <1>2, <1>3 DEF InWalk1, InWalk2, Copying
    <3>3. Copying(j)' => q.pc = "read" /\ ~q.full
      BY <1>2, <1>3 DEF Copying
    <3>4. QED
      BY <1>3, <3>1, <3>2, <3>3 DEF Progress, SheetsInv, ReadRight
  <2>2. QED
    BY <2>1 DEF ProgressInv
<1>10. QED
  BY <1>5, <1>7, <1>8, <1>9 DEF IInv

LEMMA EditedIInv ==
  ASSUME IInv, NEW e \in Entries \ {Root}, NEW v \in Nat, Edited(e, v),
         v # 0 => src[Parent[e]] # 0,
         v = 0 => \A c \in Entries \ {Root} : Parent[c] = e => src[c] = 0
  PROVE  IInv'
<1>1. /\ edits < MaxEdits /\ up /\ edits' = edits + 1 /\ src' = [src EXCEPT ![e] = v]
      /\ touched' = [j \in Jobs |-> IF Active(j) THEN touched[j] \cup {e} ELSE touched[j]]
      /\ UNCHANGED <<out, css, job, open, up, solo>>
  BY DEF Edited
<1>2. \A x \in Entries : src'[x] = IF x = e THEN v ELSE src[x]
  BY <1>1 DEF IInv, TypeOK
<1>3. TypeOK'
  <2>1. src' \in [Entries -> Nat]
    BY <1>1 DEF IInv, TypeOK
  <2>2. edits' \in 0..MaxEdits
    <3>1. edits \in 0..MaxEdits /\ MaxEdits \in Nat
      BY RegenerateAssumption DEF IInv, TypeOK
    <3>2. QED
      BY <1>1, <3>1
  <2>3. touched' \in [Jobs -> SUBSET Entries]
    BY <1>1 DEF IInv, TypeOK
  <2>4. OutOK' /\ OpenOK' /\ \A j \in Jobs : JobOK(j)'
    BY <1>1 DEF IInv, TypeOK, OutOK, OpenOK, JobOK
  <2>5. QED
    BY <1>1, <2>1, <2>2, <2>3, <2>4 DEF IInv, TypeOK
<1>4. AloneInv' /\ EndHasCause'
  BY <1>1 DEF IInv, AloneInv, EndHasCause, Active
<1>5. SourceInv'
  <2>1. Root \in Entries /\ \A x \in Entries \ {Root} : Parent[x] \in Entries
    BY RegenerateAssumption
  <2>2. src'[Root] # 0
    BY <1>2, <2>1 DEF IInv, SourceInv
  <2>3. ASSUME NEW x \in Entries \ {Root}, src'[x] # 0 PROVE src'[Parent[x]] # 0
    <3>1. src[Parent[x]] # 0
      BY <1>2, <2>3 DEF IInv, SourceInv
    <3>2. CASE Parent[x] = e /\ x # e
      BY <1>2, <2>1, <2>3, <3>1, <3>2
    <3>3. CASE Parent[x] = e /\ x = e
      BY <1>2, <2>1, <2>3, <3>3
    <3>4. CASE Parent[x] # e
      BY <1>2, <2>1, <3>1, <3>4
    <3>5. QED
      BY <3>2, <3>3, <3>4
  <2>4. QED
    BY <2>2, <2>3 DEF SourceInv
<1>6. ProgressInv'
  <2>1. ASSUME NEW j \in Jobs, Active(j)', solo'[j] PROVE Progress(j)'
    <3>1. Active(j) /\ Progress(j) /\ touched'[j] = touched[j] \cup {e}
      BY <1>1, <2>1 DEF IInv, ProgressInv, Active, TypeOK
    <3>2. /\ InWalk1(j)' = InWalk1(j) /\ InWalk2(j)' = InWalk2(j) /\ Copying(j)' = Copying(j)
          /\ \A x \in Entries : ToCome(j, x)' = ToCome(j, x)
      BY <1>1 DEF InWalk1, InWalk2, Copying, ToCome
    <3>3. \A x \in Entries : Excused(j, x)' \/ (~Excused(j, x) /\ src'[x] = src[x])
      BY <1>2, <3>1, PathFacts DEF Excused
    <3>4. \A x \in Entries : Excused(j, x) => Excused(j, x)'
      BY <3>1 DEF Excused
    <3>5. touched'[j] \cap Css = {} => touched[j] \cap Css = {} /\ TopCss' = TopCss
      BY <1>2, <3>1, RegenerateAssumption DEF TopCss
    <3>6. InWalk1(j) \/ InWalk2(j) => NothingStale(j)' /\ TodoThere(j)' /\ FoldersMade(j)'
      <4>1. SUFFICES ASSUME NothingStale(j), TodoThere(j), FoldersMade(j)
                     PROVE  NothingStale(j)' /\ TodoThere(j)' /\ FoldersMade(j)'
        BY <3>1 DEF Progress
      <4>2. NothingStale(j)'
        BY <1>1, <3>3, <4>1 DEF NothingStale
      <4>3. TodoThere(j)'
        <5>1. \A x \in job[j].todo : x \in Entries
          BY DEF IInv, TypeOK, JobStates
        <5>2. QED
          BY <1>1, <3>3, <4>1, <5>1 DEF TodoThere
      <4>4. FoldersMade(j)'
        BY <1>1, <3>2, <3>3, <4>1, RegenerateAssumption DEF FoldersMade
      <4>5. QED
        BY <4>2, <4>3, <4>4
    <3>7. InWalk2(j) => FilesCopied(j)'
      <4>1. SUFFICES ASSUME FilesCopied(j) PROVE FilesCopied(j)'
        BY <3>1 DEF Progress
      <4>2. \A x \in Entries : src'[x] = src[x] /\ FileAsExpected(j, x) => FileAsExpected(j, x)'
        BY <1>1, <3>1, <3>5 DEF FileAsExpected, LinksTopCss
      <4>3. QED
        BY <1>1, <3>2, <3>3, <4>1, <4>2 DEF FilesCopied, Files
    <3>8. SheetsInv(j)'
      <4>1. SUFFICES ASSUME touched'[j] \cap Css = {}
                     PROVE  /\ job[j].pc = "sweep" => css = <<>>
                            /\ InWalk1(j) => SheetsFound(j)'
                            /\ InWalk2(j) => LinksTopCss(css)'
        BY <1>1, <3>2 DEF SheetsInv
      <4>2. /\ job[j].pc = "sweep" => css = <<>>
            /\ InWalk1(j) => SheetsFound(j)
            /\ InWalk2(j) => LinksTopCss(css)
        BY <3>1, <3>5, <4>1 DEF Progress, SheetsInv
      <4>3. SheetsFound(j) => SheetsFound(j)'
        BY <1>1, <3>5, <4>1 DEF SheetsFound, Found, ToCome
      <4>4. QED
        BY <1>1, <3>5, <4>1, <4>2, <4>3 DEF LinksTopCss
    <3>9. Copying(j) => ReadRight(j)'
      <4>1. SUFFICES ASSUME Copying(j), ReadRight(j) PROVE ReadRight(j)'
        BY <3>1 DEF Progress
      <4>2. PICK x \in Entries : x = job[j].at
        BY DEF IInv, TypeOK, JobStates
      <4>3. PICK l : l = job[j].data.css
        OBVIOUS
      <4>4. touched'[j] \cap Css # {} \/ (touched[j] \cap Css = {} /\ LinksTopCss(l)' = LinksTopCss(l))
        BY <3>5 DEF LinksTopCss
      <4>5. Excused(j, x)' \/ (~Excused(j, x) /\ src'[x] = src[x])
        BY <3>3
      <4>6. QED
        BY <1>1, <4>1, <4>2, <4>3, <4>4, <4>5 DEF ReadRight, LinksTopCss, Excused
    <3>10. QED
      BY <3>2, <3>6, <3>7, <3>8, <3>9 DEF Progress
  <2>2. QED
    BY <2>1 DEF ProgressInv
<1>7. QED
  BY <1>3, <1>4, <1>5, <1>6 DEF IInv

LEMMA UserIInv ==
  ASSUME IInv, NEW e \in Entries \ {Root}, Write(e) \/ MakeDir(e) \/ Delete(e)
  PROVE  IInv'
<1>1. edits \in Nat /\ edits + 2 \in Nat /\ edits + 2 # 0
  <2>1. edits \in 0..MaxEdits /\ MaxEdits \in Nat
    BY RegenerateAssumption DEF IInv, TypeOK
  <2>2. QED
    BY <2>1
<1>2. CASE Write(e) \/ MakeDir(e)
  <2>1. Edited(e, edits + 2) /\ src[Parent[e]] # 0
    BY <1>2 DEF Write, MakeDir
  <2>2. QED
    BY <1>1, <2>1, EditedIInv
<1>3. CASE Delete(e)
  <2>1. Edited(e, 0) /\ \A c \in Entries \ {Root} : Parent[c] = e => src[c] = 0
    BY <1>3 DEF Delete
  <2>2. QED
    BY <2>1, EditedIInv
<1>4. QED
  BY <1>2, <1>3

\* http.FileServer opens what is there, and what is open matters only to a sweep.
LEMMA ServerIInv ==
  ASSUME IInv, NEW e \in Entries, Serve(e) \/ Served(e)
  PROVE  IInv'
<1>1. /\ up /\ Serving /\ open \in SUBSET Entries
      /\ \/ open' = open \cup {e} /\ out[e] # None
         \/ open' = open \ {e}
  BY DEF Serve, Served, IInv, TypeOK, OpenOK
<1>2. OpenOK'
  BY <1>1 DEF Serving, OpenOK, IInv, TypeOK
<1>3. up' \in BOOLEAN /\ EndHasCause'
  BY <1>1 DEF Serving, EndHasCause, IInv, TypeOK
<1>4. QED
  BY <1>1, <1>2, <1>3, StutterIInv DEF Serving
-----------------------------------------------------------------------------
LEMMA InitIInv == Init => IInv
<1> SUFFICES ASSUME Init PROVE IInv
  OBVIOUS
<1>1. /\ Root \in Entries /\ Dirs \subseteq Entries
      /\ \A e \in Entries \ {Root} : Parent[e] \in Dirs
  BY RegenerateAssumption
<1>2. \A j \in Jobs : /\ job[j].pc = IF j = Main THEN "reset" ELSE "idle"
                      /\ job[j].full /\ job[j].todo = {}
  BY DEF Init
<1>3. \A e \in Entries : src[e] = IF e \in Initial THEN 1 ELSE 0
  BY DEF Init
<1>4. TypeOK
  <2>1. src \in [Entries -> Nat]
    BY DEF Init
  <2>2. css \in Links
    BY DEF Init, Links
  <2>3. OutOK
    <3>1. \A e \in Entries : out[e] = IF e \notin Stale THEN None
                                      ELSE IF e \in Dirs THEN Folder ELSE Torn
      BY DEF Init
    <3>2. out \in [Entries -> {None, Folder, Empty, Torn} \cup Contents]
      BY DEF Init
    <3>3. \A e \in Entries \ {Root} : out[e] # None => out[Parent[e]] # None
      BY <1>1, <3>1, RegenerateAssumption
    <3>4. QED
      BY <1>1, <3>1, <3>2, <3>3 DEF OutOK
  <2>4. job \in [Jobs -> JobStates]
    <3>1. <<>> \in Links
      BY DEF Links
    <3>2. QED
      BY <1>1, <3>1 DEF Init, JobStates
  <2>5. \A j \in Jobs : JobOK(j)
    BY <1>2 DEF JobOK
  <2>6. edits \in 0..MaxEdits
    BY RegenerateAssumption DEF Init
  <2>7. OpenOK /\ up \in BOOLEAN /\ solo \in [Jobs -> BOOLEAN] /\ touched \in [Jobs -> SUBSET Entries]
    BY DEF Init, OpenOK
  <2>8. QED
    BY <2>1, <2>2, <2>3, <2>4, <2>5, <2>6, <2>7 DEF TypeOK
<1>5. AloneInv
  BY <1>2 DEF AloneInv, Active
<1>6. SourceInv
  BY <1>1, <1>3, RegenerateAssumption DEF SourceInv
<1>7. ProgressInv
  BY <1>2 DEF ProgressInv, Progress, SheetsInv, InWalk1, InWalk2, Copying, Active
<1>8. EndHasCause
  BY DEF Init, EndHasCause
<1>9. QED
  BY <1>4, <1>5, <1>6, <1>7, <1>8 DEF IInv

LEMMA RunIInv == ASSUME IInv, NEW j \in Jobs, Run(j) PROVE IInv'
<1>1. CASE CleanUp(j)
  BY <1>1, ResetIInv, SweepIInv, SweepFailsIInv, SweepDoneIInv DEF CleanUp
<1>2. CASE WalkCss(j)
  BY <1>2, MakeFolderIInv, MakeFolderFailsIInv, LoadCssIInv, StoreCssIInv, SkipFileIInv, Walk1DoneIInv DEF WalkCss
<1>3. CASE WalkFiles(j)
  BY <1>3, EnterFolderIInv, CopyOneIInv, Walk2DoneIInv DEF WalkFiles
<1>4. CASE VisitGone(j)
  BY <1>4, VisitGoneIInv
<1>5. CASE Copy(j)
  BY <1>5, ReadIInv, GenerateIInv, GeneratePanicsIInv, OpenIInv, FillIInv DEF Copy
<1>6. QED
  BY <1>1, <1>2, <1>3, <1>4, <1>5 DEF Run

LEMMA NextIInv == IInv /\ [Next]_vars => IInv'
<1> SUFFICES ASSUME IInv, [Next]_vars PROVE IInv'
  OBVIOUS
<1>1. CASE UNCHANGED vars
  <2>1. OpenOK' /\ up' \in BOOLEAN
    BY <1>1 DEF vars, OpenOK, IInv, TypeOK
  <2>2. EndHasCause'
    BY <1>1 DEF vars, IInv, EndHasCause, Active, Cause, EditedAway, NoFile, OpenInServer, FragileText,
                Comes, Excused, Leaf
  <2>3. QED
    BY <1>1, <2>1, <2>2, StutterIInv DEF vars
<1>2. CASE \E j \in Jobs : Start(j) \/ Run(j)
  BY <1>2, StartIInv, RunIInv
<1>3. CASE \E e \in Entries \ {Root} : Write(e) \/ MakeDir(e) \/ Delete(e)
  BY <1>3, UserIInv
<1>4. CASE \E e \in Entries : Serve(e) \/ Served(e)
  BY <1>4, ServerIInv
<1>5. QED
  BY <1>1, <1>2, <1>3, <1>4 DEF Next

-----------------------------------------------------------------------------
(* The end of a job. *)

\* A step of a job leaves the others as they are, and ends its own only where the
\* code returns.
LEMMA WhoEnds ==
  ASSUME IInv, NEW j \in Jobs, NEW k \in Jobs, Run(k), Ends(j)
  PROVE  /\ j = k
         /\ \/ Walk2Done(j)
            \/ Fill(j)
            \/ ~job[j].full /\ (Read(j) \/ Open(j)) /\ Fail(j)
<1> USE DEF Ends, Active
<1>1. job \in [Jobs -> JobStates] /\ JobOK(k)
  BY DEF IInv, TypeOK
<1>2. ASSUME CleanUp(k) PROVE FALSE
  <2>1. CASE Reset(k)
    BY <1>1, <2>1 DEF Reset, Goto
  <2>2. CASE Sweep(k)
    BY <2>2 DEF Sweep
  <2>3. CASE SweepFails(k)
    BY <1>1, <2>3 DEF SweepFails, Fail, At, JobOK
  <2>4. CASE SweepDone(k)
    BY <1>1, <2>4 DEF SweepDone
  <2>5. QED
    BY <1>2, <2>1, <2>2, <2>3, <2>4 DEF CleanUp
<1>3. ASSUME WalkCss(k) PROVE FALSE
  <2>1. CASE MakeFolder(k)
    BY <1>1, <2>1 DEF MakeFolder
  <2>2. CASE LoadCss(k)
    <3>1. PICK q : job' = [job EXCEPT ![k] = q] /\ q.pc = "store"
      BY <1>1, <2>2 DEF LoadCss, JobStates
    <3>2. QED
      BY <1>1, <3>1
  <2>3. CASE StoreCss(k)
    BY <1>1, <2>3 DEF StoreCss, Goto
  <2>4. CASE SkipFile(k)
    BY <1>1, <2>4 DEF SkipFile
  <2>5. CASE Walk1Done(k)
    BY <1>1, <2>5 DEF Walk1Done
  <2>6. CASE MakeFolderFails(k)
    BY <1>1, <2>6 DEF MakeFolderFails, Visit, Fail, At, JobOK
  <2>7. QED
    BY <1>3, <2>1, <2>2, <2>3, <2>4, <2>5, <2>6 DEF WalkCss
<1>4. ASSUME EnterFolder(k) \/ CopyOne(k) \/ VisitGone(k) \/ Generate(k) \/ GeneratePanics(k)
      PROVE  FALSE
  <2>1. CASE EnterFolder(k)
    BY <1>1, <2>1 DEF EnterFolder
  <2>2. CASE CopyOne(k)
    <3>1. PICK q : job' = [job EXCEPT ![k] = q] /\ q.pc = "read"
      BY <1>1, <2>2 DEF CopyOne, JobStates
    <3>2. QED
      BY <1>1, <3>1
  <2>3. CASE VisitGone(k)
    BY <2>3 DEF VisitGone, Panic
  <2>4. CASE Generate(k)
    <3>1. PICK q : job' = [job EXCEPT ![k] = q] /\ q.pc = "open"
      BY <1>1, <2>4 DEF Generate, JobStates
    <3>2. QED
      BY <1>1, <3>1
  <2>5. CASE GeneratePanics(k)
    BY <2>5 DEF GeneratePanics, Panic
  <2>6. QED
    BY <1>4, <2>1, <2>2, <2>3, <2>4, <2>5
<1>5. CASE Walk2Done(k)
  BY <1>1, <1>5 DEF Walk2Done, Goto
<1>6. CASE Fill(k)
  BY <1>1, <1>6 DEF Fill, Goto
<1>7. CASE Fail(k) /\ (Read(k) \/ Open(k))
  BY <1>1, <1>7 DEF Fail, Goto
<1>8. ASSUME Read(k), ~Fail(k) PROVE FALSE
  <2>1. PICK q : job' = [job EXCEPT ![k] = q] /\ q.pc \in {"generate", "open"}
    BY <1>1, <1>8 DEF Read, JobStates
  <2>2. QED
    BY <1>1, <2>1
<1>9. ASSUME Open(k), ~Fail(k) PROVE FALSE
  <2>1. Goto(k, "fill")
    BY <1>9 DEF Open
  <2>2. QED
    BY <1>1, <2>1 DEF Goto
<1>10. QED
  BY <1>2, <1>3, <1>4, <1>5, <1>6, <1>7, <1>8, <1>9 DEF Run, WalkFiles, Copy

LEMMA EndReproduces ==
  ASSUME IInv, [Next]_vars, NEW j \in Jobs, Ends(j), solo[j]
  PROVE  Reproduced(j)'
<1>1. job \in [Jobs -> JobStates] /\ JobOK(j) /\ Active(j) /\ Progress(j) /\ OutOK
  BY DEF Ends, IInv, TypeOK, ProgressInv
<1>2. PICK k \in Jobs : Run(k)
  <2>1. CASE UNCHANGED vars
    BY <2>1 DEF vars, Ends, Active
  <2>2. ASSUME NEW k \in Jobs, Start(k) PROVE FALSE
    <3>1. k # j
      BY <1>1, <2>2 DEF Start, Active
    <3>2. PICK q : job' = [job EXCEPT ![k] = q]
      BY <2>2 DEF Start
    <3>3. QED
      BY <1>1, <3>1, <3>2 DEF Ends, Active
  <2>3. ASSUME NEW e \in Entries \ {Root}, Write(e) \/ MakeDir(e) \/ Delete(e) PROVE FALSE
    BY <2>3 DEF Write, MakeDir, Delete, Edited, Ends, Active
  <2>4. ASSUME NEW e \in Entries, Serve(e) \/ Served(e) PROVE FALSE
    BY <2>4 DEF Serve, Served, Serving, Ends, Active
  <2>5. QED
    BY <2>1, <2>2, <2>3, <2>4 DEF Next
<1>3. \/ Walk2Done(j)
      \/ Fill(j)
      \/ ~job[j].full /\ (Read(j) \/ Open(j)) /\ Fail(j)
  BY <1>2, WhoEnds
<1>4. CASE Walk2Done(j)
  <2>1. /\ UNCHANGED <<src, touched, out>> /\ job[j].full /\ job'[j].full = job[j].full
        /\ job[j].pc = "walk2" /\ job[j].todo = {}
    BY <1>1, <1>4 DEF Walk2Done, At, Goto, History, JobOK, JobStates
  <2>2. InWalk2(j) /\ ~InWalk1(j) /\ ~Copying(j)
    BY <2>1 DEF InWalk1, InWalk2, Copying
  <2>3. NothingStale(j) /\ FoldersMade(j) /\ FilesCopied(j)
    BY <1>1, <2>2 DEF Progress
  <2>4. ASSUME NEW e \in Entries PROVE Excused(j, e) \/ AsExpected(j, e)
    BY <2>1, <2>2, <2>3 DEF NothingStale, FoldersMade, FilesCopied, AsExpected, Files, ToCome
  <2>5. \A e \in Entries : Excused(j, e)' \/ AsExpected(j, e)'
    BY <2>1, <2>4 DEF Excused, AsExpected, FileAsExpected, LinksTopCss, TopCss
  <2>6. QED
    BY <2>1, <2>5 DEF Reproduced
<1>5. CASE Fill(j)
  <2>1. PICK e \in Files : e = job[j].at
    BY <1>1, <1>5 DEF Fill, At, JobOK, JobStates, Files
  <2>2. ~job[j].full /\ job'[j].full = job[j].full /\ job'[j].at = e /\ job[j].pc = "fill"
    BY <1>1, <1>5, <2>1 DEF Fill, At, Goto, Ends, Active, JobStates
  <2>3. UNCHANGED <<src, touched>>
    BY <1>5 DEF Fill, History
  <2>4. out'[e] = job[j].data /\ job[j].data \in Contents /\ ReadRight(j)
    BY <1>1, <1>5, <2>1, FillsAsExpected DEF OutOK, Files
  <2>5. Excused(j, e) \/ job[j].data.v = src[e]
    BY <2>1, <2>2, <2>4 DEF ReadRight
  <2>6. QED
    BY <2>2, <2>3, <2>4, <2>5 DEF Reproduced, Excused
<1>6. CASE ~job[j].full /\ (Read(j) \/ Open(j)) /\ Fail(j)
  <2>1. PICK e \in Files : e = job[j].at
    BY <1>1, <1>6 DEF Read, Open, At, JobOK, JobStates, Files
  <2>2. ~job'[j].full /\ job'[j].at = e /\ UNCHANGED <<src, touched, out>>
    BY <1>1, <1>6, <2>1 DEF Fail, Goto, Read, Open, History, JobStates
  <2>3. src[e] = 0 \/ out[Parent[e]] = None
    <3>1. CASE Read(j) /\ src[e] # 0
      <4>1. PICK q : q = [job[j] EXCEPT !.data = Content(src[job[j].at], <<>>),
                                        !.pc = IF job[j].at \in Md THEN "generate" ELSE "open"]
        OBVIOUS
      <4>2. job' = [job EXCEPT ![j] = q] /\ src[job[j].at] # 0
        BY <2>1, <3>1, <4>1 DEF Read
      <4>3. q.pc \in {"generate", "open"}
        BY <1>1, <4>1 DEF JobStates
      <4>4. QED
        BY <1>1, <4>2, <4>3 DEF Ends, Active
    <3>2. CASE Open(j) /\ out[Parent[e]] # None
      <4>1. Goto(j, "fill")
        BY <2>1, <3>2 DEF Open
      <4>2. QED
        BY <1>1, <4>1 DEF Goto, Ends, Active
    <3>3. QED
      BY <1>6, <3>1, <3>2
  <2>4. Folder # None
    BY RegenerateAssumption
  <2>5. QED
    BY <2>2, <2>3, <2>4 DEF Reproduced
<1>7. QED
  BY <1>3, <1>4, <1>5, <1>6
-----------------------------------------------------------------------------
\* The invariant holds in every state, for any files, style sheets, jobs and edits.
THEOREM Invariance == Spec => []IInv
<1>1. Init => IInv
  BY InitIInv
<1>2. IInv /\ [Next]_vars => IInv'
  BY NextIInv
<1>3. QED
  BY <1>1, <1>2, PTL DEF Spec

\* Every variable of the jobs keeps its type, every output lies in a folder that is
\* there, and what a job has opened is there until it has written it.
THEOREM TypeCorrect == Spec => []TypeOK
<1>1. IInv => TypeOK
  BY DEF IInv
<1>2. QED
  BY <1>1, Invariance, PTL

\* Whenever a job has ended the process, another one has overlapped it, or it was
\* for one of the causes that the code has: a path edited away under the walk, the
\* read or the write, an output that the server had open, a text to panic on.  So,
\* whatever an earlier run or an overlapping job has left in the target folder, a
\* job alone finds every source it is to read that was not edited, and has made
\* every folder that it writes to (main.go:43-61, 75, 93, 257).
THEOREM EveryEndHasCause == Spec => []EndHasCause
<1>1. IInv => EndHasCause
  BY DEF IInv
<1>2. QED
  BY <1>1, Invariance, PTL

\* A job that no other one overlaps ends with the target folder as the sources are:
\* whatever was left in it, and whatever is edited meanwhile, nothing stale remains,
\* nothing is missing, files are copied whole, and a page links every style sheet of
\* the top folder once and in order; but for what is edited while the job runs.
THEOREM LoneJobReproduces == Spec => AloneReproduces
<1>1. IInv /\ [Next]_vars => [\A j \in Jobs : Ends(j) /\ solo[j] /\ up' => Reproduced(j)']_vars
  BY EndReproduces
<1>2. QED
  BY <1>1, Invariance, PTL DEF Spec, AloneReproduces
-----------------------------------------------------------------------------
(* The footnotes of a document. *)

LinkTargets == Labels \cup {i.slug : i \in {i \in Items : i.k = "note"}}
Texts == {b \in Blocks : b.k \in {"para", "cell"}}
Notes == [link : LinkTargets, number : Nat, block : {TRUE}, body : Seq(Blocks)]
         \cup [link : LinkTargets, number : Nat, block : {FALSE}, body : Seq(Items)]
Parsers ==
  [phase : {"block", "walk", "list", "late", "done"}, doc : Seq(Blocks), blocks : Seq(Blocks),
   items : Seq(Items), paras : Seq(Texts), code : Seq(Blocks), objs : Seq(Notes),
   refs : [Labels -> Nat], notes : Seq(Nat), record : SUBSET LinkTargets, listed : Seq(Nat),
   made : Seq([to : LinkTargets, number : Nat]), said : Seq(Nat)]

Has(s, x) == \E i \in 1 .. Len(s) : s[i] = x

\* Notes are what was referred to, in the order of their numbers, and their links are
\* on record.
Numbered(p) ==
  /\ \A l \in Labels : /\ p.refs[l] \in 0 .. Len(p.objs)
                       /\ p.refs[l] # 0 => p.objs[p.refs[l]].link = l
  /\ \A i \in 1 .. Len(p.notes) : /\ p.notes[i] \in 1 .. Len(p.objs)
                                  /\ p.objs[p.notes[i]].number = i
                                  /\ p.objs[p.notes[i]].link \in p.record

\* A label on record is that of a note, and what was made shows the number of its note.
Known(p) ==
  /\ \A l \in Labels : l \in p.record => p.refs[l] # 0 /\ Has(p.notes, p.refs[l])
  /\ \A i \in 1 .. Len(p.made) : /\ p.made[i].number \in 1 .. Len(p.notes)
                                 /\ p.objs[p.notes[p.made[i].number]].link = p.made[i].to

\* Before the walk nothing is referred to; after it nothing is defined.
NoDef(blocks) == \A i \in 1 .. Len(blocks) : blocks[i].k # "def"
Young(p) == p.phase = "block" =>
              /\ p.items = <<>> /\ p.notes = <<>> /\ p.record = {} /\ p.made = <<>>
              /\ p.listed = <<>> /\ p.said = <<>>
Settled(p) == /\ p.phase # "block" => NoDef(p.blocks)
              /\ p.phase = "walk" => p.blocks = <<>>
              /\ \A o \in 1 .. Len(p.objs) : p.objs[o].block = TRUE => NoDef(p.objs[o].body)

\* The list is the notes as far as it goes.
InOrder(p) == /\ Len(p.listed) <= Len(p.notes) /\ p.said = p.listed
              /\ \A i \in 1 .. Len(p.listed) : p.listed[i] = p.notes[i]

\* What is defined has a reference, and each label that is referred to has its note, or the
\* reference is still to be come to.
Meets(p, labels) == \A l \in labels \cap Defined(p) : Has(p.notes, p.refs[l]) \/ l \in Refs(p.items)
Waits(p, labels) == IF p.phase = "list" THEN Meets(p, labels) ELSE Listed(p, labels \cap Defined(p))
Complete(p) ==
  /\ \A i \in 1 .. Len(p.doc) : p.doc[i].k = "def" =>
       \/ p.refs[p.doc[i].label] # 0
       \/ p.phase = "block" /\ Has(p.blocks, p.doc[i])
  /\ \A i \in 1 .. Len(p.doc) : p.doc[i].k \in {"para", "cell"} =>
       CASE p.phase = "block" -> Has(p.blocks, p.doc[i]) \/ Has(p.paras, p.doc[i])
         [] p.phase = "walk" -> Has(p.paras, p.doc[i]) \/ Meets(p, Refs(p.doc[i].items))
         [] OTHER -> Waits(p, Refs(p.doc[i].items))
  /\ \A i \in 1 .. Len(p.listed) : p.objs[p.listed[i]].block = FALSE =>
       Waits(p, Refs(p.objs[p.listed[i]].body))

NotesInv(p) == /\ p \in Parsers /\ Numbered(p) /\ Young(p) /\ InOrder(p)
               /\ Distinct => Known(p) /\ Settled(p) /\ Complete(p)
-----------------------------------------------------------------------------
\* Head and Tail have what the sequence has.
LEMMA TailHas ==
  ASSUME NEW S, NEW s \in Seq(S), s # <<>>, NEW x, Has(s, x)
  PROVE  x = Head(s) \/ Has(Tail(s), x)
<1>1. PICK i \in 1 .. Len(s) : s[i] = x
  BY DEF Has
<1>2. Len(s) \in Nat /\ Head(s) = s[1]
  OBVIOUS
<1>3. /\ Len(Tail(s)) = Len(s) - 1
      /\ \A j \in 1 .. Len(Tail(s)) : Tail(s)[j] = s[j + 1]
  BY HeadTailProperties
<1>4. CASE i = 1
  BY <1>1, <1>2, <1>4
<1>5. CASE i # 1
  <2>1. i - 1 \in 1 .. Len(Tail(s)) /\ Tail(s)[i - 1] = x
    BY <1>1, <1>2, <1>3, <1>5
  <2>2. QED
    BY <2>1 DEF Has
<1>6. QED
  BY <1>4, <1>5

LEMMA AppendHas ==
  ASSUME NEW S, NEW s \in Seq(S), NEW e \in S
  PROVE  Has(Append(s, e), e) /\ \A x : Has(s, x) => Has(Append(s, e), x)
<1>1. /\ Len(Append(s, e)) = Len(s) + 1 /\ Len(s) \in Nat /\ Append(s, e)[Len(s) + 1] = e
      /\ \A i \in 1 .. Len(s) : Append(s, e)[i] = s[i]
  BY AppendProperties
<1>2. QED
  BY <1>1 DEF Has

\* The references in the rest of a text.
LEMMA TailRefs ==
  ASSUME NEW s \in Seq(Items), s # <<>>, NEW l \in Refs(s)
  PROVE  l \in Refs(Tail(s)) \/ (Head(s).k = "ref" /\ Head(s).label = l)
<1>1. PICK i \in 1 .. Len(s) : s[i].k = "ref" /\ s[i].label = l
  <2>1. DOMAIN s = 1 .. Len(s)
    OBVIOUS
  <2>2. QED
    BY <2>1 DEF Refs
<1>2. Has(s, s[i])
  BY <1>1 DEF Has
<1>3. CASE s[i] = Head(s)
  BY <1>1, <1>3
<1>4. CASE Has(Tail(s), s[i])
  <2>1. PICK j \in 1 .. Len(Tail(s)) : Tail(s)[j] = s[i]
    BY <1>4 DEF Has
  <2>2. DOMAIN Tail(s) = 1 .. Len(Tail(s))
    BY HeadTailProperties
  <2>3. QED
    BY <1>1, <2>1, <2>2 DEF Refs
<1>5. QED
  BY <1>2, <1>3, <1>4, TailHas

\* A step of Inline: a reference that has a number, or none, and one that gets it.
Item(p, q) ==
  /\ q \in Parsers /\ q.phase = p.phase /\ q.doc = p.doc /\ q.blocks = p.blocks /\ q.paras = p.paras
  /\ q.refs = p.refs /\ q.listed = p.listed /\ q.said = p.said /\ q.items = Tail(p.items)
Alike(p, q) == q.objs = p.objs /\ q.notes = p.notes /\ q.record = p.record
Counts(p, q, to, o) ==
  /\ to \in LinkTargets /\ o \in 1 .. Len(q.objs) /\ ~Has(p.notes, o)
  /\ q.notes = Append(p.notes, o) /\ q.record = p.record \cup {to}
  /\ q.made = Append(p.made, [to |-> to, number |-> Len(p.notes) + 1])
  /\ Len(p.objs) <= Len(q.objs) /\ q.objs[o].number = Len(p.notes) + 1 /\ q.objs[o].link = to
  /\ \A i \in 1 .. Len(p.objs) :
       /\ q.objs[i].link = p.objs[i].link /\ q.objs[i].block = p.objs[i].block
       /\ q.objs[i].body = p.objs[i].body /\ (i # o => q.objs[i].number = p.objs[i].number)
  /\ \A i \in 1 .. Len(q.objs) : i > Len(p.objs) => q.objs[i].block = FALSE

LEMMA CountsNumbered ==
  ASSUME NEW p \in Parsers, NEW q \in Parsers, NEW to, NEW o, Numbered(p), Counts(p, q, to, o), q.refs = p.refs
  PROVE  Numbered(q)
<1>1. /\ p.notes \in Seq(Nat) /\ p.objs \in Seq(Notes) /\ q.objs \in Seq(Notes)
      /\ Len(p.notes) \in Nat /\ Len(p.objs) \in Nat /\ Len(q.objs) \in Nat /\ p.refs \in [Labels -> Nat]
  <2>1. p.notes \in Seq(Nat) /\ p.objs \in Seq(Notes) /\ q.objs \in Seq(Notes) /\ p.refs \in [Labels -> Nat]
    BY DEF Parsers
  <2>2. QED
    BY <2>1
<1>2. /\ o \in Nat /\ Len(q.notes) = Len(p.notes) + 1 /\ q.notes[Len(p.notes) + 1] = o
      /\ \A i \in 1 .. Len(p.notes) : q.notes[i] = p.notes[i]
  <2>1. o \in Nat /\ q.notes = Append(p.notes, o)
    BY <1>1 DEF Counts
  <2>2. QED
    BY <1>1, <2>1, AppendProperties
<1>3. ASSUME NEW l \in Labels
      PROVE  q.refs[l] \in 0 .. Len(q.objs) /\ (q.refs[l] # 0 => q.objs[q.refs[l]].link = l)
  <2>1. p.refs[l] \in 0 .. Len(p.objs) /\ (p.refs[l] # 0 => p.objs[p.refs[l]].link = l)
    BY DEF Numbered
  <2>2. p.refs[l] # 0 => p.refs[l] \in 1 .. Len(p.objs)
    BY <1>1, <2>1
  <2>3. p.refs[l] # 0 => q.objs[p.refs[l]].link = l
    BY <2>1, <2>2 DEF Counts
  <2>4. Len(p.objs) <= Len(q.objs)
    BY DEF Counts
  <2>5. QED
    BY <1>1, <2>1, <2>3, <2>4
<1>4. ASSUME NEW i \in 1 .. Len(q.notes)
      PROVE  /\ q.notes[i] \in 1 .. Len(q.objs) /\ q.objs[q.notes[i]].number = i
             /\ q.objs[q.notes[i]].link \in q.record
  <2>1. CASE i = Len(p.notes) + 1
    BY <1>2, <2>1 DEF Counts
  <2>2. CASE i # Len(p.notes) + 1
    <3>1. i \in 1 .. Len(p.notes)
      BY <1>1, <1>2, <2>2
    <3>2. PICK n : n = p.notes[i]
      OBVIOUS
    <3>3. n \in 1 .. Len(p.objs) /\ p.objs[n].number = i /\ p.objs[n].link \in p.record /\ n # o
      BY <3>1, <3>2 DEF Numbered, Counts, Has
    <3>4. q.objs[n].number = i /\ q.objs[n].link \in q.record /\ n \in 1 .. Len(q.objs)
      BY <1>1, <3>3 DEF Counts
    <3>5. QED
      BY <1>2, <3>1, <3>2, <3>4
  <2>3. QED
    BY <2>1, <2>2
<1>5. QED
  BY <1>3, <1>4 DEF Numbered

LEMMA CountsHas ==
  ASSUME NEW p \in Parsers, NEW q \in Parsers, NEW to, NEW o, Counts(p, q, to, o)
  PROVE  /\ Len(p.notes) \in Nat /\ Len(q.notes) = Len(p.notes) + 1
         /\ Len(p.objs) \in Nat /\ Len(q.objs) \in Nat /\ o \in Nat
         /\ \A i \in 1 .. Len(p.notes) : q.notes[i] = p.notes[i]
         /\ Has(q.notes, o) /\ \A x : Has(p.notes, x) => Has(q.notes, x)
<1>1. p.notes \in Seq(Nat) /\ p.objs \in Seq(Notes) /\ q.objs \in Seq(Notes)
  BY DEF Parsers
<1>2. Len(p.notes) \in Nat /\ Len(p.objs) \in Nat /\ Len(q.objs) \in Nat
  BY <1>1
<1>3. o \in Nat /\ q.notes = Append(p.notes, o)
  BY <1>2 DEF Counts
<1>4. /\ Len(q.notes) = Len(p.notes) + 1
      /\ \A i \in 1 .. Len(p.notes) : q.notes[i] = p.notes[i]
  BY <1>1, <1>3, AppendProperties
<1>5. QED
  BY <1>1, <1>2, <1>3, <1>4, AppendHas

LEMMA CountsKnown ==
  ASSUME NEW p \in Parsers, NEW q \in Parsers, NEW to, NEW o, Numbered(p), Known(p),
         Counts(p, q, to, o), q.refs = p.refs, to \in Labels => p.refs[to] = o
  PROVE  Known(q)
<1>1. /\ Len(p.notes) \in Nat /\ Len(q.notes) = Len(p.notes) + 1
      /\ Len(p.objs) \in Nat /\ Len(q.objs) \in Nat /\ o \in 1 .. Len(q.objs)
      /\ \A i \in 1 .. Len(p.notes) : q.notes[i] = p.notes[i]
      /\ Has(q.notes, o) /\ \A x : Has(p.notes, x) => Has(q.notes, x)
  <2>1. o \in 1 .. Len(q.objs)
    BY DEF Counts
  <2>2. QED
    BY <2>1, CountsHas
<1>2. ASSUME NEW l \in Labels, l \in q.record
      PROVE  q.refs[l] # 0 /\ Has(q.notes, q.refs[l])
  <2>1. CASE l \in p.record
    BY <1>1, <1>2, <2>1 DEF Known
  <2>2. CASE l \notin p.record
    <3>1. l = to
      BY <1>2, <2>2 DEF Counts
    <3>2. QED
      BY <1>1, <1>2, <3>1
  <2>3. QED
    BY <2>1, <2>2
<1>3. q.notes[Len(p.notes) + 1] = o
  <2>1. p.notes \in Seq(Nat) /\ o \in Nat
    BY <1>1 DEF Parsers
  <2>2. QED
    BY <2>1, AppendProperties DEF Counts
<1>4. /\ p.made \in Seq([to : LinkTargets, number : Nat]) /\ Len(p.made) \in Nat
  <2>1. p.made \in Seq([to : LinkTargets, number : Nat])
    BY DEF Parsers
  <2>2. QED
    BY <2>1
<1>5. PICK m \in [to : LinkTargets, number : Nat] : m = [to |-> to, number |-> Len(p.notes) + 1]
  BY <1>1 DEF Counts
<1>6. /\ Len(q.made) = Len(p.made) + 1 /\ q.made[Len(p.made) + 1] = m
      /\ \A i \in 1 .. Len(p.made) : q.made[i] = p.made[i]
  <2>1. q.made = Append(p.made, m)
    BY <1>5 DEF Counts
  <2>2. QED
    BY <1>4, <2>1, AppendProperties
<1>7. ASSUME NEW i \in 1 .. Len(q.made)
      PROVE  /\ q.made[i].number \in 1 .. Len(q.notes)
             /\ q.objs[q.notes[q.made[i].number]].link = q.made[i].to
  <2>1. CASE i = Len(p.made) + 1
    <3>1. q.made[i].number = Len(p.notes) + 1 /\ q.made[i].to = to
      BY <1>5, <1>6, <2>1
    <3>2. q.objs[o].link = to
      BY DEF Counts
    <3>3. Len(p.notes) + 1 \in 1 .. Len(q.notes)
      BY <1>1
    <3>4. QED
      BY <1>3, <3>1, <3>2, <3>3
  <2>2. CASE i # Len(p.made) + 1
    <3>1. i \in 1 .. Len(p.made)
      BY <1>4, <1>6, <2>2
    <3>2. PICK n \in 1 .. Len(p.notes) : n = p.made[i].number
      BY <3>1 DEF Known
    <3>3. PICK x \in 1 .. Len(p.objs) : x = p.notes[n]
      BY DEF Numbered
    <3>4. p.objs[x].link = p.made[i].to
      BY <3>1, <3>2, <3>3 DEF Known
    <3>5. q.objs[x].link = p.made[i].to
      BY <3>4 DEF Counts
    <3>6. q.made[i] = p.made[i]
      BY <1>6, <3>1
    <3>7. n \in 1 .. Len(q.notes) /\ q.notes[n] = x
      BY <1>1, <3>3
    <3>8. QED
      BY <3>2, <3>5, <3>6, <3>7
  <2>3. QED
    BY <2>1, <2>2
<1>8. QED
  BY <1>2, <1>7 DEF Known

\* What a step of Inline makes of the first of the items.
Shows(p, q, l) ==
  /\ l \in Labels /\ p.refs[l] # 0 /\ l \in p.record /\ Alike(p, q)
  /\ q.made = Append(p.made, [to |-> l, number |-> p.objs[p.refs[l]].number])
Does(p, q, item) ==
  \/ Alike(p, q) /\ q.made = p.made /\ (item.k = "ref" => p.refs[item.label] = 0)
  \/ item.k = "ref" /\ Shows(p, q, item.label)
  \/ item.k = "ref" /\ Counts(p, q, item.label, p.refs[item.label]) /\ p.refs[item.label] # 0
  \/ item.k = "note" /\ Counts(p, q, item.slug, Len(p.objs) + 1)

LEMMA ShowsDoes ==
  ASSUME NEW p \in Parsers, NEW l \in Labels, p.refs[l] # 0, l \in p.record, NEW items \in Seq(Items),
         Tail(p.items) = items, Numbered(p),
         NEW q, q = Made([p EXCEPT !.items = items], l, p.refs[l])
  PROVE  Item(p, q) /\ Shows(p, q, l)
<1>1. PICK o : o = p.refs[l] /\ o \in 1 .. Len(p.objs)
  <2>1. p.objs \in Seq(Notes)
    BY DEF Parsers
  <2>2. Len(p.objs) \in Nat
    BY <2>1
  <2>3. QED
    BY <2>2 DEF Numbered
<1>2. PICK m \in [to : LinkTargets, number : Nat] : m = [to |-> l, number |-> p.objs[o].number]
  <2>1. p.objs \in Seq(Notes)
    BY DEF Parsers
  <2>2. p.objs[o] \in Notes
    BY <1>1, <2>1, ElementOfSeq
  <2>3. l \in LinkTargets /\ p.objs[o].number \in Nat
    BY <2>2 DEF LinkTargets, Notes
  <2>4. QED
    BY <2>3
<1>3. q = [p EXCEPT !.items = items, !.made = Append(p.made, m)]
  BY <1>1, <1>2 DEF Made, Parsers
<1>4. PICK made \in Seq([to : LinkTargets, number : Nat]) : made = Append(p.made, m)
  <2>1. p.made \in Seq([to : LinkTargets, number : Nat])
    BY DEF Parsers
  <2>2. QED
    BY <2>1, AppendProperties
<1>5. /\ q \in Parsers /\ q.made = made /\ q.items = items /\ q.phase = p.phase /\ q.doc = p.doc
      /\ q.blocks = p.blocks /\ q.paras = p.paras /\ q.refs = p.refs /\ q.listed = p.listed
      /\ q.said = p.said /\ q.objs = p.objs /\ q.notes = p.notes /\ q.record = p.record
  BY <1>3, <1>4 DEF Parsers
<1>6. QED
  BY <1>1, <1>2, <1>4, <1>5 DEF Item, Shows, Alike

\* A note that is referred to for the first time.
LEMMA CountsDoes ==
  ASSUME NEW p \in Parsers, NEW s \in Parsers, NEW to \in LinkTargets, NEW o \in 1 .. Len(s.objs),
         Item(p, s), s.notes = p.notes, s.record = p.record, s.made = p.made,
         ~Has(p.notes, o), s.objs[o].link = to, Len(p.objs) <= Len(s.objs),
         \A i \in 1 .. Len(p.objs) : s.objs[i] = p.objs[i],
         \A i \in 1 .. Len(s.objs) : i > Len(p.objs) => s.objs[i].block = FALSE,
         NEW q, q = Made(Number(s, o), to, o)
  PROVE  Item(p, q) /\ Counts(p, q, to, o)
<1>1. /\ s.objs \in Seq(Notes) /\ s.notes \in Seq(Nat) /\ s.record \in SUBSET LinkTargets
      /\ s.made \in Seq([to : LinkTargets, number : Nat]) /\ p.objs \in Seq(Notes)
  BY DEF Parsers
<1>2. Len(s.objs) \in Nat /\ Len(p.objs) \in Nat /\ o \in Nat
  BY <1>1
<1>3. PICK n \in Nat : n = Len(s.notes) + 1
  <2>1. Len(s.notes) \in Nat
    BY <1>1
  <2>2. QED
    BY <2>1
<1>4. PICK x \in Notes : x = s.objs[o]
  BY <1>1, ElementOfSeq
<1>5. PICK y : y = [x EXCEPT !.number = n]
  OBVIOUS
<1>6. y \in Notes /\ y.number = n /\ y.link = x.link /\ y.block = x.block /\ y.body = x.body
  BY <1>5 DEF Notes
<1>7. PICK objs : objs = [s.objs EXCEPT ![o] = y]
  OBVIOUS
<1>8. /\ objs \in Seq(Notes) /\ Len(objs) = Len(s.objs)
      /\ \A i \in 1 .. Len(s.objs) : objs[i] = IF i = o THEN y ELSE s.objs[i]
  BY <1>1, <1>6, <1>7, ExceptSeq
<1>9. PICK notes \in Seq(Nat) : notes = Append(s.notes, o)
  BY <1>1, <1>2, AppendProperties
<1>10. PICK record \in SUBSET LinkTargets : record = s.record \cup {to}
  BY <1>1
<1>11. PICK r : r = [s EXCEPT !.objs = objs, !.notes = notes, !.record = record]
  OBVIOUS
<1>12. /\ r \in Parsers /\ r.objs = objs /\ r.notes = notes /\ r.record = record /\ r.made = s.made
       /\ r.phase = s.phase /\ r.doc = s.doc /\ r.blocks = s.blocks /\ r.paras = s.paras
       /\ r.refs = s.refs /\ r.listed = s.listed /\ r.said = s.said /\ r.items = s.items
  BY <1>8, <1>11 DEF Parsers
<1>13. Number(s, o) = r
  BY <1>3, <1>4, <1>5, <1>7, <1>9, <1>10, <1>11 DEF Number, Parsers
<1>14. objs[o] = y
  BY <1>8
<1>15. PICK m \in [to : LinkTargets, number : Nat] : m = [to |-> to, number |-> n]
  OBVIOUS
<1>16. PICK made \in Seq([to : LinkTargets, number : Nat]) : made = Append(s.made, m)
  BY <1>1, AppendProperties
<1>17. q = [r EXCEPT !.made = made]
  <2>1. r.objs[o].number = n /\ r.made = s.made
    BY <1>6, <1>12, <1>14
  <2>2. q = [r EXCEPT !.made = Append(r.made, [to |-> to, number |-> r.objs[o].number])]
    BY <1>12, <1>13 DEF Made, Parsers
  <2>3. QED
    BY <1>15, <1>16, <2>1, <2>2
<1>18. /\ q \in Parsers /\ q.made = made
       /\ q.objs = objs /\ q.notes = notes /\ q.record = s.record \cup {to}
       /\ q.phase = s.phase /\ q.doc = s.doc /\ q.blocks = s.blocks /\ q.paras = s.paras
       /\ q.refs = s.refs /\ q.listed = s.listed /\ q.said = s.said /\ q.items = s.items
  BY <1>12, <1>10, <1>17 DEF Parsers
<1>19. Item(p, q)
  BY <1>18 DEF Item
<1>20. \A i \in 1 .. Len(p.objs) :
         /\ q.objs[i].link = p.objs[i].link /\ q.objs[i].block = p.objs[i].block
         /\ q.objs[i].body = p.objs[i].body /\ (i # o => q.objs[i].number = p.objs[i].number)
  <2> SUFFICES ASSUME NEW i \in 1 .. Len(p.objs)
               PROVE  /\ q.objs[i].link = p.objs[i].link /\ q.objs[i].block = p.objs[i].block
                      /\ q.objs[i].body = p.objs[i].body /\ (i # o => q.objs[i].number = p.objs[i].number)
    OBVIOUS
  <2>1. i \in 1 .. Len(s.objs) /\ s.objs[i] = p.objs[i]
    BY <1>2
  <2>2. q.objs[i] = IF i = o THEN y ELSE s.objs[i]
    BY <1>8, <1>18, <2>1
  <2>3. CASE i = o
    BY <1>4, <1>6, <2>1, <2>2, <2>3
  <2>4. CASE i # o
    BY <2>1, <2>2, <2>4
  <2>5. QED
    BY <2>3, <2>4
<1>21. \A i \in 1 .. Len(q.objs) : i > Len(p.objs) => q.objs[i].block = FALSE
  <2> SUFFICES ASSUME NEW i \in 1 .. Len(q.objs), i > Len(p.objs)
               PROVE  q.objs[i].block = FALSE
    OBVIOUS
  <2>1. i \in 1 .. Len(s.objs) /\ s.objs[i].block = FALSE
    BY <1>8, <1>18
  <2>2. q.objs[i] = IF i = o THEN y ELSE s.objs[i]
    BY <1>8, <1>18, <2>1
  <2>3. QED
    BY <1>4, <1>6, <2>1, <2>2
<1>22. /\ o \in 1 .. Len(q.objs) /\ q.objs[o].number = n /\ q.objs[o].link = to
       /\ Len(p.objs) <= Len(q.objs)
  BY <1>4, <1>6, <1>8, <1>14, <1>18
<1>23. /\ q.notes = Append(p.notes, o) /\ q.record = p.record \cup {to} /\ n = Len(p.notes) + 1
       /\ q.made = Append(p.made, [to |-> to, number |-> Len(p.notes) + 1])
  BY <1>3, <1>9, <1>15, <1>16, <1>18
<1>24. QED
  BY <1>19, <1>20, <1>21, <1>22, <1>23 DEF Counts

LEMMA ItemDoes ==
  ASSUME NEW p \in Parsers, Numbered(p), p.items # <<>>
  PROVE  Item(p, NextItem(p)) /\ Does(p, NextItem(p), Head(p.items))
<1>1. PICK items \in Seq(Items), item \in Items : items = Tail(p.items) /\ item = Head(p.items)
  <2>1. p.items \in Seq(Items)
    BY DEF Parsers
  <2>2. QED
    BY <2>1, HeadTailProperties
<1>2. PICK s : s = [p EXCEPT !.items = items]
  OBVIOUS
<1>3. /\ s \in Parsers /\ s.items = items
      /\ s.objs = p.objs /\ s.notes = p.notes /\ s.record = p.record /\ s.made = p.made
      /\ s.phase = p.phase /\ s.doc = p.doc /\ s.blocks = p.blocks /\ s.paras = p.paras
      /\ s.refs = p.refs /\ s.listed = p.listed /\ s.said = p.said
  BY <1>2 DEF Parsers
<1>4. Item(p, s)
  BY <1>1, <1>3 DEF Item
<1>5. PICK q : q = Inline(s, item)
  OBVIOUS
<1>6. q = NextItem(p)
  BY <1>1, <1>2, <1>5 DEF NextItem
<1>7. p.objs \in Seq(Notes) /\ Len(p.objs) \in Nat /\ p.notes \in Seq(Nat) /\ Len(p.notes) \in Nat
  <2>1. p.objs \in Seq(Notes) /\ p.notes \in Seq(Nat)
    BY DEF Parsers
  <2>2. QED
    BY <2>1
<1>8. CASE item.k = "text"
  <2>1. q = s
    BY <1>5, <1>8 DEF Inline
  <2>2. QED
    BY <1>1, <1>3, <1>4, <1>6, <1>8, <2>1 DEF Does, Alike
<1>9. CASE item.k = "ref"
  <2>1. PICK l \in Labels : l = item.label
    BY <1>9, NotesAssumption
  <2>2. q = Deferred(s, l)
    BY <1>5, <1>9, <2>1 DEF Inline
  <2>3. PICK o : o = p.refs[l]
    OBVIOUS
  <2>4. CASE o = 0
    <3>1. q = s
      BY <1>3, <2>2, <2>3, <2>4 DEF Deferred
    <3>2. QED
      BY <1>1, <1>3, <1>4, <1>6, <1>9, <2>1, <2>3, <2>4, <3>1 DEF Does, Alike
  <2>5. CASE o # 0
    <3>1. o \in 1 .. Len(p.objs) /\ p.objs[o].link = l
      BY <1>7, <2>3, <2>5 DEF Numbered
    <3>2. CASE l \in p.record
      <4>1. q = Made(s, l, o)
        BY <1>3, <2>2, <2>3, <2>5, <3>1, <3>2 DEF Deferred
      <4>2. Item(p, q) /\ Shows(p, q, l)
        BY <1>1, <1>2, <2>3, <2>5, <3>2, <4>1, ShowsDoes
      <4>3. QED
        BY <1>1, <1>6, <1>9, <2>1, <4>2 DEF Does
    <3>3. CASE l \notin p.record
      <4>1. q = Made(Number(s, o), l, o)
        BY <1>3, <2>2, <2>3, <2>5, <3>1, <3>3 DEF Deferred
      <4>2. ~Has(p.notes, o)
        BY <3>1, <3>3 DEF Numbered, Has
      <4>3. l \in LinkTargets
        BY DEF LinkTargets
      <4>4. \A i \in 1 .. Len(s.objs) : i > Len(p.objs) => s.objs[i].block = FALSE
        BY <1>3, <1>7
      <4>5. Len(p.objs) <= Len(s.objs)
        BY <1>3, <1>7
      <4>6. Item(p, q) /\ Counts(p, q, l, o)
        BY <1>3, <1>4, <3>1, <4>1, <4>2, <4>3, <4>4, <4>5, CountsDoes
      <4>7. QED
        BY <1>1, <1>6, <1>9, <2>1, <2>3, <2>5, <4>6 DEF Does
    <3>4. QED
      BY <3>2, <3>3
  <2>6. QED
    BY <2>4, <2>5
<1>10. CASE item.k = "note"
  <2>1. item.slug \in LinkTargets /\ item.items \in Seq(Items)
    BY <1>10, NotesAssumption DEF LinkTargets
  <2>2. PICK to \in LinkTargets : to = item.slug
    BY <2>1
  <2>3. PICK x \in Notes : x = [link |-> item.slug, number |-> 0, block |-> FALSE, body |-> item.items]
    BY <2>1 DEF Notes
  <2>4. PICK objs : objs = Append(p.objs, x)
    OBVIOUS
  <2>5. /\ objs \in Seq(Notes) /\ Len(objs) = Len(p.objs) + 1 /\ objs[Len(p.objs) + 1] = x
        /\ \A i \in 1 .. Len(p.objs) : objs[i] = p.objs[i]
    BY <1>7, <2>4, AppendProperties
  <2>6. PICK t : t = [s EXCEPT !.objs = objs]
    OBVIOUS
  <2>7. /\ t \in Parsers /\ t.items = items
        /\ t.objs = objs /\ t.notes = p.notes /\ t.record = p.record /\ t.made = p.made
        /\ t.phase = p.phase /\ t.doc = p.doc /\ t.blocks = p.blocks /\ t.paras = p.paras
        /\ t.refs = p.refs /\ t.listed = p.listed /\ t.said = p.said
    BY <1>3, <2>5, <2>6 DEF Parsers
  <2>8. PICK o : o = Len(p.objs) + 1
    OBVIOUS
  <2>9. q = Made(Number(t, o), to, o)
    BY <1>3, <1>5, <1>10, <2>2, <2>3, <2>4, <2>6, <2>8 DEF Inline, InlineNote
  <2>10. Item(p, t)
    BY <1>1, <2>7 DEF Item
  <2>11. /\ o \in 1 .. Len(t.objs) /\ t.objs[o].link = to /\ Len(p.objs) <= Len(t.objs)
         /\ \A i \in 1 .. Len(p.objs) : t.objs[i] = p.objs[i]
    BY <1>7, <2>2, <2>3, <2>5, <2>7, <2>8
  <2>12. \A i \in 1 .. Len(t.objs) : i > Len(p.objs) => t.objs[i].block = FALSE
    BY <1>7, <2>3, <2>5, <2>7
  <2>13. ~Has(p.notes, o)
    BY <1>7, <2>8 DEF Numbered, Has
  <2>14. Item(p, q) /\ Counts(p, q, to, o)
    BY <2>7, <2>9, <2>10, <2>11, <2>12, <2>13, CountsDoes
  <2>15. QED
    BY <1>1, <1>6, <1>10, <2>2, <2>8, <2>14 DEF Does
<1>11. QED
  BY <1>8, <1>9, <1>10, NotesAssumption

\* Whatever a step makes, notes and references are only added.
Grows(p, q) ==
  /\ Len(p.notes) <= Len(q.notes) /\ \A i \in 1 .. Len(p.notes) : q.notes[i] = p.notes[i]
  /\ \A i \in 1 .. Len(p.objs) : /\ i \in 1 .. Len(q.objs) /\ q.objs[i].block = p.objs[i].block
                                 /\ q.objs[i].body = p.objs[i].body
  /\ \A i \in 1 .. Len(q.objs) : i \notin 1 .. Len(p.objs) => q.objs[i].block = FALSE

LEMMA DoesGrows ==
  ASSUME NEW p \in Parsers, NEW q \in Parsers, NEW item, Does(p, q, item)
  PROVE  Grows(p, q)
<1>1. Len(p.notes) \in Nat /\ Len(p.objs) \in Nat
  <2>1. p.objs \in Seq(Notes) /\ p.notes \in Seq(Nat)
    BY DEF Parsers
  <2>2. QED
    BY <2>1
<1>2. CASE Alike(p, q)
  BY <1>1, <1>2 DEF Alike, Grows
<1>3. ASSUME NEW to, NEW o, Counts(p, q, to, o)
      PROVE  Grows(p, q)
  <2>1. /\ Len(q.notes) = Len(p.notes) + 1 /\ Len(q.objs) \in Nat
        /\ \A i \in 1 .. Len(p.notes) : q.notes[i] = p.notes[i]
    BY <1>3, CountsHas
  <2>2. Len(p.objs) <= Len(q.objs)
    BY <1>3 DEF Counts
  <2>3. \A i \in 1 .. Len(p.objs) : /\ i \in 1 .. Len(q.objs) /\ q.objs[i].block = p.objs[i].block
                                    /\ q.objs[i].body = p.objs[i].body
    BY <1>1, <1>3, <2>1, <2>2 DEF Counts
  <2>4. \A i \in 1 .. Len(q.objs) : i \notin 1 .. Len(p.objs) => q.objs[i].block = FALSE
    <3> SUFFICES ASSUME NEW i \in 1 .. Len(q.objs), i \notin 1 .. Len(p.objs)
                 PROVE  q.objs[i].block = FALSE
      OBVIOUS
    <3>1. i > Len(p.objs)
      BY <1>1, <2>1
    <3>2. QED
      BY <1>3, <3>1 DEF Counts
  <2>5. Len(p.notes) <= Len(q.notes)
    BY <1>1, <2>1
  <2>6. QED
    BY <2>1, <2>3, <2>4, <2>5 DEF Grows
<1>4. QED
  BY <1>2, <1>3 DEF Does, Shows

LEMMA ItemNumbers ==
  ASSUME NEW p \in Parsers, NEW q \in Parsers, NEW item \in Items, Numbered(p),
         Item(p, q), Does(p, q, item)
  PROVE  Numbered(q)
<1>1. q.refs = p.refs
  BY DEF Item
<1>2. CASE Alike(p, q)
  BY <1>1, <1>2 DEF Alike, Numbered
<1>3. ASSUME NEW to, NEW o, Counts(p, q, to, o)
      PROVE  Numbered(q)
  BY <1>1, <1>3, CountsNumbered
<1>4. QED
  BY <1>2, <1>3 DEF Does, Shows

LEMMA ItemKnown ==
  ASSUME NEW p \in Parsers, NEW q \in Parsers, NEW item \in Items, Numbered(p), Known(p), Distinct,
         Item(p, q), Does(p, q, item)
  PROVE  Known(q)
<1>1. q.refs = p.refs
  BY DEF Item
<1>2. CASE Alike(p, q) /\ q.made = p.made
  BY <1>1, <1>2 DEF Alike, Known
<1>3. CASE item.k = "ref" /\ Shows(p, q, item.label)
  <2>1. PICK l \in Labels : l = item.label
    BY <1>3 DEF Shows
  <2>2. Shows(p, q, l)
    BY <1>3, <2>1
  <2>3. PICK n \in 1 .. Len(p.notes) : p.notes[n] = p.refs[l]
    BY <2>2 DEF Shows, Known, Has
  <2>4. p.objs[p.refs[l]].number = n /\ p.objs[p.refs[l]].link = l
    BY <2>2, <2>3 DEF Shows, Numbered
  <2>5. p.notes \in Seq(Nat) /\ p.made \in Seq([to : LinkTargets, number : Nat])
    BY DEF Parsers
  <2>6. PICK m \in [to : LinkTargets, number : Nat] : m = [to |-> l, number |-> n]
    <3>1. l \in LinkTargets /\ n \in Nat
      BY <2>5 DEF LinkTargets
    <3>2. QED
      BY <3>1
  <2>7. q.made = Append(p.made, m)
    BY <2>2, <2>4, <2>6 DEF Shows
  <2>8. /\ Len(q.made) = Len(p.made) + 1 /\ q.made[Len(p.made) + 1] = m /\ Len(p.made) \in Nat
        /\ \A i \in 1 .. Len(p.made) : q.made[i] = p.made[i]
    BY <2>5, <2>7, AppendProperties
  <2>9. q.objs = p.objs /\ q.notes = p.notes /\ q.record = p.record
    BY <2>2 DEF Shows, Alike
  <2>10. m.number = n /\ m.to = l
    BY <2>6
  <2>11. ASSUME NEW i \in 1 .. Len(q.made)
         PROVE  /\ q.made[i].number \in 1 .. Len(q.notes)
                /\ q.objs[q.notes[q.made[i].number]].link = q.made[i].to
    <3>1. CASE i = Len(p.made) + 1
      BY <2>3, <2>4, <2>8, <2>9, <2>10, <3>1
    <3>2. CASE i # Len(p.made) + 1
      <4>1. i \in 1 .. Len(p.made)
        BY <2>8, <3>2
      <4>2. QED
        BY <2>8, <2>9, <4>1 DEF Known
    <3>3. QED
      BY <3>1, <3>2
  <2>12. QED
    BY <1>1, <2>9, <2>11 DEF Known
<1>4. CASE item.k = "ref" /\ Counts(p, q, item.label, p.refs[item.label])
  BY <1>1, <1>4, CountsKnown
<1>5. CASE item.k = "note" /\ Counts(p, q, item.slug, Len(p.objs) + 1)
  <2>1. item.slug \notin Labels
    BY <1>5 DEF Distinct
  <2>2. QED
    BY <1>1, <1>5, <2>1, CountsKnown
<1>6. QED
  BY <1>2, <1>3, <1>4, <1>5 DEF Does

\* A reference that has been come to has its note.
LEMMA ItemMeets ==
  ASSUME NEW p \in Parsers, NEW q \in Parsers, p.items # <<>>, Known(p),
         Item(p, q), Does(p, q, Head(p.items)), \A l \in Defined(p) : p.refs[l] # 0,
         NEW labels, Meets(p, labels)
  PROVE  Meets(q, labels)
<1> SUFFICES ASSUME NEW l \in labels \cap Defined(q)
             PROVE  Has(q.notes, q.refs[l]) \/ l \in Refs(q.items)
  BY DEF Meets
<1>1. /\ q.refs = p.refs /\ q.items = Tail(p.items) /\ l \in Defined(p)
  BY DEF Item, Defined
<1>2. p.refs[l] # 0
  BY <1>1
<1>3. CASE Has(p.notes, p.refs[l])
  <2>1. CASE Alike(p, q)
    BY <1>1, <1>3, <2>1 DEF Alike
  <2>2. ASSUME NEW to, NEW o, Counts(p, q, to, o)
        PROVE  Has(q.notes, q.refs[l])
    BY <1>1, <1>3, <2>2, CountsHas
  <2>3. QED
    BY <2>1, <2>2 DEF Does, Shows
<1>4. CASE l \in Refs(p.items)
  <2>1. p.items \in Seq(Items)
    BY DEF Parsers
  <2>2. CASE l \in Refs(Tail(p.items))
    BY <1>1, <2>2
  <2>3. CASE Head(p.items).k = "ref" /\ Head(p.items).label = l
    <3>1. CASE Shows(p, q, l)
      BY <1>1, <3>1 DEF Shows, Alike, Known
    <3>2. CASE Counts(p, q, l, p.refs[l])
      BY <1>1, <3>2, CountsHas
    <3>3. QED
      BY <1>2, <2>3, <3>1, <3>2 DEF Does
  <2>4. QED
    BY <1>4, <2>1, <2>2, <2>3, TailRefs
<1>5. QED
  BY <1>1, <1>3, <1>4 DEF Meets

\* What p has defined has a reference once the parser comes to texts.
LEMMA DefinedHere ==
  ASSUME NEW p \in Parsers, Complete(p), p.phase # "block", NEW l \in Defined(p)
  PROVE  p.refs[l] # 0
<1>1. DOMAIN p.doc = 1 .. Len(p.doc)
  BY DEF Parsers
<1>2. PICK i \in 1 .. Len(p.doc) : p.doc[i].k = "def" /\ p.doc[i].label = l
  BY <1>1 DEF Defined
<1>3. QED
  BY <1>2 DEF Complete

\* What is in the list stays as it is.
LEMMA GrowsInOrder ==
  ASSUME NEW p \in Parsers, NEW q \in Parsers, InOrder(p), Numbered(p), Grows(p, q),
         q.listed = p.listed, q.said = p.said
  PROVE  /\ InOrder(q)
         /\ \A i \in 1 .. Len(p.listed) : /\ p.listed[i] \in 1 .. Len(p.objs)
                                          /\ q.objs[q.listed[i]].block = p.objs[p.listed[i]].block
                                          /\ q.objs[q.listed[i]].body = p.objs[p.listed[i]].body
<1>1. Len(p.notes) \in Nat /\ Len(q.notes) \in Nat /\ Len(p.listed) \in Nat
  <2>1. p.notes \in Seq(Nat) /\ q.notes \in Seq(Nat) /\ p.listed \in Seq(Nat)
    BY DEF Parsers
  <2>2. QED
    BY <2>1
<1>2. ASSUME NEW i \in 1 .. Len(p.listed)
      PROVE  /\ p.listed[i] \in 1 .. Len(p.objs) /\ q.listed[i] = q.notes[i]
             /\ q.objs[q.listed[i]].block = p.objs[p.listed[i]].block
             /\ q.objs[q.listed[i]].body = p.objs[p.listed[i]].body
  <2>1. i \in 1 .. Len(p.notes) /\ p.listed[i] = p.notes[i]
    BY <1>1 DEF InOrder
  <2>2. PICK o : o = p.notes[i]
    OBVIOUS
  <2>3. o \in 1 .. Len(p.objs)
    BY <2>1, <2>2 DEF Numbered
  <2>4. q.objs[o].block = p.objs[o].block /\ q.objs[o].body = p.objs[o].body /\ q.notes[i] = o
    BY <2>1, <2>2, <2>3 DEF Grows
  <2>5. QED
    BY <2>1, <2>2, <2>3, <2>4
<1>3. InOrder(q)
  <2>1. Len(q.listed) <= Len(q.notes) /\ q.said = q.listed
    BY <1>1 DEF InOrder, Grows
  <2>2. QED
    BY <1>2, <2>1 DEF InOrder
<1>4. QED
  BY <1>2, <1>3

LEMMA ItemKeeps ==
  ASSUME NEW p, NotesInv(p), p.items # <<>>
  PROVE  NotesInv(NextItem(p))
<1> USE DEF NotesInv
<1>1. PICK q : q = NextItem(p)
  OBVIOUS
<1>2. PICK item \in Items : item = Head(p.items)
  <2>1. p.items \in Seq(Items)
    BY DEF Parsers
  <2>2. QED
    BY <2>1
<1>3. p \in Parsers /\ q \in Parsers /\ Item(p, q) /\ Does(p, q, Head(p.items)) /\ Numbered(p)
  BY <1>1, ItemDoes DEF Item
<1>4. Grows(p, q)
  BY <1>3, DoesGrows
<1>5. Numbered(q)
  BY <1>2, <1>3, ItemNumbers
<1>6. p.phase # "block" /\ q.phase = p.phase
  BY <1>3 DEF Young, Item
<1>7. Young(q)
  BY <1>6 DEF Young
<1>8. /\ q.listed = p.listed /\ q.said = p.said /\ q.refs = p.refs /\ q.blocks = p.blocks
      /\ q.paras = p.paras /\ q.doc = p.doc
  BY <1>3 DEF Item
<1>9. /\ InOrder(q)
      /\ \A i \in 1 .. Len(p.listed) : /\ q.objs[q.listed[i]].block = p.objs[p.listed[i]].block
                                       /\ q.objs[q.listed[i]].body = p.objs[p.listed[i]].body
  BY <1>3, <1>4, <1>8, GrowsInOrder
<1>10. ASSUME Distinct
       PROVE  Known(q) /\ Settled(q) /\ Complete(q)
  <2>1. Known(p) /\ Settled(p) /\ Complete(p)
    BY <1>10
  <2>2. Known(q)
    BY <1>2, <1>3, <1>10, <2>1, ItemKnown
  <2>3. ASSUME NEW o \in 1 .. Len(q.objs), q.objs[o].block = TRUE
        PROVE  NoDef(q.objs[o].body)
    <3>1. o \in 1 .. Len(p.objs)
      BY <1>4, <2>3 DEF Grows
    <3>2. QED
      BY <1>4, <2>1, <2>3, <3>1 DEF Grows, Settled
  <2>4. Settled(q)
    BY <1>6, <1>8, <2>1, <2>3 DEF Settled
  <2>5. \A l \in Defined(p) : p.refs[l] # 0
    BY <1>3, <1>6, <2>1, DefinedHere
  <2>6. \A labels : Meets(p, labels) => Meets(q, labels)
    BY <1>3, <2>1, <2>5, ItemMeets
  <2>7. \A labels : Waits(p, labels) => Waits(q, labels)
    BY <1>6, <1>8, <2>6 DEF Waits, Listed, Defined
  <2>8. \A i \in 1 .. Len(q.doc) : q.doc[i].k = "def" => q.refs[q.doc[i].label] # 0
    BY <1>6, <1>8, <2>1 DEF Complete
  <2>9. \A i \in 1 .. Len(q.doc) : q.doc[i].k \in {"para", "cell"} =>
          CASE q.phase = "block" -> Has(q.blocks, q.doc[i]) \/ Has(q.paras, q.doc[i])
            [] q.phase = "walk" -> Has(q.paras, q.doc[i]) \/ Meets(q, Refs(q.doc[i].items))
            [] OTHER -> Waits(q, Refs(q.doc[i].items))
    <3> SUFFICES ASSUME NEW i \in 1 .. Len(q.doc), q.doc[i].k \in {"para", "cell"}
                 PROVE  IF q.phase = "walk" THEN Has(q.paras, q.doc[i]) \/ Meets(q, Refs(q.doc[i].items))
                                            ELSE Waits(q, Refs(q.doc[i].items))
      BY <1>6
    <3>1. CASE q.phase = "walk"
      BY <1>6, <1>8, <2>1, <2>6, <3>1 DEF Complete
    <3>2. CASE q.phase # "walk"
      BY <1>6, <1>8, <2>1, <2>7, <3>2 DEF Complete
    <3>3. QED
      BY <3>1, <3>2
  <2>10. \A i \in 1 .. Len(q.listed) : q.objs[q.listed[i]].block = FALSE =>
           Waits(q, Refs(q.objs[q.listed[i]].body))
    <3> SUFFICES ASSUME NEW i \in 1 .. Len(q.listed), q.objs[q.listed[i]].block = FALSE
                 PROVE  Waits(q, Refs(q.objs[q.listed[i]].body))
      OBVIOUS
    <3>1. Waits(p, Refs(p.objs[p.listed[i]].body))
      BY <1>8, <1>9, <2>1 DEF Complete
    <3>2. QED
      BY <1>8, <1>9, <2>7, <3>1
  <2>11. QED
    BY <2>2, <2>4, <2>8, <2>9, <2>10 DEF Complete
<1>11. QED
  BY <1>1, <1>3, <1>5, <1>7, <1>9, <1>10

\* A step of Block.
BlockStep(p, q) ==
  /\ q \in Parsers /\ q.phase = p.phase /\ q.doc = p.doc /\ q.items = p.items /\ q.notes = p.notes
  /\ q.record = p.record /\ q.listed = p.listed /\ q.made = p.made /\ q.said = p.said
  /\ q.blocks = Tail(p.blocks)
Defines(p, q, b) ==
  /\ b.k = "def" /\ b.label \in Labels /\ q.paras = p.paras
  /\ \E x \in Notes : /\ x.link = b.label /\ x.block = b.block /\ x.body = b.body
                      /\ q.objs = Append(p.objs, x)
  /\ q.refs = [p.refs EXCEPT ![b.label] = Len(p.objs) + 1]
Keeps(p, q, b) == /\ b.k # "def" /\ q.objs = p.objs /\ q.refs = p.refs
                  /\ \/ b \in Texts /\ q.paras = Append(p.paras, b)
                     \/ b \notin Texts /\ q.paras = p.paras

LEMMA BlockDoes ==
  ASSUME NEW p \in Parsers, p.blocks # <<>>
  PROVE  LET q == NextBlock(p)
             b == Head(p.blocks)
         IN BlockStep(p, q) /\ (Defines(p, q, b) \/ Keeps(p, q, b))
<1>1. PICK blocks \in Seq(Blocks), b \in Blocks : blocks = Tail(p.blocks) /\ b = Head(p.blocks)
  <2>1. p.blocks \in Seq(Blocks)
    BY DEF Parsers
  <2>2. QED
    BY <2>1, HeadTailProperties
<1>2. PICK s : s = [p EXCEPT !.blocks = blocks]
  OBVIOUS
<1>3. /\ s \in Parsers /\ s.phase = p.phase /\ s.doc = p.doc /\ s.items = p.items /\ s.notes = p.notes
      /\ s.record = p.record /\ s.listed = p.listed /\ s.made = p.made /\ s.said = p.said
      /\ s.blocks = blocks /\ s.paras = p.paras /\ s.objs = p.objs /\ s.refs = p.refs /\ s.code = p.code
  BY <1>2 DEF Parsers
<1>4. PICK q : q = Block(s, b)
  OBVIOUS
<1>5. q = NextBlock(p)
  BY <1>1, <1>2, <1>4 DEF NextBlock
<1>6. p.objs \in Seq(Notes) /\ Len(p.objs) \in Nat /\ p.paras \in Seq(Texts) /\ p.code \in Seq(Blocks)
  <2>1. p.objs \in Seq(Notes) /\ p.paras \in Seq(Texts) /\ p.code \in Seq(Blocks)
    BY DEF Parsers
  <2>2. QED
    BY <2>1
<1>7. CASE b.k = "def"
  <2>1. /\ b.label \in Labels
        /\ \/ b.block = FALSE /\ b.body \in Seq(Items)
           \/ b.block = TRUE /\ b.body \in Seq(Blocks)
    BY <1>7, NotesAssumption
  <2>2. PICK l \in Labels : l = b.label
    BY <2>1
  <2>3. PICK x : x = [link |-> b.label, number |-> 1, block |-> b.block, body |-> b.body]
    OBVIOUS
  <2>4. x \in Notes /\ x.link = b.label /\ x.block = b.block /\ x.body = b.body
    BY <2>1, <2>3 DEF Notes, LinkTargets
  <2>5. PICK objs : objs = Append(p.objs, x)
    OBVIOUS
  <2>6. objs \in Seq(Notes)
    BY <1>6, <2>4, <2>5, AppendProperties
  <2>7. PICK refs : refs = [p.refs EXCEPT ![l] = Len(p.objs) + 1]
    OBVIOUS
  <2>8. refs \in [Labels -> Nat]
    BY <1>6, <2>7 DEF Parsers
  <2>9. q = [s EXCEPT !.objs = objs, !.refs = refs]
    BY <1>3, <1>4, <1>7, <2>2, <2>3, <2>5, <2>7 DEF Block, Define, Parsers
  <2>10. /\ q \in Parsers /\ q.phase = p.phase /\ q.doc = p.doc /\ q.items = p.items /\ q.notes = p.notes
         /\ q.record = p.record /\ q.listed = p.listed /\ q.made = p.made /\ q.said = p.said
         /\ q.blocks = blocks /\ q.paras = p.paras /\ q.objs = objs /\ q.refs = refs
    BY <1>3, <2>6, <2>8, <2>9 DEF Parsers
  <2>11. Defines(p, q, b)
    BY <1>7, <2>1, <2>2, <2>4, <2>5, <2>7, <2>10 DEF Defines
  <2>12. QED
    BY <1>1, <1>5, <2>10, <2>11 DEF BlockStep
<1>8. CASE b.k \in {"para", "cell"}
  <2>1. b \in Texts
    BY <1>8 DEF Texts
  <2>2. PICK paras : paras = Append(p.paras, b)
    OBVIOUS
  <2>3. paras \in Seq(Texts)
    BY <1>6, <2>1, <2>2, AppendProperties
  <2>4. q = [s EXCEPT !.paras = paras]
    BY <1>3, <1>4, <1>8, <2>2 DEF Block, Parsers
  <2>5. /\ q \in Parsers /\ q.phase = p.phase /\ q.doc = p.doc /\ q.items = p.items /\ q.notes = p.notes
        /\ q.record = p.record /\ q.listed = p.listed /\ q.made = p.made /\ q.said = p.said
        /\ q.blocks = blocks /\ q.paras = paras /\ q.objs = p.objs /\ q.refs = p.refs
    BY <1>3, <2>3, <2>4 DEF Parsers
  <2>6. Keeps(p, q, b)
    BY <1>8, <2>1, <2>2, <2>5 DEF Keeps
  <2>7. QED
    BY <1>1, <1>5, <2>5, <2>6 DEF BlockStep
<1>9. CASE b.k = "code"
  <2>1. b \notin Texts
    BY <1>9 DEF Texts
  <2>2. PICK code : code = Append(p.code, b)
    OBVIOUS
  <2>3. code \in Seq(Blocks)
    BY <1>6, <2>2, AppendProperties
  <2>4. q = [s EXCEPT !.code = code]
    BY <1>3, <1>4, <1>9, <2>2 DEF Block, Parsers
  <2>5. /\ q \in Parsers /\ q.phase = p.phase /\ q.doc = p.doc /\ q.items = p.items /\ q.notes = p.notes
        /\ q.record = p.record /\ q.listed = p.listed /\ q.made = p.made /\ q.said = p.said
        /\ q.blocks = blocks /\ q.paras = p.paras /\ q.objs = p.objs /\ q.refs = p.refs
    BY <1>3, <2>3, <2>4 DEF Parsers
  <2>6. Keeps(p, q, b)
    BY <1>9, <2>1, <2>5 DEF Keeps
  <2>7. QED
    BY <1>1, <1>5, <2>5, <2>6 DEF BlockStep
<1>10. QED
  BY <1>7, <1>8, <1>9, NotesAssumption

LEMMA TailNoDef ==
  ASSUME NEW s \in Seq(Blocks), s # <<>>, NoDef(s)
  PROVE  NoDef(Tail(s)) /\ Head(s).k # "def"
<1>1. Len(s) \in Nat \ {0} /\ Head(s) = s[1]
  OBVIOUS
<1>2. /\ Len(Tail(s)) = Len(s) - 1
      /\ \A j \in 1 .. Len(Tail(s)) : Tail(s)[j] = s[j + 1]
  BY HeadTailProperties
<1>3. \A j \in 1 .. Len(Tail(s)) : j + 1 \in 1 .. Len(s)
  BY <1>1, <1>2
<1>4. QED
  BY <1>1, <1>2, <1>3 DEF NoDef

LEMMA BlockNumbers ==
  ASSUME NEW p \in Parsers, NEW q \in Parsers, NEW b, Numbered(p), BlockStep(p, q),
         Defines(p, q, b) \/ Keeps(p, q, b)
  PROVE  Numbered(q)
<1>1. p.objs \in Seq(Notes) /\ Len(p.objs) \in Nat
  <2>1. p.objs \in Seq(Notes)
    BY DEF Parsers
  <2>2. QED
    BY <2>1
<1>2. CASE Keeps(p, q, b)
  BY <1>2 DEF Keeps, BlockStep, Numbered
<1>3. CASE Defines(p, q, b)
  <2>1. PICK x \in Notes : x.link = b.label /\ q.objs = Append(p.objs, x)
    BY <1>3 DEF Defines
  <2>2. /\ Len(q.objs) = Len(p.objs) + 1 /\ q.objs[Len(p.objs) + 1] = x
        /\ \A i \in 1 .. Len(p.objs) : q.objs[i] = p.objs[i]
    BY <1>1, <2>1, AppendProperties
  <2>3. ASSUME NEW l \in Labels
        PROVE  q.refs[l] \in 0 .. Len(q.objs) /\ (q.refs[l] # 0 => q.objs[q.refs[l]].link = l)
    <3>1. p.refs \in [Labels -> Nat]
      BY DEF Parsers
    <3>2. CASE l = b.label
      BY <1>1, <1>3, <2>1, <2>2, <3>1, <3>2 DEF Defines
    <3>3. CASE l # b.label
      <4>1. q.refs[l] = p.refs[l]
        BY <1>3, <3>1, <3>3 DEF Defines
      <4>2. PICK o : o = p.refs[l]
        OBVIOUS
      <4>3. o \in 0 .. Len(p.objs) /\ (o # 0 => p.objs[o].link = l)
        BY <4>2 DEF Numbered
      <4>4. o # 0 => o \in 1 .. Len(p.objs)
        BY <1>1, <4>3
      <4>5. QED
        BY <1>1, <2>2, <4>1, <4>2, <4>3, <4>4
    <3>4. QED
      BY <3>2, <3>3
  <2>4. ASSUME NEW i \in 1 .. Len(q.notes)
        PROVE  /\ q.notes[i] \in 1 .. Len(q.objs) /\ q.objs[q.notes[i]].number = i
               /\ q.objs[q.notes[i]].link \in q.record
    <3>1. q.notes = p.notes /\ q.record = p.record
      BY DEF BlockStep
    <3>2. PICK o : o = p.notes[i]
      OBVIOUS
    <3>3. o \in 1 .. Len(p.objs) /\ p.objs[o].number = i /\ p.objs[o].link \in p.record
      BY <3>1, <3>2 DEF Numbered
    <3>4. q.objs[o] = p.objs[o] /\ o \in 1 .. Len(q.objs)
      BY <1>1, <2>2, <3>3
    <3>5. QED
      BY <3>1, <3>2, <3>3, <3>4
  <2>5. QED
    BY <2>3, <2>4 DEF Numbered
<1>4. QED
  BY <1>2, <1>3

LEMMA BlockSettles ==
  ASSUME NEW p \in Parsers, NEW q \in Parsers, p.blocks # <<>>, Head(p.blocks) \in Blocks, Distinct,
         Settled(p), BlockStep(p, q), Defines(p, q, Head(p.blocks)) \/ Keeps(p, q, Head(p.blocks))
  PROVE  Settled(q) /\ p.phase # "walk" /\ (p.phase # "block" => Keeps(p, q, Head(p.blocks)))
<1>1. p.objs \in Seq(Notes) /\ Len(p.objs) \in Nat /\ p.blocks \in Seq(Blocks)
  <2>1. p.objs \in Seq(Notes) /\ p.blocks \in Seq(Blocks)
    BY DEF Parsers
  <2>2. QED
    BY <2>1
<1>2. p.phase # "block" => NoDef(q.blocks) /\ Keeps(p, q, Head(p.blocks))
  BY <1>1, TailNoDef DEF Settled, BlockStep, Defines
<1>3. p.phase # "walk"
  BY DEF Settled
<1>4. ASSUME NEW o \in 1 .. Len(q.objs), q.objs[o].block = TRUE
      PROVE  NoDef(q.objs[o].body)
  <2>1. CASE q.objs = p.objs
    BY <1>4, <2>1 DEF Settled
  <2>2. CASE Defines(p, q, Head(p.blocks))
    <3>1. PICK x \in Notes : /\ x.block = Head(p.blocks).block /\ x.body = Head(p.blocks).body
                             /\ q.objs = Append(p.objs, x)
      BY <2>2 DEF Defines
    <3>2. /\ Len(q.objs) = Len(p.objs) + 1 /\ q.objs[Len(p.objs) + 1] = x
          /\ \A i \in 1 .. Len(p.objs) : q.objs[i] = p.objs[i]
      BY <1>1, <3>1, AppendProperties
    <3>3. CASE o = Len(p.objs) + 1
      <4>1. Head(p.blocks).k = "def" /\ Head(p.blocks).block = TRUE /\ x.block = TRUE
        BY <1>4, <2>2, <3>1, <3>2, <3>3 DEF Defines
      <4>2. \A i \in DOMAIN x.body : x.body[i].k # "def"
        BY <3>1, <4>1 DEF Distinct
      <4>3. x.body \in Seq(Blocks)
        BY <4>1 DEF Notes
      <4>4. NoDef(x.body)
        BY <4>2, <4>3 DEF NoDef
      <4>5. QED
        BY <3>2, <3>3, <4>4
    <3>4. CASE o # Len(p.objs) + 1
      <4>1. o \in 1 .. Len(p.objs) /\ q.objs[o] = p.objs[o]
        BY <1>1, <3>2, <3>4
      <4>2. QED
        BY <1>4, <4>1 DEF Settled
    <3>5. QED
      BY <3>3, <3>4
  <2>3. QED
    BY <2>1, <2>2 DEF Keeps
<1>5. QED
  BY <1>2, <1>3, <1>4 DEF Settled, BlockStep

LEMMA BlockCompletes ==
  ASSUME NEW p \in Parsers, NEW q \in Parsers, p.blocks # <<>>, Complete(p), Young(p), BlockStep(p, q),
         p.phase = "block", Defines(p, q, Head(p.blocks)) \/ Keeps(p, q, Head(p.blocks))
  PROVE  Complete(q)
<1>1. /\ p.blocks \in Seq(Blocks) /\ p.paras \in Seq(Texts) /\ p.refs \in [Labels -> Nat]
      /\ Len(p.objs) \in Nat /\ p.doc \in Seq(Blocks)
  <2>1. p.objs \in Seq(Notes) /\ p.blocks \in Seq(Blocks) /\ p.paras \in Seq(Texts)
        /\ p.refs \in [Labels -> Nat] /\ p.doc \in Seq(Blocks)
    BY DEF Parsers
  <2>2. QED
    BY <2>1
<1>2. /\ q.phase = "block" /\ q.doc = p.doc /\ q.blocks = Tail(p.blocks) /\ q.listed = <<>>
  BY DEF BlockStep, Young
<1>3. ASSUME NEW i \in 1 .. Len(q.doc), q.doc[i].k = "def"
      PROVE  q.refs[q.doc[i].label] # 0 \/ Has(q.blocks, q.doc[i])
  <2>1. q.doc[i].label \in Labels
    <3>1. q.doc[i] \in Blocks
      BY <1>1, <1>2, ElementOfSeq
    <3>2. QED
      BY <1>3, <3>1, NotesAssumption
  <2>2. p.refs[q.doc[i].label] # 0 \/ Has(p.blocks, q.doc[i])
    BY <1>2, <1>3 DEF Complete
  <2>3. CASE p.refs[q.doc[i].label] # 0
    <3>1. CASE q.refs = p.refs
      BY <2>3, <3>1
    <3>2. CASE q.refs = [p.refs EXCEPT ![Head(p.blocks).label] = Len(p.objs) + 1]
      <4>1. CASE q.doc[i].label = Head(p.blocks).label
        <5>1. q.refs[q.doc[i].label] = Len(p.objs) + 1
          BY <1>1, <2>1, <3>2, <4>1
        <5>2. QED
          BY <1>1, <5>1
      <4>2. CASE q.doc[i].label # Head(p.blocks).label
        BY <1>1, <2>1, <2>3, <3>2, <4>2
      <4>3. QED
        BY <4>1, <4>2
    <3>3. QED
      BY <3>1, <3>2 DEF Keeps, Defines
  <2>4. CASE q.doc[i] = Head(p.blocks)
    <3>1. Defines(p, q, q.doc[i])
      BY <1>3, <2>4 DEF Keeps
    <3>2. q.refs[q.doc[i].label] = Len(p.objs) + 1
      BY <1>1, <3>1 DEF Defines
    <3>3. QED
      BY <1>1, <3>2
  <2>5. CASE Has(Tail(p.blocks), q.doc[i])
    BY <1>2, <2>5
  <2>6. QED
    BY <1>1, <2>2, <2>3, <2>4, <2>5, TailHas
<1>4. ASSUME NEW i \in 1 .. Len(q.doc), q.doc[i].k \in {"para", "cell"}
      PROVE  Has(q.blocks, q.doc[i]) \/ Has(q.paras, q.doc[i])
  <2>1. q.doc[i] \in Texts
    <3>1. q.doc[i] \in Blocks
      BY <1>1, <1>2, ElementOfSeq
    <3>2. QED
      BY <1>4, <3>1 DEF Texts
  <2>2. Has(p.blocks, q.doc[i]) \/ Has(p.paras, q.doc[i])
    BY <1>2, <1>4 DEF Complete
  <2>3. CASE Has(p.paras, q.doc[i])
    <3>1. CASE q.paras = p.paras
      BY <2>3, <3>1
    <3>2. CASE Head(p.blocks) \in Texts /\ q.paras = Append(p.paras, Head(p.blocks))
      BY <1>1, <2>3, <3>2, AppendHas
    <3>3. QED
      BY <3>1, <3>2 DEF Keeps, Defines
  <2>4. CASE q.doc[i] = Head(p.blocks)
    <3>1. Keeps(p, q, q.doc[i])
      BY <1>4, <2>4 DEF Defines
    <3>2. q.paras = Append(p.paras, q.doc[i])
      BY <2>1, <3>1 DEF Keeps
    <3>3. QED
      BY <1>1, <2>1, <3>2, AppendHas
  <2>5. CASE Has(Tail(p.blocks), q.doc[i])
    BY <1>2, <2>5
  <2>6. QED
    BY <1>1, <2>2, <2>3, <2>4, <2>5, TailHas
<1>5. \A i \in 1 .. Len(q.listed) : q.objs[q.listed[i]].block = FALSE =>
        Waits(q, Refs(q.objs[q.listed[i]].body))
  BY <1>2
<1>6. QED
  BY <1>2, <1>3, <1>4, <1>5 DEF Complete

LEMMA BlockKeeps ==
  ASSUME NEW p, NotesInv(p), p.blocks # <<>>
  PROVE  NotesInv(NextBlock(p))
<1> USE DEF NotesInv
<1>1. PICK q, b : q = NextBlock(p) /\ b = Head(p.blocks)
  OBVIOUS
<1>2. /\ p \in Parsers /\ q \in Parsers /\ BlockStep(p, q) /\ (Defines(p, q, b) \/ Keeps(p, q, b))
  BY <1>1, BlockDoes DEF BlockStep
<1>3. b \in Blocks
  <2>1. p.blocks \in Seq(Blocks)
    BY DEF Parsers
  <2>2. QED
    BY <1>1, <2>1
<1>4. Numbered(q)
  BY <1>2, BlockNumbers
<1>5. Young(q)
  BY <1>2 DEF Young, BlockStep
<1>6. InOrder(q)
  BY <1>2 DEF InOrder, BlockStep
<1>7. ASSUME Distinct
      PROVE  Known(q) /\ Settled(q) /\ Complete(q)
  <2>1. Known(p) /\ Settled(p) /\ Complete(p)
    BY <1>7
  <2>2. Settled(q) /\ p.phase # "walk" /\ (p.phase # "block" => Keeps(p, q, b))
    BY <1>1, <1>2, <1>3, <1>7, <2>1, BlockSettles
  <2>3. CASE p.phase = "block"
    <3>1. Known(q)
      <4>1. q.record = {} /\ q.made = <<>>
        BY <1>2, <2>3 DEF Young, BlockStep
      <4>2. QED
        BY <4>1 DEF Known
    <3>2. Complete(q)
      BY <1>1, <1>2, <2>1, <2>3, BlockCompletes
    <3>3. QED
      BY <2>2, <3>1, <3>2
  <2>4. CASE p.phase # "block"
    <3>1. Keeps(p, q, b)
      BY <2>2, <2>4
    <3>2. Known(q)
      BY <1>2, <2>1, <3>1 DEF Known, BlockStep, Keeps
    <3>3. /\ q.phase = p.phase /\ q.doc = p.doc /\ q.items = p.items /\ q.notes = p.notes
          /\ q.listed = p.listed /\ q.objs = p.objs /\ q.refs = p.refs
      BY <1>2, <3>1 DEF BlockStep, Keeps
    <3>4. \A labels : Waits(p, labels) => Waits(q, labels)
      BY <3>3 DEF Waits, Meets, Listed, Defined
    <3>5. \A i \in 1 .. Len(q.doc) : q.doc[i].k = "def" => q.refs[q.doc[i].label] # 0
      BY <2>1, <2>4, <3>3 DEF Complete
    <3>6. \A i \in 1 .. Len(q.doc) : q.doc[i].k \in {"para", "cell"} => Waits(q, Refs(q.doc[i].items))
      BY <2>1, <2>2, <2>4, <3>3, <3>4 DEF Complete
    <3>7. \A i \in 1 .. Len(q.listed) : q.objs[q.listed[i]].block = FALSE =>
            Waits(q, Refs(q.objs[q.listed[i]].body))
      BY <2>1, <3>3, <3>4 DEF Complete
    <3>8. Complete(q)
      BY <2>2, <2>4, <3>3, <3>5, <3>6, <3>7 DEF Complete
    <3>9. QED
      BY <2>2, <3>2, <3>8
  <2>5. QED
    BY <2>3, <2>4
<1>8. QED
  BY <1>1, <1>2, <1>4, <1>5, <1>6, <1>7

\* A step between texts: notes and references stay as they are.
Rests(p, q) ==
  /\ q \in Parsers /\ q.doc = p.doc /\ q.objs = p.objs /\ q.refs = p.refs /\ q.notes = p.notes
  /\ q.record = p.record /\ q.made = p.made

LEMMA RestsKeeps ==
  ASSUME NEW p \in Parsers, NEW q, Rests(p, q)
  PROVE  (Numbered(p) => Numbered(q)) /\ (Known(p) => Known(q)) /\ Defined(q) = Defined(p)
  BY DEF Rests, Numbered, Known, Defined

LEMMA NothingHas == \A x : ~Has(<<>>, x) /\ NoDef(<<>>) /\ Refs(<<>>) = {}
  BY DEF Has, NoDef, Refs

\* When there is no text to come every reference has its note.
LEMMA AllMet ==
  ASSUME NEW p \in Parsers, NEW q, Rests(p, q), p.items = <<>>, NEW labels, Meets(p, labels)
  PROVE  Meets(q, labels) /\ \A l \in labels \cap Defined(p) : Has(p.notes, p.refs[l])
<1>1. \A l \in labels \cap Defined(p) : Has(p.notes, p.refs[l])
  BY NothingHas DEF Meets
<1>2. QED
  BY <1>1, RestsKeeps DEF Meets, Rests

LEMMA WalkBegins ==
  ASSUME NEW p, NotesInv(p), p.phase = "block", p.items = <<>>, p.blocks = <<>>
  PROVE  NotesInv([p EXCEPT !.phase = "walk"])
<1> USE DEF NotesInv
<1>1. PICK q : q = [p EXCEPT !.phase = "walk"]
  OBVIOUS
<1>2. /\ Rests(p, q) /\ q.phase = "walk" /\ q.items = <<>> /\ q.blocks = <<>> /\ q.paras = p.paras
      /\ q.listed = p.listed /\ q.said = p.said
  BY <1>1 DEF Parsers, Rests
<1>3. Numbered(q) /\ Young(q) /\ InOrder(q)
  BY <1>2, RestsKeeps DEF Young, InOrder, Rests
<1>4. ASSUME Distinct
      PROVE  Known(q) /\ Settled(q) /\ Complete(q)
  <2>1. Known(p) /\ Settled(p) /\ Complete(p)
    BY <1>4
  <2>2. Settled(q)
    BY <1>2, <2>1, NothingHas DEF Settled, Rests
  <2>3. \A i \in 1 .. Len(q.doc) : q.doc[i].k = "def" => q.refs[q.doc[i].label] # 0
    BY <1>2, <2>1, NothingHas DEF Complete, Rests
  <2>4. \A i \in 1 .. Len(q.doc) : q.doc[i].k \in {"para", "cell"} => Has(q.paras, q.doc[i])
    BY <1>2, <2>1, NothingHas DEF Complete, Rests
  <2>5. q.listed = <<>>
    BY <1>2 DEF Young
  <2>6. Complete(q)
    BY <1>2, <2>3, <2>4, <2>5 DEF Complete
  <2>7. QED
    BY <1>2, <2>1, <2>2, <2>6, RestsKeeps
<1>5. QED
  BY <1>1, <1>2, <1>3, <1>4 DEF Rests

\* What is in the list has its note.
LEMMA ListedMeets ==
  ASSUME NEW p \in Parsers, InOrder(p), NEW labels, Listed(p, labels \cap Defined(p))
  PROVE  Meets(p, labels)
<1> SUFFICES ASSUME NEW l \in labels \cap Defined(p)
             PROVE  Has(p.notes, p.refs[l])
  BY DEF Meets
<1>1. p.listed \in Seq(Nat) /\ p.notes \in Seq(Nat)
  BY DEF Parsers
<1>2. PICK i \in 1 .. Len(p.listed) : p.listed[i] = p.refs[l]
  BY <1>1 DEF Listed
<1>3. i \in 1 .. Len(p.notes) /\ p.notes[i] = p.refs[l]
  BY <1>1, <1>2 DEF InOrder
<1>4. QED
  BY <1>3 DEF Has

LEMMA WalkedKeeps ==
  ASSUME NEW p, NotesInv(p), p.phase = "walk", p.items = <<>>, p.blocks = <<>>
  PROVE  NotesInv(Walked(p))
<1> USE DEF NotesInv
<1>1. PICK q : q = Walked(p)
  OBVIOUS
<1>2. p.paras \in Seq(Texts)
  BY DEF Parsers
<1>3. CASE p.paras = <<>>
  <2>1. q = [p EXCEPT !.phase = "list"]
    BY <1>1, <1>3 DEF Walked
  <2>2. /\ Rests(p, q) /\ q.phase = "list" /\ q.items = <<>> /\ q.blocks = <<>> /\ q.paras = p.paras
        /\ q.listed = p.listed /\ q.said = p.said
    BY <2>1 DEF Parsers, Rests
  <2>3. Numbered(q) /\ Young(q) /\ InOrder(q)
    BY <2>2, RestsKeeps DEF Young, InOrder, Rests
  <2>4. ASSUME Distinct
        PROVE  Known(q) /\ Settled(q) /\ Complete(q)
    <3>1. Known(p) /\ Settled(p) /\ Complete(p)
      BY <2>4
    <3>2. Settled(q)
      BY <2>2, <3>1, NothingHas DEF Settled, Rests
    <3>3. \A i \in 1 .. Len(q.doc) : q.doc[i].k = "def" => q.refs[q.doc[i].label] # 0
      BY <2>2, <3>1 DEF Complete, Rests
    <3>4. \A labels : Meets(p, labels) => Waits(q, labels)
      BY <2>2, AllMet DEF Waits
    <3>5. \A i \in 1 .. Len(q.doc) : q.doc[i].k \in {"para", "cell"} => Waits(q, Refs(q.doc[i].items))
      BY <1>3, <2>2, <3>1, <3>4, NothingHas DEF Complete, Rests
    <3>6. \A i \in 1 .. Len(q.listed) : q.objs[q.listed[i]].block = FALSE =>
            Waits(q, Refs(q.objs[q.listed[i]].body))
      BY <2>2, <3>1, <3>4, ListedMeets DEF Complete, Waits, Rests
    <3>7. Complete(q)
      BY <2>2, <3>3, <3>5, <3>6 DEF Complete
    <3>8. QED
      BY <2>2, <3>1, <3>2, <3>7, RestsKeeps
  <2>5. QED
    BY <1>1, <2>2, <2>3, <2>4 DEF Rests
<1>4. CASE p.paras # <<>>
  <2>1. PICK b \in Texts, paras \in Seq(Texts) : b = Head(p.paras) /\ paras = Tail(p.paras)
    BY <1>2, <1>4, HeadTailProperties
  <2>2. PICK items \in Seq(Items) : items = b.items
    BY NotesAssumption DEF Texts
  <2>3. q = [p EXCEPT !.paras = paras, !.items = items]
    BY <1>1, <1>4, <2>1, <2>2 DEF Walked
  <2>4. /\ Rests(p, q) /\ q.phase = "walk" /\ q.items = items /\ q.blocks = <<>> /\ q.paras = paras
        /\ q.listed = p.listed /\ q.said = p.said
    BY <2>3 DEF Parsers, Rests
  <2>5. Numbered(q) /\ Young(q) /\ InOrder(q)
    BY <2>4, RestsKeeps DEF Young, InOrder, Rests
  <2>6. ASSUME Distinct
        PROVE  Known(q) /\ Settled(q) /\ Complete(q)
    <3>1. Known(p) /\ Settled(p) /\ Complete(p)
      BY <2>6
    <3>2. Settled(q)
      BY <2>4, <3>1, NothingHas DEF Settled, Rests
    <3>3. \A i \in 1 .. Len(q.doc) : q.doc[i].k = "def" => q.refs[q.doc[i].label] # 0
      BY <2>4, <3>1 DEF Complete, Rests
    <3>4. \A labels : Meets(p, labels) => Meets(q, labels)
      BY <2>4, AllMet
    <3>5. ASSUME NEW i \in 1 .. Len(q.doc), q.doc[i].k \in {"para", "cell"}
          PROVE  Has(q.paras, q.doc[i]) \/ Meets(q, Refs(q.doc[i].items))
      <4>1. Has(p.paras, q.doc[i]) \/ Meets(p, Refs(q.doc[i].items))
        BY <2>4, <3>1, <3>5 DEF Complete, Rests
      <4>2. CASE Has(p.paras, q.doc[i])
        <5>1. q.doc[i] = b \/ Has(paras, q.doc[i])
          BY <1>2, <1>4, <2>1, <4>2, TailHas
        <5>2. q.doc[i] = b => Meets(q, Refs(q.doc[i].items))
          BY <2>2, <2>4 DEF Meets
        <5>3. QED
          BY <2>4, <5>1, <5>2
      <4>3. QED
        BY <3>4, <4>1, <4>2
    <3>6. \A i \in 1 .. Len(q.listed) : q.objs[q.listed[i]].block = FALSE =>
            Waits(q, Refs(q.objs[q.listed[i]].body))
      BY <2>4, <3>1, RestsKeeps DEF Complete, Waits, Listed, Rests
    <3>7. Complete(q)
      BY <2>4, <3>3, <3>5, <3>6 DEF Complete
    <3>8. QED
      BY <2>4, <3>1, <3>2, <3>7, RestsKeeps
  <2>7. QED
    BY <1>1, <2>4, <2>5, <2>6 DEF Rests
<1>5. QED
  BY <1>3, <1>4

LEMMA ListEnds ==
  ASSUME NEW p, NotesInv(p), p.phase = "list", p.items = <<>>, p.blocks = <<>>, Len(p.listed) = Len(p.notes)
  PROVE  NotesInv([p EXCEPT !.phase = "late"])
<1> USE DEF NotesInv
<1>1. PICK q : q = [p EXCEPT !.phase = "late"]
  OBVIOUS
<1>2. /\ Rests(p, q) /\ q.phase = "late" /\ q.items = <<>> /\ q.blocks = <<>> /\ q.paras = p.paras
      /\ q.listed = p.listed /\ q.said = p.said
  BY <1>1 DEF Parsers, Rests
<1>3. Numbered(q) /\ Young(q) /\ InOrder(q)
  BY <1>2, RestsKeeps DEF Young, InOrder, Rests
<1>4. ASSUME Distinct
      PROVE  Known(q) /\ Settled(q) /\ Complete(q)
  <2>1. Known(p) /\ Settled(p) /\ Complete(p)
    BY <1>4
  <2>2. Settled(q)
    BY <1>2, <2>1, NothingHas DEF Settled, Rests
  <2>3. \A i \in 1 .. Len(q.doc) : q.doc[i].k = "def" => q.refs[q.doc[i].label] # 0
    BY <1>2, <2>1 DEF Complete, Rests
  <2>4. ASSUME NEW labels, Waits(p, labels)
        PROVE  Waits(q, labels)
    <3> SUFFICES ASSUME NEW l \in labels \cap Defined(q)
                 PROVE  \E i \in DOMAIN q.listed : q.listed[i] = q.refs[l]
      BY <1>2 DEF Waits, Listed
    <3>1. Has(p.notes, p.refs[l])
      BY <1>2, <2>4, AllMet, RestsKeeps DEF Waits
    <3>2. p.listed \in Seq(Nat) /\ p.notes \in Seq(Nat)
      BY DEF Parsers
    <3>3. PICK i \in 1 .. Len(p.notes) : p.notes[i] = p.refs[l]
      BY <3>1 DEF Has
    <3>4. i \in 1 .. Len(p.listed) /\ p.listed[i] = p.refs[l]
      BY <3>3 DEF InOrder
    <3>5. QED
      BY <1>2, <3>2, <3>4 DEF Rests
  <2>5. \A i \in 1 .. Len(q.doc) : q.doc[i].k \in {"para", "cell"} => Waits(q, Refs(q.doc[i].items))
    BY <1>2, <2>1, <2>4 DEF Complete, Rests
  <2>6. \A i \in 1 .. Len(q.listed) : q.objs[q.listed[i]].block = FALSE =>
          Waits(q, Refs(q.objs[q.listed[i]].body))
    BY <1>2, <2>1, <2>4 DEF Complete, Rests
  <2>7. Complete(q)
    BY <1>2, <2>3, <2>5, <2>6 DEF Complete
  <2>8. QED
    BY <1>2, <2>1, <2>2, <2>7, RestsKeeps
<1>5. QED
  BY <1>1, <1>2, <1>3, <1>4 DEF Rests

\* What a note in the list consists of.
ConsistsOf(x, items, blocks) ==
  IF x.block = TRUE THEN blocks = x.body ELSE items = x.body /\ blocks = <<>>

\* The next note is put into the list, with what it consists of to come.
LEMMA NoteListed ==
  ASSUME NEW p, NotesInv(p), p.phase = "list", p.items = <<>>, p.blocks = <<>>,
         NEW o, o = p.notes[Len(p.listed) + 1], Len(p.listed) # Len(p.notes),
         NEW items \in Seq(Items), NEW blocks \in Seq(Blocks),
         NEW q, q = [p EXCEPT !.listed = Append(@, o), !.said = Append(@, o),
                            !.items = items, !.blocks = blocks],
         ConsistsOf(p.objs[o], items, blocks)
  PROVE  NotesInv(q)
<1> USE DEF NotesInv
<1>1. /\ p.listed \in Seq(Nat) /\ p.notes \in Seq(Nat) /\ p.objs \in Seq(Notes)
      /\ Len(p.listed) \in Nat /\ Len(p.notes) \in Nat /\ Len(p.objs) \in Nat
  <2>1. p.listed \in Seq(Nat) /\ p.notes \in Seq(Nat) /\ p.objs \in Seq(Notes)
    BY DEF Parsers
  <2>2. QED
    BY <2>1
<1>2. Len(p.listed) <= Len(p.notes)
  BY DEF InOrder
<1>3. Len(p.listed) + 1 \in 1 .. Len(p.notes)
  BY <1>1, <1>2
<1>4. o \in 1 .. Len(p.objs) /\ o \in Nat
  <2>1. o \in 1 .. Len(p.objs)
    BY <1>3 DEF Numbered
  <2>2. QED
    BY <1>1, <2>1
<1>5. PICK listed : listed = Append(p.listed, o)
  OBVIOUS
<1>6. /\ listed \in Seq(Nat) /\ Len(listed) = Len(p.listed) + 1 /\ listed[Len(p.listed) + 1] = o
      /\ \A i \in 1 .. Len(p.listed) : listed[i] = p.listed[i]
  BY <1>1, <1>4, <1>5, AppendProperties
<1>7. q = [p EXCEPT !.listed = listed, !.said = listed, !.items = items, !.blocks = blocks]
  BY <1>5 DEF InOrder, Parsers
<1>8. /\ Rests(p, q) /\ q.phase = "list" /\ q.items = items /\ q.blocks = blocks /\ q.paras = p.paras
      /\ q.listed = listed /\ q.said = listed
  BY <1>6, <1>7 DEF Parsers, Rests
<1>9. Numbered(q) /\ Young(q)
  BY <1>8, RestsKeeps DEF Young
<1>10. InOrder(q)
  <2>1. \A i \in 1 .. Len(listed) : listed[i] = p.notes[i]
    <3> SUFFICES ASSUME NEW i \in 1 .. Len(listed)
                 PROVE  listed[i] = p.notes[i]
      OBVIOUS
    <3>1. CASE i = Len(p.listed) + 1
      BY <1>6, <3>1
    <3>2. CASE i # Len(p.listed) + 1
      <4>1. i \in 1 .. Len(p.listed)
        BY <1>1, <1>6, <3>2
      <4>2. QED
        BY <1>6, <4>1 DEF InOrder
    <3>3. QED
      BY <3>1, <3>2
  <2>2. Len(listed) <= Len(p.notes)
    BY <1>1, <1>3, <1>6
  <2>3. QED
    BY <1>8, <2>1, <2>2 DEF InOrder, Rests
<1>11. ASSUME Distinct
       PROVE  Known(q) /\ Settled(q) /\ Complete(q)
  <2>1. Known(p) /\ Settled(p) /\ Complete(p)
    BY <1>11
  <2>2. p.objs[o].block = TRUE \/ p.objs[o].block = FALSE
    BY <1>1, <1>4, ElementOfSeq DEF Notes
  <2>3. NoDef(blocks)
    BY <1>4, <2>1, <2>2, NothingHas DEF Settled, ConsistsOf
  <2>4. Settled(q)
    BY <1>8, <2>1, <2>3 DEF Settled, Rests
  <2>5. \A i \in 1 .. Len(q.doc) : q.doc[i].k = "def" => q.refs[q.doc[i].label] # 0
    BY <1>8, <2>1 DEF Complete, Rests
  <2>6. \A labels : Waits(p, labels) => Waits(q, labels)
    BY <1>8, AllMet DEF Waits
  <2>7. \A i \in 1 .. Len(q.doc) : q.doc[i].k \in {"para", "cell"} => Waits(q, Refs(q.doc[i].items))
    BY <1>8, <2>1, <2>6 DEF Complete, Rests
  <2>8. ASSUME NEW i \in 1 .. Len(q.listed), q.objs[q.listed[i]].block = FALSE
        PROVE  Waits(q, Refs(q.objs[q.listed[i]].body))
    <3>1. CASE i = Len(p.listed) + 1
      <4>1. q.listed[i] = o
        BY <1>6, <1>8, <3>1
      <4>2. q.objs[o].body = items
        BY <1>8, <2>8, <4>1 DEF Rests, ConsistsOf
      <4>3. Waits(q, Refs(items))
        BY <1>8 DEF Waits, Meets
      <4>4. QED
        BY <4>1, <4>2, <4>3
    <3>2. CASE i # Len(p.listed) + 1
      <4>1. i \in 1 .. Len(p.listed)
        BY <1>1, <1>6, <1>8, <3>2
      <4>2. q.listed[i] = p.listed[i] /\ q.objs = p.objs
        BY <1>6, <1>8, <4>1 DEF Rests
      <4>3. QED
        BY <2>1, <2>6, <2>8, <4>1, <4>2 DEF Complete
    <3>3. QED
      BY <3>1, <3>2
  <2>9. Complete(q)
    BY <1>8, <2>5, <2>7, <2>8 DEF Complete
  <2>10. QED
    BY <1>8, <2>1, <2>4, <2>9, RestsKeeps
<1>12. QED
  BY <1>8, <1>9, <1>10, <1>11 DEF Rests

LEMMA ListKeeps ==
  ASSUME NEW p, NotesInv(p), p.phase = "list", p.items = <<>>, p.blocks = <<>>
  PROVE  NotesInv(List(p))
<1>1. CASE Len(p.listed) = Len(p.notes)
  BY <1>1, ListEnds DEF List
<1>2. CASE Len(p.listed) # Len(p.notes)
  <2>1. PICK o : o = p.notes[Len(p.listed) + 1]
    OBVIOUS
  <2>2. o \in 1 .. Len(p.objs)
    <3>1. p.listed \in Seq(Nat) /\ p.notes \in Seq(Nat)
      BY DEF NotesInv, Parsers
    <3>2. Len(p.listed) \in Nat /\ Len(p.notes) \in Nat /\ Len(p.listed) <= Len(p.notes)
      BY <3>1 DEF NotesInv, InOrder
    <3>3. Len(p.listed) + 1 \in 1 .. Len(p.notes)
      BY <1>2, <3>2
    <3>4. QED
      BY <2>1, <3>3 DEF NotesInv, Numbered
  <2>3. p.objs[o] \in Notes
    BY <2>2, ElementOfSeq DEF NotesInv, Parsers
  <2>4. CASE p.objs[o].block = TRUE
    <3>1. PICK blocks \in Seq(Blocks) : blocks = p.objs[o].body
      BY <2>3, <2>4 DEF Notes
    <3>2. PICK items \in Seq(Items) : items = <<>>
      <4>1. <<>> \in Seq(Items)
        OBVIOUS
      <4>2. QED
        BY <4>1
    <3>3. List(p) = [p EXCEPT !.listed = Append(@, o), !.said = Append(@, o),
                              !.items = items, !.blocks = blocks]
      BY <1>2, <2>1, <2>4, <3>1, <3>2 DEF List, Enlisted, NotesInv, Parsers
    <3>4. ConsistsOf(p.objs[o], items, blocks)
      BY <2>4, <3>1 DEF ConsistsOf
    <3>5. QED
      BY <1>2, <2>1, <3>3, <3>4, NoteListed
  <2>5. CASE p.objs[o].block = FALSE
    <3>1. PICK items \in Seq(Items) : items = p.objs[o].body
      BY <2>3, <2>5 DEF Notes
    <3>2. List(p) = [p EXCEPT !.listed = Append(@, o), !.said = Append(@, o),
                              !.items = items, !.blocks = <<>>]
      BY <1>2, <2>1, <2>5, <3>1 DEF List, Enlisted, NotesInv, Parsers
    <3>3. <<>> \in Seq(Blocks)
      OBVIOUS
    <3>4. ConsistsOf(p.objs[o], items, <<>>)
      BY <2>5, <3>1 DEF ConsistsOf
    <3>5. QED
      BY <1>2, <2>1, <3>2, <3>3, <3>4, NoteListed
  <2>6. QED
    BY <2>3, <2>4, <2>5 DEF Notes
<1>3. QED
  BY <1>1, <1>2

LEMMA LateKeeps ==
  ASSUME NEW p, NotesInv(p), p.phase = "late", p.items = <<>>, p.blocks = <<>>
  PROVE  NotesInv(Late(p))
<1> USE DEF NotesInv
<1>1. PICK q : q = Late(p)
  OBVIOUS
<1>2. /\ Rests(p, q) /\ q.phase \in {"late", "done"} /\ q.blocks = <<>>
      /\ q.listed = p.listed /\ q.said = p.said
  <2>1. CASE p.paras = <<>>
    <3>1. q = [p EXCEPT !.phase = "done"]
      BY <1>1, <2>1 DEF Late
    <3>2. QED
      BY <3>1 DEF Parsers, Rests
  <2>2. CASE p.paras # <<>>
    <3>1. p.paras \in Seq(Texts)
      BY DEF Parsers
    <3>2. PICK b \in Texts, paras \in Seq(Texts) : b = Head(p.paras) /\ paras = Tail(p.paras)
      BY <2>2, <3>1, HeadTailProperties
    <3>3. PICK items \in Seq(Items) : items = IF b.k = "para" THEN b.items ELSE <<>>
      <4>1. b.items \in Seq(Items) /\ <<>> \in Seq(Items)
        BY NotesAssumption DEF Texts
      <4>2. QED
        BY <4>1
    <3>4. q = [p EXCEPT !.paras = paras, !.items = items]
      BY <1>1, <2>2, <3>2, <3>3 DEF Late
    <3>5. QED
      BY <3>4 DEF Parsers, Rests
  <2>3. QED
    BY <2>1, <2>2
<1>3. Numbered(q) /\ Young(q) /\ InOrder(q)
  BY <1>2, RestsKeeps DEF Young, InOrder, Rests
<1>4. ASSUME Distinct
      PROVE  Known(q) /\ Settled(q) /\ Complete(q)
  <2>1. Known(p) /\ Settled(p) /\ Complete(p)
    BY <1>4
  <2>2. Settled(q)
    BY <1>2, <2>1, NothingHas DEF Settled, Rests
  <2>3. \A labels : Waits(p, labels) => Waits(q, labels)
    BY <1>2, RestsKeeps DEF Waits, Listed, Rests
  <2>4. \A i \in 1 .. Len(q.doc) : q.doc[i].k = "def" => q.refs[q.doc[i].label] # 0
    BY <1>2, <2>1 DEF Complete, Rests
  <2>5. \A i \in 1 .. Len(q.doc) : q.doc[i].k \in {"para", "cell"} => Waits(q, Refs(q.doc[i].items))
    BY <1>2, <2>1, <2>3 DEF Complete, Rests
  <2>6. \A i \in 1 .. Len(q.listed) : q.objs[q.listed[i]].block = FALSE =>
          Waits(q, Refs(q.objs[q.listed[i]].body))
    BY <1>2, <2>1, <2>3 DEF Complete, Rests
  <2>7. Complete(q)
    BY <1>2, <2>4, <2>5, <2>6 DEF Complete
  <2>8. QED
    BY <1>2, <2>1, <2>2, <2>7, RestsKeeps
<1>5. QED
  BY <1>1, <1>2, <1>3, <1>4 DEF Rests

LEMMA ParseKeeps ==
  ASSUME NEW p, NotesInv(p), p.phase # "done"
  PROVE  NotesInv(ParseOn(p))
<1>1. CASE p.items # <<>>
  BY <1>1, ItemKeeps DEF ParseOn
<1>2. CASE p.items = <<>> /\ p.blocks # <<>>
  BY <1>2, BlockKeeps DEF ParseOn
<1>3. CASE p.items = <<>> /\ p.blocks = <<>>
  <2>1. p.phase \in {"block", "walk", "list", "late"}
    BY DEF NotesInv, Parsers
  <2>2. CASE p.phase = "block"
    BY <1>3, <2>2, WalkBegins DEF ParseOn
  <2>3. CASE p.phase = "walk"
    BY <1>3, <2>3, WalkedKeeps DEF ParseOn
  <2>4. CASE p.phase = "list"
    BY <1>3, <2>4, ListKeeps DEF ParseOn
  <2>5. CASE p.phase = "late"
    BY <1>3, <2>5, LateKeeps DEF ParseOn
  <2>6. QED
    BY <2>1, <2>2, <2>3, <2>4, <2>5
<1>4. QED
  BY <1>1, <1>2, <1>3

LEMMA NewParserKeeps ==
  ASSUME NEW doc \in Seq(Blocks)
  PROVE  NotesInv(NewParser(doc))
<1>1. PICK p : p = NewParser(doc)
  OBVIOUS
<1>2. /\ p \in Parsers /\ p.phase = "block" /\ p.doc = doc /\ p.blocks = doc /\ p.items = <<>>
      /\ p.objs = <<>> /\ p.refs = [l \in Labels |-> 0] /\ p.notes = <<>> /\ p.record = {}
      /\ p.listed = <<>> /\ p.made = <<>> /\ p.said = <<>>
  BY <1>1 DEF NewParser, Parsers
<1>3. Numbered(p) /\ Young(p) /\ InOrder(p) /\ Known(p)
  BY <1>2 DEF Numbered, Young, InOrder, Known
<1>4. Settled(p)
  BY <1>2 DEF Settled
<1>5. Complete(p)
  BY <1>2 DEF Complete, Has
<1>6. QED
  BY <1>1, <1>2, <1>3, <1>4, <1>5 DEF NotesInv

ParsersInv == parser \in [Pages -> {p \in Parsers : NotesInv(p)}]

LEMMA NotesInitHolds == NotesInit => ParsersInv
  BY NewParserKeeps DEF NotesInit, ParsersInv, NotesInv

LEMMA NotesNextKeeps == ParsersInv /\ [NotesNext]_parser => ParsersInv'
<1> SUFFICES ASSUME ParsersInv, NotesNext
             PROVE  ParsersInv'
  BY DEF ParsersInv
<1>1. PICK g \in Pages : parser[g].phase # "done" /\ parser' = [parser EXCEPT ![g] = ParseOn(parser[g])]
  BY DEF NotesNext, ParsersInv
<1>2. NotesInv(ParseOn(parser[g]))
  BY <1>1, ParseKeeps DEF ParsersInv
<1>3. QED
  BY <1>1, <1>2 DEF ParsersInv, NotesInv

LEMMA ParsersHold == NotesSpec => []ParsersInv
  BY NotesInitHolds, NotesNextKeeps, PTL DEF NotesSpec

\* Whatever documents the pages have, and whoever of their parsers takes its turn: the
\* number that a link shows is that of the note it leads to (inline.go:541-655).
THEOREM NumbersAreRight == NotesSpec => []NumbersAgree
<1>1. ASSUME ParsersInv, Distinct, NEW g \in Pages, NEW i \in DOMAIN parser[g].made
      PROVE  LET p == parser[g]
                 m == p.made[i]
             IN m.number \in DOMAIN p.notes /\ p.objs[p.notes[m.number]].link = m.to
  <2>1. PICK p \in Parsers : p = parser[g] /\ Known(p)
    BY <1>1 DEF ParsersInv, NotesInv
  <2>2. DOMAIN p.made = 1 .. Len(p.made) /\ DOMAIN p.notes = 1 .. Len(p.notes)
    <3>1. p.made \in Seq([to : LinkTargets, number : Nat]) /\ p.notes \in Seq(Nat)
      BY DEF Parsers
    <3>2. QED
      BY <3>1
  <2>3. QED
    BY <1>1, <2>1, <2>2 DEF Known
<1>2. ParsersInv => NumbersAgree
  BY <1>1 DEF NumbersAgree
<1>3. QED
  BY <1>2, ParsersHold, PTL

\* Nor is any note in the list twice, or missing from it when the text, or a note of one line
\* in the list, refers to it: though the list grows while it is written
\* (parser.go:349-392).
THEOREM NotesAreListed == NotesSpec => []NotesListed
<1>1. ASSUME ParsersInv, NEW g \in Pages, parser[g].phase \in {"late", "done"}
      PROVE  LET p == parser[g] IN
             /\ IsInjective(p.said)
             /\ Distinct =>
                  /\ \A i \in DOMAIN p.doc :
                       p.doc[i].k \in {"para", "cell"} => Listed(p, Refs(p.doc[i].items) \cap Defined(p))
                  /\ \A i \in DOMAIN p.listed :
                       ~p.objs[p.listed[i]].block => Listed(p, Refs(p.objs[p.listed[i]].body) \cap Defined(p))
  <2>1. PICK p \in Parsers : p = parser[g] /\ NotesInv(p)
    BY <1>1 DEF ParsersInv
  <2>2. /\ DOMAIN p.doc = 1 .. Len(p.doc) /\ DOMAIN p.listed = 1 .. Len(p.listed)
        /\ DOMAIN p.said = 1 .. Len(p.said)
        /\ Len(p.listed) \in Nat /\ Len(p.notes) \in Nat /\ p.objs \in Seq(Notes)
    <3>1. /\ p.doc \in Seq(Blocks) /\ p.listed \in Seq(Nat) /\ p.said \in Seq(Nat)
          /\ p.notes \in Seq(Nat) /\ p.objs \in Seq(Notes)
      BY DEF Parsers
    <3>2. QED
      BY <3>1
  <2>3. IsInjective(p.said)
    <3> SUFFICES ASSUME NEW i \in DOMAIN p.said, NEW j \in DOMAIN p.said, p.said[i] = p.said[j]
                 PROVE  i = j
      BY DEF IsInjective
    <3>1. i \in 1 .. Len(p.notes) /\ j \in 1 .. Len(p.notes) /\ p.notes[i] = p.notes[j]
      BY <2>1, <2>2 DEF NotesInv, InOrder
    <3>2. PICK o : o = p.notes[i]
      OBVIOUS
    <3>3. p.objs[o].number = i /\ p.objs[o].number = j
      BY <2>1, <3>1, <3>2 DEF NotesInv, Numbered
    <3>4. QED
      BY <3>3
  <2>4. ASSUME Distinct, NEW i \in DOMAIN p.doc, p.doc[i].k \in {"para", "cell"}
        PROVE  Listed(p, Refs(p.doc[i].items) \cap Defined(p))
    BY <1>1, <2>1, <2>2, <2>4 DEF NotesInv, Complete, Waits
  <2>5. ASSUME Distinct, NEW i \in DOMAIN p.listed, ~p.objs[p.listed[i]].block
        PROVE  Listed(p, Refs(p.objs[p.listed[i]].body) \cap Defined(p))
    <3>1. PICK o : o = p.listed[i]
      OBVIOUS
    <3>2. o \in 1 .. Len(p.objs)
      <4>1. i \in 1 .. Len(p.notes) /\ p.notes[i] = o
        BY <2>1, <2>2, <3>1 DEF NotesInv, InOrder
      <4>2. QED
        BY <2>1, <4>1 DEF NotesInv, Numbered
    <3>3. p.objs[o] \in Notes
      BY <2>2, <3>2, ElementOfSeq
    <3>4. p.objs[o].block = FALSE
      BY <2>5, <3>1, <3>3 DEF Notes
    <3>5. QED
      BY <1>1, <2>1, <2>2, <2>5, <3>1, <3>4 DEF NotesInv, Complete, Waits
  <2>6. QED
    BY <2>1, <2>3, <2>4, <2>5
<1>2. ParsersInv => NotesListed
  BY <1>1 DEF NotesListed
<1>3. QED
  BY <1>2, ParsersHold, PTL
=============================================================================
