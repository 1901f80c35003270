----------------------------- MODULE Regenerate -----------------------------
(***************************************************************************)
(* main.go and the OnReload of windows.go: the jobs that write the target  *)
(* folder.  A full job empties the folder, walks the markdown folder once  *)
(* for folders and style sheets and once for the files; an update job      *)
(* rewrites one markdown file.  Jobs run in goroutines of the debouncer's  *)
(* timers, so they may overlap; meanwhile the user edits the sources, and   *)
(* http.FileServer, in the same process, opens what it serves.             *)
(*                                                                         *)
(* A path has the same name on both sides, and a file's content is the     *)
(* version of its source, with the style sheets a page was generated with. *)
(***************************************************************************)
EXTENDS Naturals, Sequences, FiniteSets, SequencesExt

CONSTANTS Order,      \* the paths as filepath.Walk visits them, FullPath (Root) first
          Root,
          Parent,     \* Parent[e]: the folder of e, for e # Root
          Dirs,       \* the paths that are folders
          Md,         \* those that end in ".md"
          Css,        \* those that end in ".css"
          Initial,    \* the sources there are when the program starts
          Stale,      \* the outputs an earlier run has left
          Main,       \* the job of main()
          Jobs,       \* all jobs: Main and the calls of OnReload
          Fragile,    \* <<page, version>>: texts that GenerateHTMLFromMarkdown may panic on
          MaxEdits,   \* bound: edits of the sources in a behaviour
          MaxOpen,    \* bound: paths that are being served at once
          None, Folder, Empty, Torn   \* contents that are not a file's

Entries == ToSet(Order)
Before(e, f) == \E i, j \in DOMAIN Order : i < j /\ Order[i] = e /\ Order[j] = f

\* Every path is below the root.  A folder comes before what is in it, and nothing
\* from elsewhere comes in between.
BelowRoot == \A S \in SUBSET Entries :
  Root \in S /\ (\A e \in Entries \ {Root} : Parent[e] \in S => e \in S) => S = Entries
WalkOrder ==
  /\ \A e \in Entries : ~Before(e, e)
  /\ \A e, f \in Entries \ {Root} :
       /\ Before(Parent[e], e)
       /\ Before(Parent[e], f) /\ Before(f, e) => ~Before(Parent[f], Parent[e])

\* What is read and written of a file.
Links == Seq(Css)
Contents == [v : Nat, css : Links]

ASSUME RegenerateAssumption ==
  /\ Order \in Seq(Entries) /\ Root \in Dirs /\ Dirs \subseteq Entries
  /\ Parent \in [Entries \ {Root} -> Dirs] /\ BelowRoot /\ WalkOrder
  /\ Md \subseteq Entries \ Dirs /\ Css \subseteq Entries \ Dirs /\ Md \cap Css = {}
  /\ Root \in Initial /\ Root \in Stale /\ Initial \cup Stale \subseteq Entries
  /\ \A e \in Entries \ {Root} : /\ e \in Initial => Parent[e] \in Initial
                                 /\ e \in Stale => Parent[e] \in Stale
  /\ Main \in Jobs /\ MaxEdits \in Nat /\ MaxOpen \in Nat /\ Fragile \subseteq Md \X Nat
  /\ None \notin {Folder, Empty, Torn} \cup Contents

VARIABLES
  src,      \* src[e]: the version of a source, 0 when there is none
  out,      \* out[e]: what the target folder holds
  css,      \* CSSFileList
  job,      \* job[j]: how far the job is
  open,     \* the paths of the target folder that http.FileServer has open
  up,       \* neither log.Fatalf nor a panic has ended the process
  edits,    \* the edits so far
  \* History, for the properties only.
  solo,     \* solo[j]: no other job has run since j started
  touched   \* touched[j]: the sources edited since j started

vars == <<src, out, css, job, open, up, edits, solo, touched>>

\* The folders above a path, and the path itself.
Upward(S) == \A e \in S \ {Root} : Parent[e] \in S
Path == [e \in Entries |-> {d \in Entries : \A S \in SUBSET Entries : e \in S /\ Upward(S) => d \in S}]

\* readDirNames: what is in a folder.
Listing(d) == {e \in Entries \ {Root} : src[e] # 0 /\ Parent[e] = d}

Content(v, links) == [v |-> v, css |-> links]

Init == /\ src = [e \in Entries |-> IF e \in Initial THEN 1 ELSE 0]
        /\ out = [e \in Entries |-> IF e \notin Stale THEN None
                                    ELSE IF e \in Dirs THEN Folder ELSE Torn]
        /\ css = <<>>
        /\ job = [j \in Jobs |-> [pc |-> IF j = Main THEN "reset" ELSE "idle",
                                  full |-> TRUE, at |-> Root, todo |-> {},
                                  links |-> <<>>, data |-> None]]
        /\ open = {}
        /\ up = TRUE
        /\ edits = 0
        /\ solo = [j \in Jobs |-> TRUE]
        /\ touched = [j \in Jobs |-> {}]

-----------------------------------------------------------------------------
(* Steps of one job. *)

Active(j) == job[j].pc \notin {"idle", "done"}
At(j, pc) == up /\ job[j].pc = pc
Goto(j, pc) == job' = [job EXCEPT ![j].pc = pc]
History == UNCHANGED <<src, open, edits, solo, touched>>

\* An error: a full job ends the process, an update job is given up.
Fail(j) == /\ IF job[j].full THEN up' = FALSE /\ UNCHANGED job
                             ELSE Goto(j, "done") /\ UNCHANGED up
           /\ UNCHANGED <<out, css>>

Panic == up' = FALSE /\ UNCHANGED <<out, css, job>>

\* OnReload: every call is a goroutine of its own, once main has begun to serve.
Start(j) == /\ up /\ job[j].pc = "idle" /\ job[Main].pc = "done"
            /\ \/ job' = [job EXCEPT ![j].pc = "reset"]
               \/ \E e \in Md : job' = [job EXCEPT ![j] = [@ EXCEPT !.pc = "read", !.full = FALSE,
                                                                    !.at = e]]
            /\ solo' = [k \in Jobs |-> IF Active(k) THEN FALSE
                                       ELSE IF k = j THEN ~ \E i \in Jobs : Active(i)
                                       ELSE solo[k]]
            /\ UNCHANGED <<src, out, css, open, up, edits, touched>>

\* Mutant: the list of style sheets survives from the job before.
NoReset(j) == /\ At(j, "reset") /\ Goto(j, "sweep")
              /\ UNCHANGED <<out, css, up>> /\ History

\* CleanUpFolders
Reset(j) == /\ At(j, "reset")
            /\ css' = <<>>
            /\ Goto(j, "sweep")
            /\ UNCHANGED <<out, up>> /\ History

\* os.RemoveAll(TargetFolder): leaves first, in some order, until the root is
\* gone.  Windows refuses to remove what another job or the server has open.
Leaf(e) == out[e] # None /\ \A c \in Entries \ {Root} : Parent[c] = e => out[c] = None
BeingWritten(e) == \E k \in Jobs : job[k].pc = "fill" /\ job[k].at = e
Held(e) == e \in open \/ BeingWritten(e)

Sweep(j) == /\ At(j, "sweep")
            /\ \E e \in Entries \ {Root} : /\ Leaf(e) /\ ~Held(e)
                                           /\ out' = [out EXCEPT ![e] = None]
            /\ UNCHANGED <<css, job, up>> /\ History

SweepFails(j) == /\ At(j, "sweep")
                 /\ \E e \in Entries : Leaf(e) /\ Held(e)
                 /\ Fail(j) /\ History

SweepDone(j) == /\ At(j, "sweep")
                /\ (\A e \in Entries \ {Root} : out[e] = None) /\ Root \notin open
                /\ out' = [out EXCEPT ![Root] = None]
                /\ job' = [job EXCEPT ![j].pc = "walk1", ![j].todo = {Root}]
                /\ UNCHANGED <<css, up>> /\ History

\* filepath.Walk reads the names of a folder before it visits them, the first of
\* those left next; the callback then gets no FileInfo for one that is gone, and
\* uses it nevertheless.
Comes(j, e) == e \in job[j].todo /\ ~ \E f \in job[j].todo : Before(f, e)
Visit(j, pc, e) == At(j, pc) /\ Comes(j, e) /\ src[e] # 0
VisitGone(j) == /\ At(j, "walk1") \/ At(j, "walk2")
                /\ \E e \in job[j].todo : Comes(j, e) /\ src[e] = 0
                /\ Panic /\ History

\* Mutant: a folder is made only if the one above it is there.
MakeFolderBelowRoot(j) ==
  /\ \E e \in Dirs : /\ Visit(j, "walk1", e)
                     /\ out' = IF e = Root THEN [out EXCEPT ![e] = Folder] ELSE out
                     /\ job' = [job EXCEPT ![j].todo = (@ \ {e}) \cup Listing(e)]
  /\ UNCHANGED <<css, up>> /\ History

\* WalkAndCopyCSSFilesAndFolders: MkdirAll for a folder ...
MakeFolder(j) ==
  /\ \E e \in Dirs : /\ Visit(j, "walk1", e)
                     /\ out' = [d \in Entries |-> IF d \in Path[e] THEN Folder ELSE out[d]]
                     /\ job' = [job EXCEPT ![j].todo = (@ \ {e}) \cup Listing(e)]
  /\ UNCHANGED <<css, up>> /\ History

\* ... which fails when another job removes the folder above meanwhile ...
MakeFolderFails(j) ==
  /\ \E e \in Dirs : Visit(j, "walk1", e)
  /\ \E k \in Jobs \ {j} : job[k].pc = "sweep"
  /\ Fail(j) /\ History

\* ... while a style sheet in the top folder is appended to CSSFileList, which
\* is read first ...
LoadCss(j) ==
  /\ \E e \in Css : /\ Visit(j, "walk1", e) /\ Parent[e] = Root
                    /\ job' = [job EXCEPT ![j] = [@ EXCEPT !.pc = "store", !.at = e, !.links = css,
                                                           !.todo = job[j].todo \ {e}]]
  /\ UNCHANGED <<out, css, up>> /\ History

\* ... and then written, without a lock.
StoreCss(j) == /\ At(j, "store")
               /\ css' = Append(job[j].links, job[j].at)
               /\ Goto(j, "walk1")
               /\ UNCHANGED <<out, up>> /\ History

SkipFile(j) ==
  /\ \E e \in Entries \ Dirs : /\ Visit(j, "walk1", e) /\ ~(e \in Css /\ Parent[e] = Root)
                               /\ job' = [job EXCEPT ![j].todo = @ \ {e}]
  /\ UNCHANGED <<out, css, up>> /\ History

Walk1Done(j) == /\ At(j, "walk1") /\ job[j].todo = {}
                /\ job' = [job EXCEPT ![j].pc = "walk2", ![j].todo = {Root}]
                /\ UNCHANGED <<out, css, up>> /\ History

\* WalkAndCopyMarkdownFiles
EnterFolder(j) ==
  /\ \E e \in Dirs : /\ Visit(j, "walk2", e)
                     /\ job' = [job EXCEPT ![j].todo = (@ \ {e}) \cup Listing(e)]
  /\ UNCHANGED <<out, css, up>> /\ History

CopyOne(j) ==
  /\ \E e \in Entries \ Dirs : /\ Visit(j, "walk2", e)
                               /\ job' = [job EXCEPT ![j] = [@ EXCEPT !.pc = "read", !.at = e,
                                                                      !.todo = job[j].todo \ {e}]]
  /\ UNCHANGED <<out, css, up>> /\ History

Walk2Done(j) == /\ At(j, "walk2") /\ job[j].todo = {}
                /\ Goto(j, "done")
                /\ UNCHANGED <<out, css, up>> /\ History

-----------------------------------------------------------------------------
(* CopyFile and CopyAndTransformMarkdownFile, of either kind of job. *)

Read(j) == /\ At(j, "read")
           /\ IF src[job[j].at] = 0
                THEN Fail(j)
                ELSE /\ job' = [job EXCEPT ![j] = [@ EXCEPT !.data = Content(src[job[j].at], <<>>),
                                                         !.pc = IF job[j].at \in Md THEN "generate"
                                                                                     ELSE "open"]]
                     /\ UNCHANGED <<out, css, up>>
           /\ History

\* GenerateHTMLFromMarkdown puts in a link to every style sheet of the list.
Generate(j) == /\ At(j, "generate")
               /\ job' = [job EXCEPT ![j] = [@ EXCEPT !.data = Content(job[j].data.v, css), !.pc = "open"]]
               /\ UNCHANGED <<out, css, up>> /\ History

\* ... unless it panics: SpecialTrim cuts the last character of a code block that
\* may be empty, and a lexer looks up a state that its rules do not have.
GeneratePanics(j) == /\ At(j, "generate")
                     /\ <<job[j].at, job[j].data.v>> \in Fragile
                     /\ Panic /\ History

\* os.WriteFile creates or truncates the file ...
Open(j) == /\ At(j, "open")
           /\ IF out[Parent[job[j].at]] = None
                THEN Fail(j)
                ELSE /\ out' = [out EXCEPT ![job[j].at] = Empty]
                     /\ Goto(j, "fill") /\ UNCHANGED <<css, up>>
           /\ History

\* ... and writes it, over what another job may have put there meanwhile.
Fill(j) == /\ At(j, "fill")
           /\ \E c \in {job[j].data} \cup (IF out[job[j].at] = Empty THEN {} ELSE {Torn}) :
                out' = [out EXCEPT ![job[j].at] = c]
           /\ Goto(j, IF job[j].full THEN "walk2" ELSE "done")
           /\ UNCHANGED <<css, up>> /\ History

-----------------------------------------------------------------------------
(* http.FileServer: a request opens a file or a folder, from when main has   *)
(* begun to serve, and closes it when it has been sent.                      *)

Serving == UNCHANGED <<src, out, css, job, up, edits, solo, touched>>
Serve(e) == /\ up /\ job[Main].pc = "done" /\ out[e] # None
            /\ e \notin open /\ Cardinality(open) < MaxOpen
            /\ open' = open \cup {e} /\ Serving
Served(e) == up /\ e \in open /\ open' = open \ {e} /\ Serving

-----------------------------------------------------------------------------
(* The user edits the sources: a new version, a new file or folder, or a     *)
(* removal.                                                                  *)

Edited(e, v) == /\ edits < MaxEdits /\ up
                /\ edits' = edits + 1
                /\ src' = [src EXCEPT ![e] = v]
                /\ touched' = [j \in Jobs |-> IF Active(j) THEN touched[j] \cup {e}
                                                           ELSE touched[j]]
                /\ UNCHANGED <<out, css, job, open, up, solo>>

Write(e) == e \notin Dirs /\ src[Parent[e]] # 0 /\ Edited(e, edits + 2)
MakeDir(e) == e \in Dirs /\ src[e] = 0 /\ src[Parent[e]] # 0 /\ Edited(e, edits + 2)
Delete(e) == /\ src[e] # 0
             /\ \A c \in Entries \ {Root} : Parent[c] = e => src[c] = 0
             /\ Edited(e, 0)

CleanUp(j) == Reset(j) \/ Sweep(j) \/ SweepFails(j) \/ SweepDone(j)
WalkCss(j) == MakeFolder(j) \/ MakeFolderFails(j) \/ LoadCss(j) \/ StoreCss(j) \/ SkipFile(j) \/ Walk1Done(j)
WalkFiles(j) == EnterFolder(j) \/ CopyOne(j) \/ Walk2Done(j)
Copy(j) == Read(j) \/ Generate(j) \/ GeneratePanics(j) \/ Open(j) \/ Fill(j)
Run(j) == CleanUp(j) \/ WalkCss(j) \/ WalkFiles(j) \/ VisitGone(j) \/ Copy(j)

Next == \/ \E j \in Jobs : Start(j) \/ Run(j)
        \/ \E e \in Entries \ {Root} : Write(e) \/ MakeDir(e) \/ Delete(e)
        \/ \E e \in Entries : Serve(e) \/ Served(e)

\* Goroutines are scheduled; nothing forces the user to edit or to ask for a page.
Spec == Init /\ [][Next]_vars /\ \A j \in Jobs : WF_vars(Run(j))
-----------------------------------------------------------------------------
JobStates ==
  [pc : {"idle", "reset", "sweep", "walk1", "store", "walk2", "read", "generate", "open", "fill", "done"},
   full : BOOLEAN, at : Entries, todo : SUBSET Entries,
   links : Links, data : {None} \cup Contents]

\* Types; every output is in a folder that is there, and what is being written or
\* served is there too.
OutOK == /\ out \in [Entries -> {None, Folder, Empty, Torn} \cup Contents]
         /\ \A d \in Dirs : out[d] \in {None, Folder}
         /\ \A e \in Entries \ {Root} : out[e] # None => out[Parent[e]] # None
JobOK(j) ==
  /\ job[j].pc \in {"idle", "reset", "sweep"} => job[j].todo = {}
  /\ job[j].pc \in {"idle", "reset", "sweep", "walk1", "store", "walk2"} => job[j].full
  /\ job[j].pc \in {"read", "generate", "open", "fill"} => job[j].at \notin Dirs
  /\ job[j].pc \in {"generate", "open", "fill"} => job[j].data \in Contents
  /\ job[j].pc = "store" => job[j].at \in Css
  /\ job[j].pc = "fill" => out[job[j].at] # None
OpenOK == open \in SUBSET Entries /\ \A e \in open : out[e] # None
TypeOK ==
  /\ src \in [Entries -> Nat] /\ css \in Links /\ OutOK
  /\ job \in [Jobs -> JobStates] /\ \A j \in Jobs : JobOK(j)
  /\ OpenOK /\ up \in BOOLEAN /\ edits \in 0..MaxEdits
  /\ solo \in [Jobs -> BOOLEAN] /\ touched \in [Jobs -> SUBSET Entries]

TopCss == {e \in Css : src[e] # 0 /\ Parent[e] = Root}
Ascending(links) == \A i, k \in DOMAIN links : i < k => Before(links[i], links[k])
LinksTopCss(links) == ToSet(links) = TopCss /\ Ascending(links)

\* What job j, now at its end, has made of the target folder.  A source edited
\* while it ran is excused, and so are the links to an edited style sheet.
Excused(j, e) == Path[e] \cap touched[j] # {}
FileAsExpected(j, e) ==
  /\ out[e] \in Contents /\ out[e].v = src[e]
  /\ IF e \in Md THEN touched[j] \cap Css # {} \/ LinksTopCss(out[e].css)
                  ELSE out[e].css = <<>>
AsExpected(j, e) == IF src[e] = 0 THEN out[e] = None
                    ELSE IF e \in Dirs THEN out[e] = Folder
                    ELSE FileAsExpected(j, e)
Reproduced(j) ==
  IF job[j].full THEN \A e \in Entries : Excused(j, e) \/ AsExpected(j, e)
  ELSE LET e == job[j].at IN
       out[Parent[e]] = Folder /\ ~Excused(j, e) /\ src[e] # 0 =>
         out[e] \in Contents /\ out[e].v = src[e]

Ends(j) == Active(j) /\ ~Active(j)'

\* A job that no other job overlaps leaves the target folder as a fresh start
\* of the program would, but for what is edited under its hands: nothing stale
\* remains, nothing is missing, and a page links every style sheet once
\* (main.go:43-61, windows.go:24-33).
AloneReproduces == [][\A j \in Jobs : Ends(j) /\ solo[j] /\ up' => Reproduced(j)']_vars

\* What may end the process in job j: the path its walk comes to is gone, though
\* the folder listed it (main.go:75, 93); a file cannot be read, or there is no
\* folder to write it to (main.go:59), each by an edit of that path since j
\* started; the server has open what is to be removed (main.go:47); the text of
\* the page is one to panic on (main.go:257).
EditedAway(j) == \E e \in Entries : Comes(j, e) /\ src[e] = 0 /\ Excused(j, e)
NoFile(j) == job[j].full /\ Excused(j, job[j].at)
OpenInServer == \E e \in open : Leaf(e)
FragileText(j) == <<job[j].at, job[j].data.v>> \in Fragile
Cause(j) == \/ job[j].pc \in {"walk1", "walk2"} /\ EditedAway(j)
            \/ job[j].pc \in {"read", "open"} /\ NoFile(j)
            \/ job[j].pc = "sweep" /\ OpenInServer
            \/ job[j].pc = "generate" /\ FragileText(j)

\* A regeneration ends the process only for one of these causes, or beside
\* another one; a tree at rest that nobody asks for, with pages that can be
\* generated, survives every job that runs alone.  (Errors of the machine, as a
\* full disk, are not modelled.)
EndHasCause == ~up => \E j \in Jobs : Active(j) /\ (~solo[j] \/ Cause(j))
=============================================================================
