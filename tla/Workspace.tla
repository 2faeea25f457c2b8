----------------------------- MODULE Workspace -----------------------------
(***************************************************************************)
(* The VS Code workspace of one problem, file by file (workspace.py): a    *)
(* folder for each language, which refresh_workspace brings up to date     *)
(* when the public traces in its cases.json are not those of the open      *)
(* level, and write_workspace in any case.  Each file is replaced          *)
(* atomically, one after the other, under no lock; a command may die       *)
(* between two of them, and another command may write the same folder.     *)
(*                                                                         *)
(* The desk is here what the files spell of it.  How it moves is Practice. *)
(***************************************************************************)
EXTENDS Naturals

CONSTANTS
  Proc,       \* the commands that may be under way at the same time
  Lang,       \* the languages
  Tested,     \* those with generated tests: java and python3
  Top,        \* max_level of the problem
  Text,       \* bound: what the work file may hold
  LinkWorks,  \* whether symlink_to works: {TRUE}, {FALSE}, or now and then
  MaxFaults,  \* bound: how many commands die or meet an OSError
  NoFile, Linked, NoJob, NoDesk

ASSUME WorkspaceAssumption ==
  /\ Tested \subseteq Lang
  /\ Top \in Nat \ {0}
  /\ LinkWorks \subseteq BOOLEAN
  /\ MaxFaults \in Nat
  /\ NoFile \notin Text /\ Linked \notin Text /\ NoFile # Linked

VARIABLES
  desk,     \* language, open level and cleared mark in session.json
  work,     \* the work file of each language
  folder,   \* the workspace folder of each language
  job,      \* the call of refresh_workspace or write_workspace of a command
  faults,   \* how many commands died or met an OSError
  torn      \* history: some call stopped between two of its files

vars == <<desk, work, folder, job, faults, torn>>

-----------------------------------------------------------------------------
(* Types.  A file that spells a level is that level, or 0 if it is not     *)
(* there.                                                                  *)

Levels == 1..Top
Labels == {"none", "unlock", "submit", "replay"}
Steps  == {"copy", "look", "make", "cases", "spec", "copies", "tidy", "unlink", "link",
           "tests", "readme", "tasks", "file", "done"}

Desk == [lang : Lang, level : Levels, cleared : BOOLEAN]

Folder ==
  [made   : BOOLEAN,                         \* the directory is there
   cases  : 0..Top,                          \* public/cases.json
   spec   : 0..Top,                          \* spec.md and spec/current.md
   copies : SUBSET Levels,                   \* level<n>.md and spec/level<n>.md
   link   : Text \cup {NoFile, Linked},      \* the work file as tests import it
   tests  : 0..Top,                          \* the JUnit or pytest file
   readme : [level : 0..Top, label : Labels],
   tasks  : Labels,                          \* the submit task in tasks.json
   opens  : BOOLEAN]                         \* honepad.code-workspace

Job == [lang : Lang, level : Levels, cleared : BOOLEAN, at : Steps,
        unlocks : BOOLEAN,     \* a submit: the level is saved afterwards
        writes  : BOOLEAN,     \* write_workspace was called, or refresh came to it
        failed  : BOOLEAN,     \* it raised
        alone   : BOOLEAN,     \* history: no other command since it began
        edited  : BOOLEAN]     \* history: the user changed the work file since

ASSUME CallAssumption == NoJob \notin Job /\ NoDesk \notin Desk

WorkspaceTypeOK ==
  /\ desk \in Desk \cup {NoDesk}
  /\ work \in [Lang -> Text \cup {NoFile}]
  /\ folder \in [Lang -> Folder]
  /\ job \in [Proc -> Job \cup {NoJob}]
  /\ faults \in 0..MaxFaults
  /\ torn \in BOOLEAN

NoFolder ==
  [made |-> FALSE, cases |-> 0, spec |-> 0, copies |-> {}, link |-> NoFile, tests |-> 0,
   readme |-> [level |-> 0, label |-> "none"], tasks |-> "none", opens |-> FALSE]

Init ==
  /\ desk = NoDesk
  /\ work = [l \in Lang |-> NoFile]
  /\ folder = [l \in Lang |-> NoFolder]
  /\ job = [p \in Proc |-> NoJob]
  /\ faults = 0
  /\ torn = FALSE

-----------------------------------------------------------------------------
(* The commands, up to where they call refresh_workspace or                *)
(* write_workspace.  The desk is saved by then, except by a submit.        *)

Idle(p) == job[p] = NoJob
At(p, step) == ~Idle(p) /\ job[p].at = step

Call(p, d, step, unlocks) ==
  /\ Idle(p)
  /\ job' = [q \in Proc |->
       IF q = p THEN [lang |-> d.lang, level |-> d.level, cleared |-> d.cleared,
                      at |-> step, unlocks |-> unlocks, writes |-> step = "make",
                      failed |-> FALSE, alone |-> \A r \in Proc : Idle(r),
                      edited |-> FALSE]
       ELSE IF Idle(q) THEN NoJob ELSE [job[q] EXCEPT !.alone = FALSE]]

(* ensure_work_copy makes, merges or slices the file: there is one then. *)
Worked(l) == \E t \in Text : work' = [work EXCEPT ![l] = t]

(* ensure_session: a new language takes the mark away. *)
DeskIn(l) ==
  IF desk = NoDesk THEN [lang |-> l, level |-> 1, cleared |-> FALSE]
  ELSE [desk EXCEPT !.lang = l, !.cleared = @ /\ l = desk.lang]

(* start, console, and a switch in the console, call refresh_workspace;    *)
(* vscode calls write_workspace.                                           *)
Start(p, l) ==
  /\ Worked(l)
  /\ desk' = DeskIn(l)
  /\ Call(p, DeskIn(l), "copy", FALSE) \/ Call(p, DeskIn(l), "make", FALSE)
  /\ UNCHANGED <<folder, faults, torn>>

(* A run refreshes first. *)
Run(p) ==
  /\ desk # NoDesk
  /\ Call(p, desk, "copy", FALSE)
  /\ UNCHANGED <<desk, work, folder, faults, torn>>

(* Mistake: a submit at the last level goes on to the next. *)
SubmitPastTop(p) ==
  /\ desk # NoDesk
  /\ Worked(desk.lang)
  /\ Call(p, [desk EXCEPT !.level = @ + 1], "copy", TRUE)
  /\ UNCHANGED <<desk, folder, faults, torn>>

(* A submit that passed brings the workspace to the next level before it   *)
(* saves that level.                                                       *)
Submit(p) ==
  /\ desk # NoDesk
  /\ desk.level < Top
  /\ Worked(desk.lang)
  /\ Call(p, [desk EXCEPT !.level = @ + 1], "copy", TRUE)
  /\ UNCHANGED <<desk, folder, faults, torn>>

(* Those that call write_workspace only where there is a folder. *)
Rewrite(p, d) == Call(p, d, IF folder[d.lang].made THEN "make" ELSE "done", FALSE)

(* The first pass at the last level. *)
Finish(p) ==
  LET d == [desk EXCEPT !.cleared = TRUE] IN
  /\ desk # NoDesk
  /\ desk.level = Top /\ ~desk.cleared
  /\ desk' = d
  /\ Rewrite(p, d)
  /\ UNCHANGED <<work, folder, faults, torn>>

(* start --reset, in any language, and 3 in the console: all the levels, or *)
(* the open one.                                                           *)
Reset(p, l) ==
  LET d == [lang |-> l, level |-> 1, cleared |-> FALSE] IN
  /\ Worked(l)
  /\ \/ desk' = d /\ Rewrite(p, d)
     \/ desk # NoDesk /\ l = desk.lang /\ desk' = desk /\ Rewrite(p, desk)
  /\ UNCHANGED <<folder, faults, torn>>

Back(p) ==
  LET d == [desk EXCEPT !.level = @ - 1, !.cleared = FALSE] IN
  /\ desk # NoDesk
  /\ desk.level > 1
  /\ Worked(desk.lang)
  /\ desk' = d
  /\ Call(p, d, "copy", FALSE)
  /\ UNCHANGED <<folder, faults, torn>>

-----------------------------------------------------------------------------
(* refresh_workspace *)

Go(p, step) == job' = [job EXCEPT ![p].at = step]
Raise(p) == job' = [job EXCEPT ![p].at = "done", ![p].failed = TRUE]

(* Mistake: a plain copy is left as it is. *)
CopyNothing(p) ==
  /\ At(p, "copy")
  /\ IF folder[job[p].lang].made THEN Go(p, "look") ELSE Go(p, "done")
  /\ UNCHANGED <<desk, work, folder, faults, torn>>

(* No folder, nothing to refresh.  A plain copy of the work file is made   *)
(* again, whatever the traces are.                                         *)
CopyWork(p) ==
  LET l == job[p].lang IN
  /\ At(p, "copy")
  /\ \/ ~folder[l].made /\ Go(p, "done") /\ UNCHANGED folder
     \/ /\ folder[l].made
        /\ folder' = [folder EXCEPT ![l].link =
                        IF @ \in Text /\ work[l] # NoFile THEN work[l] ELSE @]
        /\ Go(p, "look")
  /\ UNCHANGED <<desk, work, faults, torn>>

(* Mistake: traces of a later level pass for those of this one. *)
LookForThisLevel(p) ==
  /\ At(p, "look")
  /\ IF folder[job[p].lang].cases >= job[p].level THEN Go(p, "done")
     ELSE job' = [job EXCEPT ![p].at = "make", ![p].writes = TRUE]
  /\ UNCHANGED <<desk, work, folder, faults, torn>>

(* cases.json alone decides whether the rest is written. *)
Look(p) ==
  /\ At(p, "look")
  /\ IF folder[job[p].lang].cases = job[p].level THEN Go(p, "done")
     ELSE job' = [job EXCEPT ![p].at = "make", ![p].writes = TRUE]
  /\ UNCHANGED <<desk, work, folder, faults, torn>>

-----------------------------------------------------------------------------
(* write_workspace *)

Label(k, cleared) ==
  CASE k < Top -> "unlock"
    [] k = Top /\ cleared -> "replay"
    [] k = Top /\ ~cleared -> "submit"

MakeFolder(p) ==
  LET l == job[p].lang IN
  /\ At(p, "make")
  /\ \/ l \in Tested /\ work[l] = NoFile /\ Raise(p) /\ UNCHANGED folder
     \/ /\ l \notin Tested \/ work[l] # NoFile
        /\ folder' = [folder EXCEPT ![l].made = TRUE]
        /\ Go(p, "cases")
  /\ UNCHANGED <<desk, work, faults, torn>>

(* _link_or_copy, after a second look for the work file: the old link goes  *)
(* first.                                                                  *)
Unlink(p) ==
  LET l == job[p].lang IN
  /\ At(p, "unlink")
  /\ \/ work[l] = NoFile /\ Raise(p) /\ torn' = TRUE /\ UNCHANGED folder
     \/ /\ work[l] # NoFile
        /\ folder' = [folder EXCEPT ![l].link = NoFile]
        /\ Go(p, "link")
        /\ UNCHANGED torn
  /\ UNCHANGED <<desk, work, faults>>

(* A link needs no file to point to, a copy needs one to read. *)
LinkWork(p) ==
  LET l == job[p].lang IN
  /\ At(p, "link")
  /\ \/ /\ TRUE \in LinkWorks
        /\ folder' = [folder EXCEPT ![l].link = Linked]
        /\ Go(p, "tests") /\ UNCHANGED torn
     \/ /\ FALSE \in LinkWorks /\ work[l] # NoFile
        /\ folder' = [folder EXCEPT ![l].link = work[l]]
        /\ Go(p, "tests") /\ UNCHANGED torn
     \/ /\ FALSE \in LinkWorks /\ work[l] = NoFile
        /\ Raise(p) /\ torn' = TRUE /\ UNCHANGED folder
  /\ UNCHANGED <<desk, work, faults>>

(* The other files in their order: what is written, and what comes after. *)
Files == {"cases", "spec", "copies", "tidy", "tests", "readme", "tasks", "file"}

(* Mistake: specs of later levels stay in the folder. *)
WrittenUntidy(f, j) ==
  CASE j.at = "cases"  -> [f EXCEPT !.cases = j.level]
    [] j.at = "spec"   -> [f EXCEPT !.spec = j.level]
    [] j.at = "copies" -> [f EXCEPT !.copies = @ \cup (1..j.level)]
    [] j.at = "tidy"   -> f
    [] j.at = "tests"  -> [f EXCEPT !.tests = j.level]
    [] j.at = "readme" ->
         [f EXCEPT !.readme = [level |-> j.level, label |-> Label(j.level, j.cleared)]]
    [] j.at = "tasks"  -> [f EXCEPT !.tasks = Label(j.level, j.cleared)]
    [] j.at = "file"   -> [f EXCEPT !.opens = TRUE]

Written(f, j) ==
  CASE j.at = "cases"  -> [f EXCEPT !.cases = j.level]
    [] j.at = "spec"   -> [f EXCEPT !.spec = j.level]
    [] j.at = "copies" -> [f EXCEPT !.copies = @ \cup (1..j.level)]
    [] j.at = "tidy"   -> [f EXCEPT !.copies = @ \cap (1..j.level)]
    [] j.at = "tests"  -> [f EXCEPT !.tests = j.level]
    [] j.at = "readme" ->
         [f EXCEPT !.readme = [level |-> j.level, label |-> Label(j.level, j.cleared)]]
    [] j.at = "tasks"  -> [f EXCEPT !.tasks = Label(j.level, j.cleared)]
    [] j.at = "file"   -> [f EXCEPT !.opens = TRUE]

After(j) ==
  CASE j.at = "cases"  -> "spec"
    [] j.at = "spec"   -> "copies"
    [] j.at = "copies" -> "tidy"
    [] j.at = "tidy"   -> IF j.lang \in Tested THEN "unlink" ELSE "readme"
    [] j.at = "tests"  -> "readme"
    [] j.at = "readme" -> "tasks"
    [] j.at = "tasks"  -> "file"
    [] j.at = "file"   -> "done"

WriteFile(p) ==
  /\ ~Idle(p) /\ job[p].at \in Files
  /\ folder' = [folder EXCEPT ![job[p].lang] = Written(@, job[p])]
  /\ Go(p, After(job[p]))
  /\ UNCHANGED <<desk, work, faults, torn>>

(* The call is over.  A submit goes on and saves its level, also when the   *)
(* workspace could not be written.                                         *)
Return(p) ==
  LET j == job[p] IN
  /\ At(p, "done")
  /\ desk' = IF j.unlocks THEN [lang |-> j.lang, level |-> j.level, cleared |-> FALSE]
             ELSE desk
  /\ job' = [job EXCEPT ![p] = NoJob]
  /\ UNCHANGED <<work, folder, faults, torn>>

-----------------------------------------------------------------------------
(* What happens around the commands *)

(* Killed, or interrupted. *)
Kill(p) ==
  /\ ~Idle(p)
  /\ faults < MaxFaults
  /\ faults' = faults + 1
  /\ torn' = TRUE
  /\ job' = [job EXCEPT ![p] = NoJob]
  /\ UNCHANGED <<desk, work, folder>>

(* No space, no permission: the rest is not written. *)
IOError(p) ==
  /\ ~Idle(p) /\ job[p].at # "done"
  /\ faults < MaxFaults
  /\ faults' = faults + 1
  /\ torn' = TRUE
  /\ Raise(p)
  /\ UNCHANGED <<desk, work, folder>>

(* The user saves or deletes the work file. *)
Edit(l, t) ==
  /\ desk # NoDesk /\ work[l] # t
  /\ work' = [work EXCEPT ![l] = t]
  /\ job' = [p \in Proc |-> IF Idle(p) THEN NoJob ELSE [job[p] EXCEPT !.edited = TRUE]]
  /\ UNCHANGED <<desk, folder, faults, torn>>

-----------------------------------------------------------------------------

Command(p) ==
  \/ \E l \in Lang : Start(p, l) \/ Reset(p, l)
  \/ Run(p) \/ Submit(p) \/ Finish(p) \/ Back(p)
  \/ CopyWork(p) \/ Look(p) \/ MakeFolder(p) \/ Unlink(p) \/ LinkWork(p)
  \/ WriteFile(p) \/ Return(p)
  \/ Kill(p) \/ IOError(p)

Next ==
  \/ \E p \in Proc : Command(p)
  \/ \E l \in Lang, t \in Text \cup {NoFile} : Edit(l, t)

Spec == Init /\ [][Next]_vars

-----------------------------------------------------------------------------
(* Properties *)

(* Every file of the folder is that of level k, and no other level's spec  *)
(* lies about.                                                             *)
AllAt(l, f, k) ==
  /\ f.cases = k /\ f.spec = k /\ f.copies = 1..k /\ f.readme.level = k /\ f.opens
  /\ l \in Tested => f.tests = k

LabelsAre(f, label) == f.readme.label = label /\ f.tasks = label

Returns(p) == At(p, "done") /\ ~job[p].failed /\ Idle(p)' /\ faults' = faults

(* Whatever killed commands, errors and other writers left in the folder,  *)
(* a write that runs alone to its end leaves every file at the level that  *)
(* it writes, and the specs of no other: `vscode` repairs, as the note     *)
(* printed after an error says (term.py:447).                              *)
WriteRepairs ==
  [][\A p \in Proc :
       Returns(p) /\ job[p].writes /\ job[p].alone
         => LET f == folder'[job[p].lang] IN
            /\ AllAt(job[p].lang, f, job[p].level)
            /\ LabelsAre(f, Label(job[p].level, job[p].cleared))]_vars

(* As long as no call stopped half-way, a call that returns leaves the      *)
(* folder, if there is one, at the level that the desk has then, though    *)
(* refresh_workspace looks at cases.json only, and asks to unlock a level   *)
(* if and only if there is one.                                            *)
ReturnsAtTheOpenLevel ==
  [][\A p \in Proc :
       Returns(p) /\ ~torn /\ folder[job[p].lang].made /\ ~job[p].edited
         => LET f == folder'[job[p].lang] IN
            /\ AllAt(job[p].lang, f, desk'.level)
            /\ desk'.level < Top <=> LabelsAre(f, "unlock")]_vars

(* Where symlinks fail, a call that returns leaves a plain copy that is    *)
(* the work file (test_console.py:2238), unless it was edited meanwhile.   *)
PlainCopyIsCurrent ==
  [][\A p \in Proc :
       LET l == job[p].lang IN
       Returns(p) /\ job[p].alone /\ ~job[p].edited
         /\ work[l] # NoFile /\ folder'[l].link \in Text
         => folder'[l].link = work[l]]_vars

(* A run or a start brings a workspace that is out of date up to date      *)
(* (test_console.py:2272).  It does not when a command died after          *)
(* cases.json was written.                                                 *)
RefreshRepairs ==
  [][\A p \in Proc :
       Returns(p) /\ job[p].alone /\ folder[job[p].lang].made /\ ~job[p].edited
         => AllAt(job[p].lang, folder'[job[p].lang], job[p].level)]_vars
=============================================================================
