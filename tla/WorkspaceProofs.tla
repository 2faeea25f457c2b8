-------------------------- MODULE WorkspaceProofs --------------------------
(***************************************************************************)
(* Workspace for every number of commands, languages, levels and faults:   *)
(* types, and that a write which runs alone to its end repairs the folder. *)
(***************************************************************************)
EXTENDS Workspace, TLAPS

-----------------------------------------------------------------------------
(* What the helpers return *)

LEMMA LevelsAreNumbers ==
  /\ Top \in Nat /\ 1 \in Levels /\ Top \in Levels
  /\ \A k \in Levels : k \in 0..Top /\ k \in Nat /\ 1 <= k /\ k <= Top
BY WorkspaceAssumption DEF Levels

LEMMA LabelTypes ==
  ASSUME NEW k \in Levels, NEW cleared \in BOOLEAN
  PROVE  Label(k, cleared) \in Labels
BY LevelsAreNumbers DEF Label, Labels

LEMMA DeskInTypes ==
  ASSUME desk \in Desk \cup {NoDesk}, NEW l \in Lang
  PROVE  DeskIn(l) \in Desk
BY LevelsAreNumbers DEF DeskIn, Desk

(* The changes that steps make to a call keep it a call. *)
LEMMA JobChanges ==
  ASSUME NEW j \in Job, NEW step \in Steps
  PROVE  /\ [j EXCEPT !.at = step] \in Job
         /\ [j EXCEPT !.at = step, !.writes = TRUE] \in Job
         /\ [j EXCEPT !.at = step, !.failed = TRUE] \in Job
         /\ [j EXCEPT !.alone = FALSE] \in Job
         /\ [j EXCEPT !.edited = TRUE] \in Job
BY DEF Job

(* A written file is one of the folder's files. *)
LEMMA WrittenTypes ==
  ASSUME NEW f \in Folder, NEW j \in Job, j.at \in Files
  PROVE  Written(f, j) \in Folder /\ After(j) \in Steps
<1>1. j.level \in Levels /\ j.level \in 0..Top /\ 1..j.level \subseteq Levels
  BY LevelsAreNumbers DEF Job, Levels
<1>2. Label(j.level, j.cleared) \in Labels
  BY <1>1, LabelTypes DEF Job
<1>3. After(j) \in Steps
  BY DEF After, Files, Steps
<1>4. Written(f, j) \in Folder
  <2>1. CASE j.at \in {"cases", "spec", "tests"}
    BY <1>1, <2>1 DEF Written, Folder
  <2>2. CASE j.at \in {"copies", "tidy"}
    BY <1>1, <2>2 DEF Written, Folder
  <2>3. CASE j.at \in {"readme", "tasks", "file"}
    BY <1>1, <1>2, <2>3 DEF Written, Folder
  <2>. QED BY <2>1, <2>2, <2>3 DEF Files
<1>. QED BY <1>3, <1>4

(* A command that begins takes a call; the others stay what they are.      *)
LEMMA CallTypes ==
  ASSUME WorkspaceTypeOK, NEW p \in Proc, NEW d \in Desk, NEW step \in Steps,
         NEW unlocks \in BOOLEAN, Call(p, d, step, unlocks)
  PROVE  job' \in [Proc -> Job \cup {NoJob}]
<1> DEFINE taken ==
  [lang |-> d.lang, level |-> d.level, cleared |-> d.cleared,
   at |-> step, unlocks |-> unlocks, writes |-> step = "make",
   failed |-> FALSE, alone |-> \A r \in Proc : Idle(r), edited |-> FALSE]
<1>1. (step = "make") \in BOOLEAN /\ (\A r \in Proc : Idle(r)) \in BOOLEAN
  OBVIOUS
<1>2. taken \in Job
  BY <1>1 DEF Job, Desk
<1>3. \A q \in Proc : ~Idle(q) => [job[q] EXCEPT !.alone = FALSE] \in Job
  BY JobChanges DEF WorkspaceTypeOK, Idle, Steps
<1>4. job' = [q \in Proc |->
               IF q = p THEN taken
               ELSE IF Idle(q) THEN NoJob ELSE [job[q] EXCEPT !.alone = FALSE]]
  BY DEF Call
<1> HIDE DEF taken
<1>. QED BY <1>2, <1>3, <1>4

(* A step of a call that is under way. *)
LEMMA GoTypes ==
  ASSUME WorkspaceTypeOK, NEW p \in Proc, ~Idle(p), NEW step \in Steps
  PROVE  /\ job[p] \in Job
         /\ Go(p, step) => job' \in [Proc -> Job \cup {NoJob}]
         /\ Raise(p) => job' \in [Proc -> Job \cup {NoJob}]
<1>1. job[p] \in Job
  BY DEF WorkspaceTypeOK, Idle
<1>2. "done" \in Steps
  BY DEF Steps
<1>. QED BY <1>1, <1>2, JobChanges DEF WorkspaceTypeOK, Go, Raise

-----------------------------------------------------------------------------
(* Types *)

LEMMA TypesInit == Init => WorkspaceTypeOK
<1>1. NoFolder \in Folder
  BY LevelsAreNumbers DEF NoFolder, Folder, Labels
<1>2. ASSUME Init
      PROVE  /\ work \in [Lang -> Text \cup {NoFile}] /\ folder \in [Lang -> Folder]
             /\ job \in [Proc -> Job \cup {NoJob}]
  <2> HIDE DEF NoFolder
  <2>. QED BY <1>1, <1>2 DEF Init
<1>3. Init => desk \in Desk \cup {NoDesk} /\ faults \in 0..MaxFaults
  BY WorkspaceAssumption DEF Init
<1>4. Init => torn \in BOOLEAN
  BY DEF Init
<1>. QED BY <1>2, <1>3, <1>4 DEF WorkspaceTypeOK

(* The commands that begin: desk, work file and call. *)
Begins(p) ==
  \/ \E l \in Lang : Start(p, l) \/ Reset(p, l)
  \/ Run(p) \/ Submit(p) \/ Finish(p) \/ Back(p)

LEMMA TypesBegin ==
  ASSUME WorkspaceTypeOK, NEW p \in Proc, Begins(p)
  PROVE  /\ WorkspaceTypeOK'
         /\ \E d \in Desk, step \in {"copy", "make", "done"}, unlocks \in BOOLEAN :
              Call(p, d, step, unlocks)
         /\ UNCHANGED folder
<1>. USE LevelsAreNumbers
<1>1. \A l \in Lang : Worked(l) => work' \in [Lang -> Text \cup {NoFile}]
  BY DEF Worked, WorkspaceTypeOK
<1>2. ASSUME NEW d \in Desk, Rewrite(p, d)
      PROVE  \E step \in {"make", "done"} : Call(p, d, step, FALSE)
  BY <1>2 DEF Rewrite
<1>3. ASSUME desk # NoDesk PROVE desk \in Desk
  BY <1>3 DEF WorkspaceTypeOK
<1>4. /\ desk' \in Desk \cup {NoDesk} /\ work' \in [Lang -> Text \cup {NoFile}]
      /\ UNCHANGED <<folder, faults, torn>>
      /\ \E d \in Desk, step \in {"copy", "make", "done"}, unlocks \in BOOLEAN :
           Call(p, d, step, unlocks)
  <2>1. CASE \E l \in Lang : Start(p, l)
    <3>1. PICK l \in Lang : Start(p, l)
      BY <2>1
    <3>2. DeskIn(l) \in Desk
      BY DeskInTypes DEF WorkspaceTypeOK
    <3>. QED BY <1>1, <3>1, <3>2 DEF Start
  <2>2. CASE \E l \in Lang : Reset(p, l)
    <3>1. PICK l \in Lang : Reset(p, l)
      BY <2>2
    <3> DEFINE d == [lang |-> l, level |-> 1, cleared |-> FALSE]
    <3>2. d \in Desk
      BY DEF Desk
    <3>3. CASE desk' = d /\ Rewrite(p, d)
      BY <1>1, <1>2, <3>1, <3>2, <3>3 DEF Reset
    <3>4. CASE desk # NoDesk /\ desk' = desk /\ Rewrite(p, desk)
      BY <1>1, <1>2, <1>3, <3>1, <3>4 DEF Reset
    <3>. QED BY <3>1, <3>3, <3>4 DEF Reset
  <2>3. CASE Run(p)
    BY <1>3, <2>3 DEF Run, WorkspaceTypeOK
  <2>4. CASE Submit(p)
    <3>1. desk \in Desk /\ desk.level < Top
      BY <1>3, <2>4 DEF Submit
    <3>2. [desk EXCEPT !.level = @ + 1] \in Desk
      BY <3>1 DEF Desk, Levels
    <3>. QED BY <1>1, <2>4, <3>1, <3>2 DEF Submit, Desk
  <2>5. CASE Finish(p)
    <3>1. [desk EXCEPT !.cleared = TRUE] \in Desk
      BY <1>3, <2>5 DEF Finish, Desk
    <3>. QED BY <1>2, <2>5, <3>1 DEF Finish, WorkspaceTypeOK
  <2>6. CASE Back(p)
    <3>1. desk \in Desk /\ desk.level > 1
      BY <1>3, <2>6 DEF Back
    <3>2. desk.level - 1 \in Levels
      BY <3>1 DEF Desk, Levels
    <3>3. [desk EXCEPT !.level = @ - 1, !.cleared = FALSE] \in Desk
      BY <3>1, <3>2 DEF Desk
    <3>. QED BY <1>1, <2>6, <3>1, <3>3 DEF Back, Desk
  <2>. QED BY <2>1, <2>2, <2>3, <2>4, <2>5, <2>6 DEF Begins
<1>5. job' \in [Proc -> Job \cup {NoJob}]
  BY <1>4, CallTypes DEF Steps
<1>. QED BY <1>4, <1>5 DEF WorkspaceTypeOK

(* The steps of a call that is under way. *)
Continues(p) ==
  \/ CopyWork(p) \/ Look(p) \/ MakeFolder(p) \/ Unlink(p) \/ LinkWork(p)
  \/ WriteFile(p) \/ Return(p) \/ Kill(p) \/ IOError(p)

LEMMA TypesContinue ==
  ASSUME WorkspaceTypeOK, NEW p \in Proc, Continues(p)
  PROVE  WorkspaceTypeOK' /\ ~Idle(p)
<1>1. ~Idle(p)
  BY DEF Continues, CopyWork, Look, MakeFolder, Unlink, LinkWork, WriteFile, Return, Kill,
         IOError, At
<1>2. job[p] \in Job /\ job[p].lang \in Lang /\ job[p].at \in Steps
  BY <1>1, GoTypes DEF Job, Steps
<1>3. folder[job[p].lang] \in Folder /\ work[job[p].lang] \in Text \cup {NoFile}
  BY <1>2 DEF WorkspaceTypeOK
<1>4. ASSUME NEW step \in Steps, Go(p, step)
      PROVE  job' \in [Proc -> Job \cup {NoJob}]
  BY <1>1, <1>4, GoTypes
<1>5. ASSUME Raise(p)
      PROVE  job' \in [Proc -> Job \cup {NoJob}]
  BY <1>1, <1>5, GoTypes DEF Steps
<1>6. ASSUME NEW f \in Folder, folder' = [folder EXCEPT ![job[p].lang] = f]
      PROVE  folder' \in [Lang -> Folder]
  BY <1>2, <1>6 DEF WorkspaceTypeOK
<1>. USE DEF Steps
<1>7. CASE CopyWork(p)
  <2> DEFINE f == [folder[job[p].lang] EXCEPT !.link =
                     IF @ \in Text /\ work[job[p].lang] # NoFile THEN work[job[p].lang] ELSE @]
  <2>1. f \in Folder
    BY <1>3 DEF Folder
  <2>2. folder' \in [Lang -> Folder]
    <3>1. CASE UNCHANGED folder
      BY <3>1 DEF WorkspaceTypeOK
    <3>2. CASE folder' = [folder EXCEPT ![job[p].lang] = f]
      BY <1>6, <2>1, <3>2
    <3>. QED BY <1>7, <3>1, <3>2 DEF CopyWork
  <2>3. job' \in [Proc -> Job \cup {NoJob}]
    BY <1>4, <1>7 DEF CopyWork
  <2>. QED BY <1>1, <1>7, <2>2, <2>3 DEF CopyWork, WorkspaceTypeOK
<1>8. CASE Look(p)
  <2>1. job' \in [Proc -> Job \cup {NoJob}]
    <3>1. CASE Go(p, "done")
      BY <1>4, <3>1
    <3>2. CASE job' = [job EXCEPT ![p].at = "make", ![p].writes = TRUE]
      <4>1. [job[p] EXCEPT !.at = "make", !.writes = TRUE] \in Job
        BY <1>2, JobChanges
      <4>. QED BY <3>2, <4>1 DEF WorkspaceTypeOK
    <3>. QED BY <1>8, <3>1, <3>2 DEF Look
  <2>. QED BY <1>1, <1>8, <2>1 DEF Look, WorkspaceTypeOK
<1>9. CASE MakeFolder(p)
  <2>1. [folder[job[p].lang] EXCEPT !.made = TRUE] \in Folder
    BY <1>3 DEF Folder
  <2>2. folder' \in [Lang -> Folder]
    BY <1>6, <1>9, <2>1 DEF MakeFolder, WorkspaceTypeOK
  <2>3. job' \in [Proc -> Job \cup {NoJob}]
    BY <1>4, <1>5, <1>9 DEF MakeFolder
  <2>. QED BY <1>1, <1>9, <2>2, <2>3 DEF MakeFolder, WorkspaceTypeOK
<1>10. CASE Unlink(p)
  <2>1. [folder[job[p].lang] EXCEPT !.link = NoFile] \in Folder
    BY <1>3 DEF Folder
  <2>2. folder' \in [Lang -> Folder]
    BY <1>6, <1>10, <2>1 DEF Unlink, WorkspaceTypeOK
  <2>3. job' \in [Proc -> Job \cup {NoJob}]
    BY <1>4, <1>5, <1>10 DEF Unlink
  <2>4. torn' \in BOOLEAN
    BY <1>10 DEF Unlink, WorkspaceTypeOK
  <2>. QED BY <1>1, <1>10, <2>2, <2>3, <2>4 DEF Unlink, WorkspaceTypeOK
<1>11. CASE LinkWork(p)
  <2>1. /\ [folder[job[p].lang] EXCEPT !.link = Linked] \in Folder
        /\ work[job[p].lang] # NoFile
             => [folder[job[p].lang] EXCEPT !.link = work[job[p].lang]] \in Folder
    BY <1>3 DEF Folder
  <2>2. folder' \in [Lang -> Folder]
    BY <1>6, <1>11, <2>1 DEF LinkWork, WorkspaceTypeOK
  <2>3. job' \in [Proc -> Job \cup {NoJob}]
    BY <1>4, <1>5, <1>11 DEF LinkWork
  <2>4. torn' \in BOOLEAN
    BY <1>11 DEF LinkWork, WorkspaceTypeOK
  <2>. QED BY <1>1, <1>11, <2>2, <2>3, <2>4 DEF LinkWork, WorkspaceTypeOK
<1>12. CASE WriteFile(p)
  <2>1. Written(folder[job[p].lang], job[p]) \in Folder /\ After(job[p]) \in Steps
    BY <1>2, <1>3, <1>12, WrittenTypes DEF WriteFile
  <2>2. folder' \in [Lang -> Folder]
    BY <1>6, <1>12, <2>1 DEF WriteFile
  <2>3. job' \in [Proc -> Job \cup {NoJob}]
    BY <1>4, <1>12, <2>1 DEF WriteFile
  <2>. QED BY <1>1, <1>12, <2>2, <2>3 DEF WriteFile, WorkspaceTypeOK
<1>13. CASE Return(p)
  <2>1. desk' \in Desk \cup {NoDesk}
    BY <1>2, <1>13 DEF Return, WorkspaceTypeOK, Desk, Job
  <2>. QED BY <1>1, <1>13, <2>1 DEF Return, WorkspaceTypeOK
<1>14. faults < MaxFaults => faults + 1 \in 0..MaxFaults
  BY WorkspaceAssumption DEF WorkspaceTypeOK
<1>15. CASE Kill(p)
  <2>1. torn' \in BOOLEAN
    BY <1>15 DEF Kill
  <2>. QED BY <1>1, <1>14, <1>15, <2>1 DEF Kill, WorkspaceTypeOK
<1>16. CASE IOError(p)
  <2>1. torn' \in BOOLEAN
    BY <1>16 DEF IOError
  <2>2. job' \in [Proc -> Job \cup {NoJob}]
    BY <1>5, <1>16 DEF IOError
  <2>. QED BY <1>1, <1>14, <1>16, <2>1, <2>2 DEF IOError, WorkspaceTypeOK
<1>. QED
  BY <1>7, <1>8, <1>9, <1>10, <1>11, <1>12, <1>13, <1>15, <1>16 DEF Continues

LEMMA TypesEdit ==
  ASSUME WorkspaceTypeOK, NEW l \in Lang, NEW t \in Text \cup {NoFile}, Edit(l, t)
  PROVE  WorkspaceTypeOK'
<1>1. \A p \in Proc : ~Idle(p) => [job[p] EXCEPT !.edited = TRUE] \in Job
  BY JobChanges DEF WorkspaceTypeOK, Idle, Steps
<1>2. job' \in [Proc -> Job \cup {NoJob}]
  BY <1>1 DEF Edit
<1>. QED BY <1>2 DEF Edit, WorkspaceTypeOK

(* Every step is one of these. *)
LEMMA OneStep ==
  ASSUME Next
  PROVE  \/ \E p \in Proc : Begins(p) \/ Continues(p)
         \/ \E l \in Lang, t \in Text \cup {NoFile} : Edit(l, t)
BY DEF Next, Command, Begins, Continues

(* Desk, work file, folders and calls stay well formed (workspace.py). *)
THEOREM WorkspaceTypes == Spec => []WorkspaceTypeOK
<1>1. WorkspaceTypeOK /\ [Next]_vars => WorkspaceTypeOK'
  <2>1. CASE Next
    BY <2>1, OneStep, TypesBegin, TypesContinue, TypesEdit
  <2>2. CASE UNCHANGED vars
    BY <2>2 DEF vars, WorkspaceTypeOK
  <2>. QED BY <2>1, <2>2
<1>. QED BY <1>1, TypesInit, PTL DEF Spec

-----------------------------------------------------------------------------
(* A write that runs alone has left at the level it writes every file that *)
(* it has come past.                                                       *)

PastTasks  == {"file", "done"}
PastReadme == PastTasks \cup {"tasks"}
PastTests  == PastReadme \cup {"readme"}
PastTidy   == PastTests \cup {"unlink", "link", "tests"}
PastCopies == PastTidy \cup {"tidy"}
PastSpec   == PastCopies \cup {"copies"}
PastCases  == PastSpec \cup {"spec"}

SoFar(j, f) ==
  /\ j.at \in PastCases => f.cases = j.level
  /\ j.at \in PastSpec => f.spec = j.level
  /\ j.at \in PastCopies => 1..j.level \subseteq f.copies
  /\ j.at \in PastTidy => f.copies \subseteq 1..j.level
  /\ j.at \in PastTests /\ j.lang \in Tested => f.tests = j.level
  /\ j.at \in PastReadme =>
       f.readme = [level |-> j.level, label |-> Label(j.level, j.cleared)]
  /\ j.at \in PastTasks => f.tasks = Label(j.level, j.cleared)
  /\ j.at = "done" => f.opens

Repairs(j, f) ==
  j.alone /\ j.writes /\ ~j.failed => j.at \notin {"copy", "look"} /\ SoFar(j, f)

AloneMeansAlone ==
  \A p, q \in Proc : ~Idle(p) /\ ~Idle(q) /\ job[p].alone => p = q

RepairInv ==
  /\ WorkspaceTypeOK
  /\ AloneMeansAlone
  /\ \A p \in Proc : ~Idle(p) => Repairs(job[p], folder[job[p].lang])

(* One file written is one more that the write has come past. *)
LEMMA WriteAdvances ==
  ASSUME NEW f \in Folder, NEW j \in Job, j.at \in Files, SoFar(j, f)
  PROVE  SoFar([j EXCEPT !.at = After(j)], Written(f, j))
<1>. USE DEF SoFar, PastTasks, PastReadme, PastTests, PastTidy, PastCopies, PastSpec, PastCases
<1>1. CASE j.at \in {"cases", "spec"}
  BY <1>1 DEF Written, After, Folder, Job
<1>2. CASE j.at = "copies"
  BY <1>2 DEF Written, After, Folder, Job
<1>3. CASE j.at = "tidy"
  BY <1>3 DEF Written, After, Folder, Job
<1>4. CASE j.at \in {"tests", "readme"}
  BY <1>4 DEF Written, After, Folder, Job
<1>5. CASE j.at \in {"tasks", "file"}
  BY <1>5 DEF Written, After, Folder, Job
<1>. QED BY <1>1, <1>2, <1>3, <1>4, <1>5 DEF Files

LEMMA RepairInit == Init => RepairInv
BY TypesInit DEF Init, RepairInv, AloneMeansAlone, Idle

LEMMA RepairBegin ==
  ASSUME RepairInv, NEW a \in Proc, Begins(a)
  PROVE  RepairInv'
<1>1. WorkspaceTypeOK' /\ UNCHANGED folder
  BY TypesBegin DEF RepairInv
<1>2. PICK d \in Desk, step \in {"copy", "make", "done"}, unlocks \in BOOLEAN :
        Call(a, d, step, unlocks)
  BY TypesBegin DEF RepairInv
<1>3. job \in [Proc -> Job \cup {NoJob}]
  BY DEF RepairInv, WorkspaceTypeOK
<1>4. /\ Idle(a)
      /\ \A q \in Proc \ {a} : ~Idle(q) => job'[q] = [job[q] EXCEPT !.alone = FALSE]
      /\ \A q \in Proc \ {a} : Idle(q) => job'[q] = NoJob
  BY <1>2 DEF Call
<1>5. \A q \in Proc \ {a} : ~Idle(q)' => ~Idle(q) /\ job'[q].alone = FALSE
  BY <1>3, <1>4 DEF Idle, Job
<1>6. /\ job'[a].alone <=> \A r \in Proc : Idle(r)
      /\ job'[a].writes <=> step = "make"
      /\ job'[a].at = step
  BY <1>2 DEF Call
<1>7. AloneMeansAlone'
  BY <1>5, <1>6 DEF AloneMeansAlone, Idle
<1>8. ASSUME NEW q \in Proc, ~Idle(q)' PROVE Repairs(job[q], folder[job[q].lang])'
  <2>1. CASE q = a
    BY <1>6, <2>1
    DEF Repairs, SoFar, PastTasks, PastReadme, PastTests, PastTidy, PastCopies, PastSpec, PastCases
  <2>2. CASE q # a
    BY <1>5, <1>8, <2>2 DEF Repairs
  <2>. QED BY <2>1, <2>2
<1>. QED BY <1>1, <1>7, <1>8 DEF RepairInv

(* What one step of a call must show: the rest of RepairInv follows.       *)
LEMMA Onwards ==
  ASSUME RepairInv, NEW a \in Proc, ~Idle(a), NEW j, job' = [job EXCEPT ![a] = j],
         WorkspaceTypeOK', j = NoJob \/ (j.alone = job[a].alone /\ Repairs(j, folder'[j.lang]))
  PROVE  RepairInv'
<1>1. job'[a] = j /\ \A q \in Proc \ {a} : job'[q] = job[q]
  BY DEF RepairInv, WorkspaceTypeOK
<1>2. AloneMeansAlone'
  BY <1>1 DEF RepairInv, AloneMeansAlone, Idle
<1>3. \A q \in Proc \ {a} : ~Idle(q) => ~job[q].alone
  BY DEF RepairInv, AloneMeansAlone
<1>4. ASSUME NEW q \in Proc, ~Idle(q)' PROVE Repairs(job[q], folder[job[q].lang])'
  <2>1. CASE q = a
    BY <1>1, <1>4, <2>1 DEF Idle
  <2>2. CASE q # a
    BY <1>1, <1>3, <1>4, <2>2 DEF Idle, Repairs
  <2>. QED BY <2>1, <2>2
<1>. QED BY <1>2, <1>4 DEF RepairInv

LEMMA RepairContinue ==
  ASSUME RepairInv, NEW a \in Proc, Continues(a)
  PROVE  RepairInv'
<1> DEFINE j == job[a]
           f == folder[j.lang]
<1>1. WorkspaceTypeOK' /\ ~Idle(a)
  BY TypesContinue DEF RepairInv
<1>2. j \in Job /\ f \in Folder /\ Repairs(j, f) /\ j.lang \in Lang
  BY <1>1, GoTypes DEF RepairInv, WorkspaceTypeOK, Steps, Job
<1>3. ASSUME Raise(a) PROVE RepairInv'
  <2>1. [j EXCEPT !.at = "done", !.failed = TRUE].failed = TRUE
    BY <1>2 DEF Job
  <2>2. job' = [job EXCEPT ![a] = [j EXCEPT !.at = "done", !.failed = TRUE]]
    BY <1>3 DEF Raise
  <2>3. [j EXCEPT !.at = "done", !.failed = TRUE].alone = j.alone
    BY <1>2 DEF Job
  <2>. QED BY <1>1, <2>1, <2>2, <2>3, Onwards DEF Repairs
<1>4. ASSUME NEW step \in Steps, Go(a, step),
             j.alone /\ j.writes /\ ~j.failed
               => step \notin {"copy", "look"} /\ SoFar([j EXCEPT !.at = step], folder'[j.lang])
      PROVE  RepairInv'
  <2> DEFINE k == [j EXCEPT !.at = step]
  <2>1. /\ k.alone = j.alone /\ k.writes = j.writes /\ k.failed = j.failed
        /\ k.at = step /\ k.lang = j.lang
    BY <1>2 DEF Job
  <2>2. Repairs(k, folder'[k.lang])
    BY <1>4, <2>1 DEF Repairs
  <2>3. job' = [job EXCEPT ![a] = k]
    BY <1>4 DEF Go
  <2>. HIDE DEF k
  <2>. QED BY <1>1, <2>1, <2>2, <2>3, Onwards
<1>5. ASSUME job' = [job EXCEPT ![a] = NoJob] PROVE RepairInv'
  BY <1>1, <1>5, Onwards
<1>6. CASE CopyWork(a)
  <2>1. j.at = "copy"
    BY <1>6 DEF CopyWork, At
  <2>. QED BY <1>2, <1>4, <1>6, <2>1 DEF CopyWork, Repairs, Steps
<1>7. CASE Look(a)
  <2>1. j.at = "look"
    BY <1>7 DEF Look, At
  <2>2. CASE Go(a, "done")
    BY <1>2, <1>4, <2>1, <2>2 DEF Repairs, Steps
  <2>3. CASE job' = [job EXCEPT ![a].at = "make", ![a].writes = TRUE]
    <3> DEFINE k == [j EXCEPT !.at = "make", !.writes = TRUE]
    <3>1. k.alone = j.alone /\ k.at = "make" /\ job' = [job EXCEPT ![a] = k]
      BY <1>2, <2>3 DEF Job
    <3>2. Repairs(k, folder'[k.lang])
      BY <3>1 DEF Repairs, SoFar, PastTasks, PastReadme, PastTests, PastTidy, PastCopies,
                  PastSpec, PastCases
    <3>. HIDE DEF k
    <3>. QED BY <1>1, <3>1, <3>2, Onwards
  <2>. QED BY <1>7, <2>2, <2>3 DEF Look
<1>8. CASE MakeFolder(a)
  <2>1. CASE Go(a, "cases")
    <3>1. [j EXCEPT !.at = "cases"].at = "cases"
      BY <1>2 DEF Job
    <3>. QED
      BY <1>4, <2>1, <3>1
      DEF SoFar, PastTasks, PastReadme, PastTests, PastTidy, PastCopies, PastSpec, PastCases,
          Steps
  <2>. QED BY <1>3, <1>8, <2>1 DEF MakeFolder
<1>9. ASSUME NEW step \in {"link", "tests"}, Go(a, step), j.at \in {"unlink", "link"},
             NEW file, folder' = [folder EXCEPT ![j.lang].link = file]
      PROVE  RepairInv'
  <2>1. SoFar(j, f) => SoFar([j EXCEPT !.at = step], folder'[j.lang])
    <3>1. folder'[j.lang] = [f EXCEPT !.link = file]
      BY <1>2, <1>9 DEF RepairInv, WorkspaceTypeOK
    <3>2. /\ [f EXCEPT !.link = file].cases = f.cases
          /\ [f EXCEPT !.link = file].spec = f.spec
          /\ [f EXCEPT !.link = file].copies = f.copies
      BY <1>2 DEF Folder
    <3>3. /\ [j EXCEPT !.at = step].at = step
          /\ [j EXCEPT !.at = step].level = j.level
      BY <1>2 DEF Job
    <3>. QED
      BY <1>9, <3>1, <3>2, <3>3
      DEF SoFar, PastTasks, PastReadme, PastTests, PastTidy, PastCopies, PastSpec, PastCases
  <2>. QED BY <1>2, <1>4, <1>9, <2>1 DEF Repairs, Steps
<1>10. CASE Unlink(a)
  BY <1>3, <1>9, <1>10 DEF Unlink, At
<1>11. CASE LinkWork(a)
  BY <1>3, <1>9, <1>11 DEF LinkWork, At
<1>12. CASE WriteFile(a)
  <2>1. After(j) \in Steps \ {"copy", "look"}
    BY <1>12 DEF WriteFile, After, Files, Steps
  <2>2. folder'[j.lang] = Written(f, j)
    BY <1>2, <1>12 DEF WriteFile, RepairInv, WorkspaceTypeOK
  <2>3. SoFar(j, f) => SoFar([j EXCEPT !.at = After(j)], folder'[j.lang])
    BY <1>2, <1>12, <2>2, WriteAdvances DEF WriteFile
  <2>4. Go(a, After(j))
    BY <1>12 DEF WriteFile
  <2>. QED BY <1>2, <1>4, <2>1, <2>3, <2>4 DEF Repairs
<1>13. CASE Return(a) \/ Kill(a)
  BY <1>5, <1>13 DEF Return, Kill
<1>14. CASE IOError(a)
  BY <1>3, <1>14 DEF IOError
<1>. QED
  BY <1>6, <1>7, <1>8, <1>10, <1>11, <1>12, <1>13, <1>14 DEF Continues

LEMMA RepairEdit ==
  ASSUME RepairInv, NEW l \in Lang, NEW t \in Text \cup {NoFile}, Edit(l, t)
  PROVE  RepairInv'
<1>1. WorkspaceTypeOK' /\ UNCHANGED folder
  BY TypesEdit DEF RepairInv, Edit
<1>2. job \in [Proc -> Job \cup {NoJob}]
  BY DEF RepairInv, WorkspaceTypeOK
<1>3. ASSUME NEW p \in Proc, ~Idle(p)'
      PROVE  ~Idle(p) /\ job'[p] = [job[p] EXCEPT !.edited = TRUE]
  BY <1>3 DEF Edit, Idle
<1>4. ASSUME NEW p \in Proc, ~Idle(p)'
      PROVE  /\ job'[p].alone = job[p].alone /\ job'[p].writes = job[p].writes
             /\ job'[p].failed = job[p].failed /\ job'[p].at = job[p].at
             /\ job'[p].lang = job[p].lang /\ job'[p].level = job[p].level
             /\ job'[p].cleared = job[p].cleared
  <2>1. job[p] \in Job
    BY <1>2, <1>3, <1>4 DEF Idle
  <2>. QED BY <1>3, <1>4, <2>1 DEF Job
<1>5. AloneMeansAlone'
  BY <1>3, <1>4 DEF RepairInv, AloneMeansAlone
<1>6. ASSUME NEW p \in Proc, ~Idle(p)' PROVE Repairs(job[p], folder[job[p].lang])'
  <2>1. Repairs(job[p], folder[job[p].lang])
    BY <1>3, <1>6 DEF RepairInv
  <2>. QED BY <1>1, <1>4, <1>6, <2>1 DEF Repairs, SoFar
<1>. QED BY <1>1, <1>5, <1>6 DEF RepairInv

THEOREM RepairInvariant == Spec => []RepairInv
<1>1. RepairInv /\ [Next]_vars => RepairInv'
  <2>1. CASE RepairInv /\ Next
    BY <2>1, OneStep, RepairBegin, RepairContinue, RepairEdit
  <2>2. CASE RepairInv /\ UNCHANGED vars
    BY <2>2 DEF vars, RepairInv, WorkspaceTypeOK, AloneMeansAlone, Idle, Repairs, SoFar
  <2>. QED BY <2>1, <2>2
<1>. QED BY <1>1, RepairInit, PTL DEF Spec

(* Whatever is in the folder, a write that runs alone to its end repairs    *)
(* it, for any number of commands, kills and errors before (write_workspace *)
(* and the note that sends the user to vscode).                            *)
THEOREM WritesRepair == Spec => WriteRepairs
<1> DEFINE Repaired(p) ==
      Returns(p) /\ job[p].writes /\ job[p].alone
        => LET f == folder'[job[p].lang] IN
           /\ AllAt(job[p].lang, f, job[p].level)
           /\ LabelsAre(f, Label(job[p].level, job[p].cleared))
<1>1. ASSUME RepairInv, [Next]_vars, NEW p \in Proc PROVE Repaired(p)
  <2>1. SUFFICES ASSUME Returns(p), job[p].writes, job[p].alone PROVE Repaired(p)
    OBVIOUS
  <2>2. ~Idle(p) /\ job[p].at = "done" /\ ~job[p].failed
    BY <2>1 DEF Returns, At
  <2>3. SoFar(job[p], folder[job[p].lang])
    BY <1>1, <2>1, <2>2 DEF RepairInv, Repairs
  <2>4. UNCHANGED folder
    <3>1. ASSUME NEW q \in Proc, Begins(q) PROVE UNCHANGED folder
      BY <1>1, <3>1, TypesBegin DEF RepairInv
    <3>2. ASSUME NEW q \in Proc, Continues(q) PROVE UNCHANGED folder
      <4>1. ~Idle(q)
        BY <1>1, <3>2, TypesContinue DEF RepairInv
      <4>2. q = p
        BY <1>1, <2>1, <2>2, <4>1 DEF RepairInv, AloneMeansAlone
      <4>. QED
        BY <2>2, <3>2, <4>2
        DEF Continues, CopyWork, Look, MakeFolder, Unlink, LinkWork, WriteFile, Files, Return,
            Kill, IOError, At
    <3>3. ASSUME NEW l \in Lang, NEW t \in Text \cup {NoFile}, Edit(l, t)
          PROVE  UNCHANGED folder
      BY <3>3 DEF Edit
    <3>. QED BY <1>1, <3>1, <3>2, <3>3, OneStep DEF vars
  <2>. DEFINE j == job[p]
              f == folder[job[p].lang]
  <2>5. /\ f.cases = j.level /\ f.spec = j.level
        /\ 1..j.level \subseteq f.copies /\ f.copies \subseteq 1..j.level
        /\ j.lang \in Tested => f.tests = j.level
        /\ f.readme = [level |-> j.level, label |-> Label(j.level, j.cleared)]
        /\ f.tasks = Label(j.level, j.cleared)
    BY <2>2, <2>3
    DEF SoFar, PastTasks, PastReadme, PastTests, PastTidy, PastCopies, PastSpec, PastCases
  <2>6. f.opens
    BY <2>2, <2>3 DEF SoFar
  <2>7. f.copies = 1..j.level
    BY <2>5
  <2>8. f.readme.level = j.level /\ f.readme.label = Label(j.level, j.cleared)
    BY <2>5
  <2>9. AllAt(j.lang, f, j.level) /\ LabelsAre(f, Label(j.level, j.cleared))
    BY <2>5, <2>6, <2>7, <2>8 DEF AllAt, LabelsAre
  <2>. QED BY <2>4, <2>9
<1>2. RepairInv /\ [Next]_vars => \A p \in Proc : Repaired(p)
  BY <1>1
<1>3. RepairInv /\ [Next]_vars => [\A p \in Proc : Repaired(p)]_vars
  BY <1>2
<1>. QED BY <1>3, RepairInvariant, PTL DEF Spec, WriteRepairs

-----------------------------------------------------------------------------
(***************************************************************************)
(* What a call of refresh_workspace leaves in a folder that was whole, and *)
(* in the plain copy of the work file, for every number of languages and   *)
(* levels and whatever the editor does.                                    *)
(***************************************************************************)

(* The plain copy *)

Writing == {"cases", "spec", "copies", "tidy", "unlink", "link", "tests", "readme",
            "tasks", "file"}

Plain(j) ==
  /\ j.at \in Writing => folder[j.lang].made
  /\ j.at \in {"unlink", "link", "tests"} => j.lang \in Tested
  /\ j.alone /\ ~j.edited /\ ~j.failed
       /\ j.at \in {"look", "tests", "readme", "tasks", "file", "done"}
       /\ work[j.lang] # NoFile /\ folder[j.lang].link \in Text
       => folder[j.lang].link = work[j.lang]

(* Only a folder that is there, of a language with tests, has a copy. *)
CopiesAreMade ==
  \A l \in Lang : ~folder[l].made \/ l \notin Tested => folder[l].link = NoFile

PlainInv ==
  /\ RepairInv
  /\ CopiesAreMade
  /\ \A p \in Proc : ~Idle(p) => Plain(job[p])

-----------------------------------------------------------------------------
(* The whole folder, one command at a time *)

Whole(l, f) ==
  AllAt(l, f, f.cases) /\ (f.cases < Top <=> LabelsAre(f, "unlock"))

(* The call's level is the desk's, but for a submit, which saves it after; *)
(* a refresh that is done came upon that level, or wrote it.               *)
Steady(j) ==
  /\ j.alone
  /\ ~j.unlocks => desk # NoDesk /\ desk.level = j.level
  /\ j.at \in Writing \cup {"make"} => j.writes
  /\ j.at # "done" => ~j.failed
  /\ j.at = "done" /\ ~j.failed /\ folder[j.lang].made /\ ~torn
       => folder[j.lang].cases = j.level

BeingWritten(l) == \E p \in Proc : ~Idle(p) /\ job[p].lang = l /\ job[p].at \in Writing

SteadyInv ==
  /\ RepairInv
  /\ \A p \in Proc : ~Idle(p) => Steady(job[p])
  /\ ~torn => \A l \in Lang : folder[l].made => Whole(l, folder[l]) \/ BeingWritten(l)

-----------------------------------------------------------------------------
(* Helpers *)

LEMMA Calling ==
  ASSUME RepairInv, NEW p \in Proc, ~Idle(p)
  PROVE  /\ job \in [Proc -> Job \cup {NoJob}] /\ folder \in [Lang -> Folder]
         /\ job[p] \in Job /\ job[p].lang \in Lang /\ folder[job[p].lang] \in Folder
         /\ job[p].failed \in BOOLEAN /\ job[p].alone \in BOOLEAN /\ job[p].level \in Nat
<1>1. job \in [Proc -> Job \cup {NoJob}] /\ folder \in [Lang -> Folder]
  BY DEF RepairInv, WorkspaceTypeOK
<1>2. job[p] \in Job
  BY <1>1 DEF Idle
<1>3. job[p].lang \in Lang /\ job[p].failed \in BOOLEAN /\ job[p].alone \in BOOLEAN
      /\ job[p].level \in Nat
  BY <1>2, LevelsAreNumbers DEF Job
<1>. QED BY <1>1, <1>2, <1>3

(* A command that begins is done at once only where there is no folder,    *)
(* and only a submit's call is not for the level of the desk.              *)
LEMMA BeginsAtTheDesk ==
  ASSUME WorkspaceTypeOK, NEW p \in Proc, Begins(p)
  PROVE  \E d \in Desk, step \in {"copy", "make", "done"}, unlocks \in BOOLEAN :
           /\ Call(p, d, step, unlocks)
           /\ step = "done" => ~folder[d.lang].made
           /\ unlocks => step = "copy"
           /\ ~unlocks => desk' = d
<1>. USE LevelsAreNumbers
<1>1. ASSUME desk # NoDesk PROVE desk \in Desk
  BY <1>1 DEF WorkspaceTypeOK
<1>2. ASSUME NEW d \in Desk, Rewrite(p, d)
      PROVE  \E step \in {"make", "done"} :
               Call(p, d, step, FALSE) /\ (step = "done" => ~folder[d.lang].made)
  BY <1>2 DEF Rewrite
<1>3. ASSUME NEW l \in Lang, Start(p, l)
      PROVE  \E d \in Desk, step \in {"copy", "make"} : Call(p, d, step, FALSE) /\ desk' = d
  <2>1. DeskIn(l) \in Desk
    BY DeskInTypes DEF WorkspaceTypeOK
  <2>. QED BY <1>3, <2>1 DEF Start
<1>4. ASSUME Submit(p)
      PROVE  \E d \in Desk : Call(p, d, "copy", TRUE)
  <2>1. desk \in Desk /\ desk.level \in Levels /\ desk.level < Top
    BY <1>1, <1>4 DEF Submit, Desk
  <2>2. desk.level + 1 \in Levels
    BY <2>1 DEF Levels
  <2>3. [desk EXCEPT !.level = @ + 1] \in Desk
    BY <2>1, <2>2 DEF Desk
  <2>. QED BY <1>4, <2>3 DEF Submit
<1>5. ASSUME Back(p)
      PROVE  \E d \in Desk : Call(p, d, "copy", FALSE) /\ desk' = d
  <2>1. desk \in Desk /\ desk.level \in Levels /\ desk.level > 1
    BY <1>1, <1>5 DEF Back, Desk
  <2>2. desk.level - 1 \in Levels
    BY <2>1 DEF Levels
  <2>3. [desk EXCEPT !.level = @ - 1, !.cleared = FALSE] \in Desk
    BY <2>1, <2>2 DEF Desk
  <2>. QED BY <1>5, <2>3 DEF Back
<1>6. ASSUME Finish(p)
      PROVE  \E d \in Desk : Rewrite(p, d) /\ desk' = d
  <2>1. [desk EXCEPT !.cleared = TRUE] \in Desk
    BY <1>1, <1>6 DEF Finish, Desk
  <2>. QED BY <1>6, <2>1 DEF Finish
<1>7. ASSUME NEW l \in Lang, Reset(p, l)
      PROVE  \E d \in Desk : Rewrite(p, d) /\ desk' = d
  <2>1. [lang |-> l, level |-> 1, cleared |-> FALSE] \in Desk
    BY DEF Desk
  <2>. QED BY <1>1, <1>7, <2>1 DEF Reset
<1>8. ASSUME Run(p)
      PROVE  \E d \in Desk : Call(p, d, "copy", FALSE) /\ desk' = d
  BY <1>1, <1>8 DEF Run
<1>. QED BY <1>2, <1>3, <1>4, <1>5, <1>6, <1>7, <1>8 DEF Begins

(* What the steps of a call make of its record. *)
LEMMA StepsOfACall ==
  ASSUME RepairInv, NEW p \in Proc, ~Idle(p), NEW step \in Steps
  PROVE  /\ Go(p, step) =>
              /\ job'[p] = [job[p] EXCEPT !.at = step] /\ job'[p] \in Job /\ ~Idle(p)'
              /\ job'[p].at = step /\ job'[p].lang = job[p].lang
              /\ job'[p].level = job[p].level /\ job'[p].unlocks = job[p].unlocks
              /\ job'[p].writes = job[p].writes /\ job'[p].failed = job[p].failed
              /\ job'[p].alone = job[p].alone /\ job'[p].edited = job[p].edited
         /\ Raise(p) =>
              /\ job'[p].at = "done" /\ job'[p].failed = TRUE
              /\ job'[p].lang = job[p].lang /\ job'[p].level = job[p].level
              /\ job'[p].unlocks = job[p].unlocks /\ job'[p].alone = job[p].alone
         /\ \A q \in Proc \ {p} : Go(p, step) \/ Raise(p) => job'[q] = job[q]
<1>1. job \in [Proc -> Job \cup {NoJob}] /\ job[p] \in Job
  BY Calling
<1>2. ASSUME Go(p, step)
      PROVE  /\ job'[p] = [job[p] EXCEPT !.at = step] /\ job'[p] \in Job /\ ~Idle(p)'
  <2>1. job'[p] = [job[p] EXCEPT !.at = step]
    BY <1>1, <1>2 DEF Go
  <2>. QED BY <1>1, <2>1, JobChanges, CallAssumption DEF Idle
<1>3. ASSUME Raise(p)
      PROVE  job'[p] = [job[p] EXCEPT !.at = "done", !.failed = TRUE]
  BY <1>1, <1>3 DEF Raise
<1>. QED BY <1>1, <1>2, <1>3 DEF Go, Raise, Job

(* A file that is written is neither the link nor the folder. *)
LEMMA WrittenKeeps ==
  ASSUME NEW f \in Folder, NEW j \in Job, j.at \in Files
  PROVE  Written(f, j).made = f.made /\ Written(f, j).link = f.link
<1>1. CASE j.at \in {"cases", "spec", "tests", "copies"}
  BY <1>1 DEF Written, Folder
<1>2. CASE j.at \in {"tidy", "readme", "tasks", "file"}
  BY <1>2 DEF Written, Folder
<1>. QED BY <1>1, <1>2 DEF Files

(* A call changes the folder of its language only, and removes none. *)
LEMMA OneFolder ==
  ASSUME RepairInv, NEW a \in Proc, Continues(a)
  PROVE  /\ \A l \in Lang \ {job[a].lang} : folder'[l] = folder[l]
         /\ \A l \in Lang : folder[l].made => folder'[l].made
<1>1. ~Idle(a) /\ RepairInv' /\ folder' \in [Lang -> Folder]
  BY TypesContinue, RepairContinue DEF RepairInv, WorkspaceTypeOK
<1>2. /\ folder \in [Lang -> Folder] /\ job[a] \in Job /\ job[a].lang \in Lang
      /\ folder[job[a].lang] \in Folder
  BY <1>1, Calling
<1>3. CASE CopyWork(a)
  BY <1>2, <1>3 DEF CopyWork, Folder
<1>4. CASE Look(a) \/ Return(a) \/ Kill(a) \/ IOError(a)
  BY <1>4 DEF Look, Return, Kill, IOError
<1>5. CASE MakeFolder(a)
  BY <1>2, <1>5 DEF MakeFolder, Folder
<1>6. CASE Unlink(a) \/ LinkWork(a)
  <2>1. folder' = folder \/ \E t : folder' = [folder EXCEPT ![job[a].lang].link = t]
    BY <1>6 DEF Unlink, LinkWork
  <2>2. ASSUME NEW t, folder' = [folder EXCEPT ![job[a].lang].link = t]
        PROVE  /\ \A l \in Lang \ {job[a].lang} : folder'[l] = folder[l]
               /\ \A l \in Lang : folder[l].made => folder'[l].made
    BY <1>2, <2>2 DEF Folder
  <2>. QED BY <2>1, <2>2
<1>7. CASE WriteFile(a)
  BY <1>2, <1>7, WrittenKeeps DEF WriteFile
<1>. QED BY <1>3, <1>4, <1>5, <1>6, <1>7 DEF Continues

(* What writing a file makes of the call and of its folder. *)
LEMMA WritesOn ==
  ASSUME RepairInv, NEW a \in Proc, ~Idle(a), WriteFile(a)
  PROVE  /\ ~Idle(a)' /\ job'[a].at = After(job[a]) /\ job'[a].lang = job[a].lang
         /\ job'[a].level = job[a].level /\ job'[a].unlocks = job[a].unlocks
         /\ job'[a].writes = job[a].writes /\ job'[a].failed = job[a].failed
         /\ job'[a].alone = job[a].alone /\ job'[a].edited = job[a].edited
         /\ folder'[job[a].lang].made = folder[job[a].lang].made
         /\ folder'[job[a].lang].link = folder[job[a].lang].link
<1>1. /\ job[a] \in Job /\ folder[job[a].lang] \in Folder /\ job[a].lang \in Lang
      /\ folder \in [Lang -> Folder]
  BY Calling
<1>2. After(job[a]) \in Steps
  BY <1>1, WrittenTypes DEF WriteFile
<1>3. folder'[job[a].lang] = Written(folder[job[a].lang], job[a])
  BY <1>1 DEF WriteFile
<1>4. PICK step : step = After(job[a])
  OBVIOUS
<1>5. step \in Steps /\ Go(a, step)
  BY <1>2, <1>4 DEF WriteFile
<1>6. /\ ~Idle(a)' /\ job'[a].at = step /\ job'[a].lang = job[a].lang
      /\ job'[a].level = job[a].level /\ job'[a].unlocks = job[a].unlocks
      /\ job'[a].writes = job[a].writes /\ job'[a].failed = job[a].failed
      /\ job'[a].alone = job[a].alone /\ job'[a].edited = job[a].edited
  BY <1>5, StepsOfACall
<1>. QED BY <1>1, <1>3, <1>4, <1>6, WrittenKeeps DEF WriteFile

-----------------------------------------------------------------------------
(* The plain copy is current *)

LEMMA PlainInit == Init => PlainInv
<1>1. ASSUME Init
      PROVE  CopiesAreMade
  <2>1. NoFolder.link = NoFile
    BY DEF NoFolder
  <2>. QED BY <1>1, <2>1 DEF Init, CopiesAreMade
<1>. QED BY <1>1, RepairInit DEF PlainInv, Init, Idle

LEMMA PlainBegin ==
  ASSUME PlainInv, NEW a \in Proc, Begins(a)
  PROVE  PlainInv'
<1>1. RepairInv /\ RepairInv' /\ UNCHANGED folder
  BY RepairBegin, TypesBegin DEF PlainInv, RepairInv
<1>2. PICK d \in Desk, step \in {"copy", "make", "done"}, unlocks \in BOOLEAN :
        Call(a, d, step, unlocks) /\ (step = "done" => ~folder[d.lang].made)
  BY <1>1, BeginsAtTheDesk DEF RepairInv
<1>3. job'[a].at = step /\ job'[a].lang = d.lang /\ d.lang \in Lang
  BY <1>2 DEF Call, Desk
<1>4. CopiesAreMade'
  BY <1>1 DEF PlainInv, CopiesAreMade
<1>5. Plain(job[a])'
  <2>1. step = "done" => folder[d.lang].link \notin Text
    BY <1>2, <1>3, WorkspaceAssumption DEF PlainInv, CopiesAreMade
  <2>. QED BY <1>1, <1>3, <2>1 DEF Plain, Writing
<1>6. ASSUME NEW q \in Proc \ {a}, ~Idle(q)'
      PROVE  Plain(job[q])'
  <2>1. ~Idle(q) /\ job'[q] = [job[q] EXCEPT !.alone = FALSE]
    BY <1>2, <1>6 DEF Call, Idle
  <2>2. /\ job'[q].alone = FALSE /\ job'[q].at = job[q].at /\ job'[q].lang = job[q].lang
    BY <1>1, <2>1, Calling DEF Job
  <2>. QED BY <1>1, <2>1, <2>2 DEF PlainInv, Plain
<1>. QED BY <1>1, <1>4, <1>5, <1>6 DEF PlainInv

LEMMA PlainContinue ==
  ASSUME PlainInv, NEW a \in Proc, Continues(a)
  PROVE  PlainInv'
<1>. DEFINE l == job[a].lang
            f == folder[l]
<1>1. RepairInv /\ RepairInv' /\ ~Idle(a)
  BY RepairContinue, TypesContinue DEF PlainInv, RepairInv
<1>2. /\ folder \in [Lang -> Folder] /\ job[a] \in Job /\ l \in Lang /\ f \in Folder
      /\ job \in [Proc -> Job \cup {NoJob}]
  BY <1>1, Calling
<1>3. Plain(job[a]) /\ CopiesAreMade
  BY <1>1 DEF PlainInv
<1>k. /\ \A m \in Lang \ {l} : folder'[m] = folder[m]
      /\ \A m \in Lang : folder[m].made => folder'[m].made
      /\ UNCHANGED work
  BY <1>1, OneFolder DEF Continues, CopyWork, Look, MakeFolder, Unlink, LinkWork, WriteFile,
     Return, Kill, IOError
<1>4. ASSUME NEW q \in Proc \ {a}, ~Idle(q)'
      PROVE  Plain(job[q])'
  <2>1. job'[q] = job[q]
    BY <1>2 DEF Continues, CopyWork, Look, MakeFolder, Unlink, LinkWork, WriteFile, Return,
                Kill, IOError, Go, Raise
  <2>2. ~Idle(q) /\ ~job[q].alone
    BY <1>1, <1>4, <2>1 DEF RepairInv, AloneMeansAlone, Idle
  <2>3. job[q].lang \in Lang
    BY <1>1, <2>2, Calling
  <2>. QED BY <1>k, <2>1, <2>2, <2>3 DEF PlainInv, Plain
<1>5. SUFFICES /\ ~(folder'[l].made /\ l \in Tested) => folder'[l].link = NoFile
               /\ ~Idle(a)' => Plain(job[a])'
  <2>1. ASSUME NEW m \in Lang, ~folder'[m].made \/ m \notin Tested
        PROVE  folder'[m].link = NoFile
    BY <1>3, <1>5, <1>k, <2>1 DEF CopiesAreMade
  <2>. QED BY <1>1, <1>4, <1>5, <2>1 DEF PlainInv, CopiesAreMade
<1>. USE DEF Steps
<1>6. CASE Raise(a) /\ UNCHANGED folder
  <2>1. job'[a].at = "done" /\ job'[a].failed = TRUE
    BY <1>1, <1>6, StepsOfACall
  <2>. QED BY <1>2, <1>3, <1>6, <2>1 DEF CopiesAreMade, Plain, Writing
<1>7. CASE CopyWork(a)
  <2>1. job[a].at = "copy"
    BY <1>7 DEF CopyWork, At
  <2>2. CASE ~f.made /\ Go(a, "done") /\ UNCHANGED folder
    <3>1. job'[a].at = "done" /\ job'[a].lang = l
      BY <1>1, <2>2, StepsOfACall
    <3>2. f.link = NoFile /\ f.link \notin Text
      BY <1>2, <1>3, <2>2, WorkspaceAssumption DEF CopiesAreMade
    <3>. QED BY <2>2, <3>1, <3>2 DEF Plain, Writing
  <2>3. CASE f.made /\ Go(a, "look")
              /\ folder' = [folder EXCEPT ![l].link =
                             IF @ \in Text /\ work[l] # NoFile THEN work[l] ELSE @]
    <3>1. job'[a].at = "look" /\ job'[a].lang = l
      BY <1>1, <2>3, StepsOfACall
    <3>2. /\ folder'[l].link = IF f.link \in Text /\ work[l] # NoFile THEN work[l] ELSE f.link
          /\ folder'[l].made = f.made
      BY <1>2, <2>3 DEF Folder
    <3>3. l \notin Tested => f.link = NoFile /\ f.link \notin Text
      BY <1>2, <1>3, WorkspaceAssumption DEF CopiesAreMade
    <3>. QED BY <1>k, <2>3, <3>1, <3>2, <3>3 DEF Plain, Writing
  <2>. QED BY <1>7, <2>2, <2>3 DEF CopyWork
<1>8. CASE Look(a)
  <2>1. job[a].at = "look" /\ UNCHANGED folder
    BY <1>8 DEF Look, At
  <2>2. CASE Go(a, "done")
    <3>1. /\ job'[a].at = "done" /\ job'[a].lang = l /\ job'[a].alone = job[a].alone
          /\ job'[a].edited = job[a].edited /\ job'[a].failed = job[a].failed
      BY <1>1, <2>2, StepsOfACall
    <3>. QED BY <1>2, <1>3, <1>k, <2>1, <3>1 DEF CopiesAreMade, Plain, Writing
  <2>3. CASE job' = [job EXCEPT ![a].at = "make", ![a].writes = TRUE]
    <3>1. job'[a].at = "make"
      BY <1>2, <2>3 DEF Job
    <3>. QED BY <1>2, <1>3, <2>1, <3>1 DEF CopiesAreMade, Plain, Writing
  <2>. QED BY <1>8, <2>2, <2>3 DEF Look
<1>9. CASE MakeFolder(a)
  <2>1. CASE Go(a, "cases") /\ folder' = [folder EXCEPT ![l].made = TRUE]
    <3>1. job'[a].at = "cases" /\ job'[a].lang = l
      BY <1>1, <2>1, StepsOfACall
    <3>2. folder'[l].made = TRUE /\ folder'[l].link = f.link
      BY <1>2, <2>1 DEF Folder
    <3>. QED BY <1>2, <1>3, <3>1, <3>2 DEF CopiesAreMade, Plain
  <2>. QED BY <1>6, <1>9, <2>1 DEF MakeFolder
<1>10. CASE Unlink(a)
  <2>1. job[a].at = "unlink"
    BY <1>10 DEF Unlink, At
  <2>2. CASE Go(a, "link") /\ folder' = [folder EXCEPT ![l].link = NoFile]
    <3>1. job'[a].at = "link" /\ job'[a].lang = l
      BY <1>1, <2>2, StepsOfACall
    <3>2. folder'[l].made = f.made /\ folder'[l].link = NoFile
      BY <1>2, <2>2 DEF Folder
    <3>. QED BY <1>3, <2>1, <3>1, <3>2 DEF Plain, Writing
  <2>. QED BY <1>6, <1>10, <2>2 DEF Unlink
<1>11. CASE LinkWork(a)
  <2>1. job[a].at = "link" /\ f.made /\ l \in Tested
    BY <1>3, <1>11 DEF LinkWork, At, Plain, Writing
  <2>2. ASSUME NEW t \in {Linked, work[l]}, folder' = [folder EXCEPT ![l].link = t],
               Go(a, "tests")
        PROVE  /\ ~(folder'[l].made /\ l \in Tested) => folder'[l].link = NoFile
               /\ Plain(job[a])'
    <3>1. job'[a].at = "tests" /\ job'[a].lang = l
      BY <1>1, <2>2, StepsOfACall
    <3>2. folder'[l].made = f.made /\ folder'[l].link = t
      BY <1>2, <2>2 DEF Folder
    <3>. QED BY <1>k, <2>1, <3>1, <3>2, WorkspaceAssumption DEF Plain, Writing
  <2>. QED BY <1>6, <1>11, <2>2 DEF LinkWork
<1>12. CASE WriteFile(a)
  <2>1. job[a].at \in Files
    BY <1>12 DEF WriteFile
  <2>2. folder'[l].made = f.made /\ folder'[l].link = f.link
    BY <1>1, <1>12, WritesOn
  <2>3. /\ job'[a].at = After(job[a]) /\ job'[a].lang = l /\ job'[a].alone = job[a].alone
        /\ job'[a].edited = job[a].edited /\ job'[a].failed = job[a].failed
    BY <1>1, <1>12, WritesOn
  <2>4. f.made
    BY <1>3, <2>1 DEF Plain, Writing, Files
  <2>5. ~(folder'[l].made /\ l \in Tested) => folder'[l].link = NoFile
    BY <1>2, <1>3, <2>2 DEF CopiesAreMade
  <2>6. After(job[a]) \in {"unlink", "link", "tests"} => l \in Tested
    BY <2>1 DEF After, Files
  <2>7. CASE l \notin Tested
    <3>1. folder'[l].link \notin Text
      BY <2>5, <2>7, WorkspaceAssumption
    <3>. QED BY <2>2, <2>3, <2>4, <2>5, <2>6, <3>1 DEF Plain
  <2>8. CASE l \in Tested
    <3>1. After(job[a]) \in {"look", "tests", "readme", "tasks", "file", "done"}
            => job[a].at \in {"tests", "readme", "tasks", "file"}
      BY <2>1, <2>8 DEF After, Files
    <3>. QED BY <1>3, <1>k, <2>2, <2>3, <2>4, <2>5, <2>6, <3>1 DEF Plain
  <2>. QED BY <2>7, <2>8
<1>13. CASE Return(a) \/ Kill(a)
  <2>1. Idle(a)' /\ UNCHANGED folder
    BY <1>2, <1>13 DEF Return, Kill, Idle
  <2>. QED BY <1>2, <1>3, <2>1 DEF CopiesAreMade
<1>14. CASE IOError(a)
  BY <1>6, <1>14 DEF IOError
<1>. QED BY <1>7, <1>8, <1>9, <1>10, <1>11, <1>12, <1>13, <1>14 DEF Continues

(* The user's editor changes neither calls nor folders. *)
LEMMA EditKeeps ==
  ASSUME RepairInv, NEW m \in Lang, NEW t \in Text \cup {NoFile}, Edit(m, t),
         NEW q \in Proc
  PROVE  /\ UNCHANGED <<folder, desk, torn>>
         /\ Idle(q)' <=> Idle(q)
         /\ ~Idle(q) => /\ job'[q].at = job[q].at /\ job'[q].lang = job[q].lang
                        /\ job'[q].level = job[q].level /\ job'[q].unlocks = job[q].unlocks
                        /\ job'[q].writes = job[q].writes /\ job'[q].failed = job[q].failed
                        /\ job'[q].alone = job[q].alone /\ job'[q].edited = TRUE
<1>1. CASE Idle(q)
  BY <1>1 DEF Edit, Idle
<1>2. CASE ~Idle(q)
  <2>1. job'[q] = [job[q] EXCEPT !.edited = TRUE] /\ UNCHANGED <<folder, desk, torn>>
    BY <1>2 DEF Edit
  <2>2. job[q] \in Job
    BY <1>2, Calling
  <2>3. job'[q] \in Job
    BY <2>1, <2>2 DEF Job
  <2>. QED BY <1>2, <2>1, <2>2, <2>3, CallAssumption DEF Idle, Job
<1>. QED BY <1>1, <1>2

LEMMA PlainStep == PlainInv /\ [Next]_vars => PlainInv'
<1>1. ASSUME PlainInv, NEW m \in Lang, NEW t \in Text \cup {NoFile}, Edit(m, t)
      PROVE  PlainInv'
  <2>1. RepairInv /\ RepairInv' /\ UNCHANGED folder
    BY <1>1, RepairEdit DEF PlainInv, Edit
  <2>2. ASSUME NEW q \in Proc, ~Idle(q)'
        PROVE  Plain(job[q])'
    BY <1>1, <2>1, <2>2, EditKeeps DEF PlainInv, Plain
  <2>. QED BY <1>1, <2>1, <2>2 DEF PlainInv, CopiesAreMade
<1>2. CASE PlainInv /\ UNCHANGED vars
  <2>1. RepairInv'
    BY <1>2 DEF vars, PlainInv, RepairInv, WorkspaceTypeOK, AloneMeansAlone, Idle, Repairs,
                SoFar
  <2>. QED BY <1>2, <2>1 DEF vars, PlainInv, CopiesAreMade, Plain, Idle
<1>. QED BY <1>1, <1>2, OneStep, PlainBegin, PlainContinue

(* A call that is done and alone returns over a folder that nobody touches. *)
LEMMA ReturnsAlone ==
  ASSUME RepairInv, [Next]_vars, NEW p \in Proc, Returns(p), job[p].alone
  PROVE  UNCHANGED folder /\ (Return(p) \/ \E m \in Lang, t \in Text \cup {NoFile} : Edit(m, t))
<1>1. ~Idle(p) /\ Idle(p)' /\ job[p].at = "done" /\ faults' = faults
  BY DEF Returns, At
<1>2. faults \in Nat
  <2>1. faults \in 0..MaxFaults /\ MaxFaults \in Nat
    BY WorkspaceAssumption DEF RepairInv, WorkspaceTypeOK
  <2>. QED BY <2>1
<1>3. ASSUME NEW q \in Proc, Continues(q)
      PROVE  Return(p)
  <2>1. ~Idle(q)
    BY <1>3, TypesContinue DEF RepairInv
  <2>2. q = p
    BY <1>1, <2>1 DEF RepairInv, AloneMeansAlone
  <2>3. Continues(p)
    BY <1>3, <2>2
  <2>4. ~Kill(p)
    BY <1>1, <1>2 DEF Kill
  <2>5. job[p].at \notin Files
    BY <1>1 DEF Files
  <2>. QED
    BY <1>1, <2>3, <2>4, <2>5
    DEF Continues, CopyWork, Look, MakeFolder, Unlink, LinkWork, WriteFile, IOError, At
<1>4. ASSUME NEW q \in Proc, Begins(q)
      PROVE  FALSE
  <2>1. PICK d \in Desk, step \in {"copy", "make", "done"}, unlocks \in BOOLEAN :
          Call(q, d, step, unlocks)
    BY <1>4, TypesBegin DEF RepairInv
  <2>2. q # p /\ job'[p] = [job[p] EXCEPT !.alone = FALSE]
    BY <1>1, <2>1 DEF Call, Idle
  <2>3. job'[p] \in Job
    <3>1. job[p] \in Job
      BY <1>1, Calling
    <3>. QED BY <2>2, <3>1 DEF Job
  <2>. QED BY <1>1, <2>3, CallAssumption DEF Idle
<1>5. ASSUME UNCHANGED vars
      PROVE  FALSE
  BY <1>1, <1>5 DEF vars, Idle
<1>. QED BY <1>3, <1>4, <1>5, OneStep DEF Return, Edit

(* Where symlinks fail, a refresh or a write that runs alone to its end    *)
(* leaves a copy that is the work file, for any number of commands before  *)
(* it (refresh_workspace, _link_or_copy).                                  *)
THEOREM PlainCopies == Spec => PlainCopyIsCurrent
<1>1. ASSUME PlainInv, [Next]_vars, NEW p \in Proc, Returns(p), job[p].alone,
             ~job[p].edited, work[job[p].lang] # NoFile, folder'[job[p].lang].link \in Text
      PROVE  folder'[job[p].lang].link = work[job[p].lang]
  <2>1. ~Idle(p) /\ job[p].at = "done" /\ ~job[p].failed
    BY <1>1 DEF Returns, At
  <2>2. UNCHANGED folder /\ Plain(job[p])
    BY <1>1, <2>1, ReturnsAlone DEF PlainInv
  <2>. QED BY <1>1, <2>1, <2>2 DEF Plain
<1>2. PlainInv /\ [Next]_vars
        => [\A p \in Proc :
             LET l == job[p].lang IN
             Returns(p) /\ job[p].alone /\ ~job[p].edited
               /\ work[l] # NoFile /\ folder'[l].link \in Text
               => folder'[l].link = work[l]]_vars
  BY <1>1
<1>. QED BY <1>2, PlainInit, PlainStep, PTL DEF Spec, PlainCopyIsCurrent

-----------------------------------------------------------------------------
(* The whole folder *)

(* What Whole looks at. *)
LEMMA WholeKept ==
  ASSUME NEW l, NEW f, NEW g, Whole(l, f),
         /\ g.cases = f.cases /\ g.spec = f.spec /\ g.copies = f.copies /\ g.tests = f.tests
         /\ g.readme = f.readme /\ g.tasks = f.tasks /\ g.opens = f.opens
  PROVE  Whole(l, g)
BY DEF Whole, AllAt, LabelsAre

LEMMA SteadyInit == Init => SteadyInv
<1>1. ASSUME Init
      PROVE  \A l \in Lang : ~folder[l].made
  <2>1. NoFolder.made = FALSE
    BY DEF NoFolder
  <2>. QED BY <1>1, <2>1 DEF Init
<1>. QED BY <1>1, RepairInit DEF SteadyInv, Init, Idle

LEMMA SteadyBegin ==
  ASSUME \A p, q \in Proc : p = q,
         SteadyInv, NEW a \in Proc, Begins(a)
  PROVE  SteadyInv'
<1>1. RepairInv /\ RepairInv' /\ UNCHANGED folder
  BY RepairBegin, TypesBegin DEF SteadyInv, RepairInv
<1>2. PICK d \in Desk, step \in {"copy", "make", "done"}, unlocks \in BOOLEAN :
        /\ Call(a, d, step, unlocks)
        /\ step = "done" => ~folder[d.lang].made
        /\ ~unlocks => desk' = d
  BY <1>1, BeginsAtTheDesk DEF RepairInv
<1>3. /\ job'[a].at = step /\ job'[a].lang = d.lang /\ job'[a].level = d.level
      /\ job'[a].unlocks = unlocks /\ job'[a].writes = (step = "make")
      /\ job'[a].failed = FALSE
  BY <1>2 DEF Call
<1>4. job'[a].alone
  BY <1>2 DEF Call
<1>5. d # NoDesk \/ unlocks
  BY CallAssumption
<1>6. Steady(job[a])'
  BY <1>1, <1>2, <1>3, <1>4, <1>5 DEF Steady, Writing
<1>7. torn' = torn
  BY DEF Begins, Start, Reset, Run, Submit, Finish, Back
<1>8. \A l \in Lang : ~BeingWritten(l)
  BY <1>2 DEF BeingWritten, Call
<1>. QED BY <1>1, <1>6, <1>7, <1>8 DEF SteadyInv

LEMMA SteadyContinue ==
  ASSUME \A p, q \in Proc : p = q,
         SteadyInv, NEW a \in Proc, Continues(a)
  PROVE  SteadyInv'
<1>. DEFINE l == job[a].lang
            f == folder[l]
<1>1. RepairInv /\ RepairInv' /\ ~Idle(a)
  BY RepairContinue, TypesContinue DEF SteadyInv, RepairInv
<1>2. /\ folder \in [Lang -> Folder] /\ job[a] \in Job /\ l \in Lang /\ f \in Folder
      /\ job \in [Proc -> Job \cup {NoJob}] /\ job[a].failed \in BOOLEAN
  BY <1>1, Calling
<1>3. Steady(job[a])
  BY <1>1 DEF SteadyInv
<1>4. ~torn => \A m \in Lang : folder[m].made =>
                 Whole(m, folder[m]) \/ (m = l /\ job[a].at \in Writing)
  BY DEF SteadyInv, BeingWritten
<1>k. \A m \in Lang \ {l} : folder'[m] = folder[m]
  BY <1>1, OneFolder
<1>5. SUFFICES /\ ~Idle(a)' => Steady(job[a])'
               /\ ~torn' => ~torn /\
                    (folder'[l].made =>
                      Whole(l, folder'[l])
                      \/ (~Idle(a)' /\ job'[a].lang = l /\ job'[a].at \in Writing))
  <2>1. ASSUME ~torn', NEW m \in Lang, folder'[m].made
        PROVE  Whole(m, folder'[m]) \/ BeingWritten(m)'
    BY <1>4, <1>5, <1>k, <2>1 DEF BeingWritten
  <2>2. \A m \in Lang : Whole(m, folder[m])' <=> Whole(m, folder'[m])
    BY DEF Whole, AllAt, LabelsAre
  <2>. QED BY <1>1, <1>5, <2>1, <2>2 DEF SteadyInv
<1>6. CASE CopyWork(a)
  <2>1. /\ job[a].at = "copy" /\ UNCHANGED <<desk, torn>>
        /\ \/ ~f.made /\ Go(a, "done") /\ UNCHANGED folder
           \/ Go(a, "look") /\ \E t : folder' = [folder EXCEPT ![l].link = t]
    BY <1>6 DEF CopyWork, At
  <2>2. CASE ~f.made /\ Go(a, "done") /\ UNCHANGED folder
    <3>1. /\ job'[a].at = "done" /\ job'[a].lang = l /\ job'[a].level = job[a].level
          /\ job'[a].unlocks = job[a].unlocks /\ job'[a].alone = job[a].alone
          /\ job'[a].failed = job[a].failed
      BY <1>1, <2>2, StepsOfACall DEF Steps
    <3>. QED BY <1>3, <1>4, <2>1, <2>2, <3>1 DEF Steady, Writing
  <2>3. ASSUME NEW t, Go(a, "look"), folder' = [folder EXCEPT ![l].link = t]
        PROVE  /\ Steady(job[a])'
               /\ ~torn' => ~torn /\ (folder'[l].made => Whole(l, folder'[l]))
    <3>1. /\ job'[a].at = "look" /\ job'[a].lang = l /\ job'[a].level = job[a].level
          /\ job'[a].unlocks = job[a].unlocks /\ job'[a].alone = job[a].alone
          /\ job'[a].failed = job[a].failed
      BY <1>1, <2>3, StepsOfACall DEF Steps
    <3>2. LET g == folder'[l] IN
          /\ g.cases = f.cases /\ g.spec = f.spec /\ g.copies = f.copies
          /\ g.tests = f.tests /\ g.readme = f.readme /\ g.tasks = f.tasks
          /\ g.opens = f.opens /\ g.made = f.made
      BY <1>2, <2>3 DEF Folder
    <3>3. Steady(job[a])'
      BY <1>3, <2>1, <3>1 DEF Steady, Writing
    <3>4. ~torn /\ f.made => Whole(l, f)
      BY <1>2, <1>4, <2>1 DEF Writing
    <3>5. ~torn /\ folder'[l].made => Whole(l, folder'[l])
      BY <3>2, <3>4, WholeKept
    <3>. QED BY <2>1, <3>3, <3>5
  <2>. QED BY <2>1, <2>2, <2>3
<1>7. CASE Look(a)
  <2>1. job[a].at = "look" /\ UNCHANGED <<folder, desk, torn>>
    BY <1>7 DEF Look, At
  <2>2. ~torn /\ f.made => Whole(l, f)
    BY <1>2, <1>4, <2>1 DEF Writing
  <2>3. CASE Go(a, "done") /\ f.cases = job[a].level
    <3>1. /\ job'[a].at = "done" /\ job'[a].lang = l /\ job'[a].level = job[a].level
          /\ job'[a].unlocks = job[a].unlocks /\ job'[a].alone = job[a].alone
          /\ job'[a].failed = job[a].failed
      BY <1>1, <2>3, StepsOfACall DEF Steps
    <3>2. Steady(job[a])'
      BY <1>3, <2>1, <2>3, <3>1 DEF Steady, Writing
    <3>. QED BY <2>1, <2>2, <3>2
  <2>4. CASE job' = [job EXCEPT ![a].at = "make", ![a].writes = TRUE]
    <3>1. /\ job'[a].at = "make" /\ job'[a].lang = l /\ job'[a].level = job[a].level
          /\ job'[a].unlocks = job[a].unlocks /\ job'[a].alone = job[a].alone
          /\ job'[a].failed = job[a].failed /\ job'[a].writes = TRUE
      BY <1>2, <2>4 DEF Job
    <3>2. Steady(job[a])'
      BY <1>3, <2>1, <3>1 DEF Steady, Writing
    <3>. QED BY <2>1, <2>2, <3>2
  <2>. QED BY <1>7, <2>3, <2>4 DEF Look
(* A call that fails leaves a folder that it had not begun to write whole.  *)
<1>8. ASSUME Raise(a), UNCHANGED folder, UNCHANGED desk,
             torn' \/ (torn' = torn /\ job[a].at = "make")
      PROVE  Steady(job[a])' /\ (~torn' => ~torn /\ (folder'[l].made => Whole(l, folder'[l])))
  <2>1. /\ job'[a].at = "done" /\ job'[a].failed = TRUE /\ job'[a].level = job[a].level
        /\ job'[a].unlocks = job[a].unlocks /\ job'[a].alone = job[a].alone
    BY <1>1, <1>8, StepsOfACall DEF Steps
  <2>2. Steady(job[a])'
    BY <1>3, <1>8, <2>1 DEF Steady, Writing
  <2>3. torn \in BOOLEAN /\ torn' \in BOOLEAN
    BY <1>1 DEF RepairInv, WorkspaceTypeOK
  <2>4. torn' = torn /\ job[a].at = "make" => (~torn /\ f.made => Whole(l, f))
    BY <1>2, <1>4 DEF Writing
  <2>. QED BY <1>8, <2>2, <2>3, <2>4
(* A write goes on. *)
<1>9. ASSUME NEW step \in Writing, Go(a, step), job[a].at \in Writing \cup {"make"},
             UNCHANGED <<desk, torn>>
      PROVE  /\ ~Idle(a)' /\ Steady(job[a])' /\ job'[a].lang = l /\ job'[a].at \in Writing
             /\ ~torn' => ~torn
  <2>1. /\ job'[a].at = step /\ job'[a].lang = l /\ job'[a].level = job[a].level
        /\ job'[a].unlocks = job[a].unlocks /\ job'[a].alone = job[a].alone
        /\ job'[a].failed = job[a].failed /\ job'[a].writes = job[a].writes /\ ~Idle(a)'
    <3>1. step \in Steps
      BY DEF Writing, Steps
    <3>. QED BY <1>1, <1>9, <3>1, StepsOfACall
  <2>2. Steady(job[a])'
    BY <1>3, <1>9, <2>1 DEF Steady, Writing
  <2>. QED BY <1>9, <2>1, <2>2
<1>10. CASE MakeFolder(a)
  <2>1. job[a].at = "make" /\ UNCHANGED <<desk, torn>>
    BY <1>10 DEF MakeFolder, At
  <2>. QED BY <1>8, <1>9, <1>10, <2>1 DEF MakeFolder, Writing
<1>11. CASE Unlink(a) \/ LinkWork(a)
  <2>1. job[a].at \in Writing /\ UNCHANGED desk
    BY <1>11 DEF Unlink, LinkWork, At, Writing
  <2>2. CASE Raise(a) /\ torn' /\ UNCHANGED folder
    BY <1>8, <2>1, <2>2
  <2>3. ASSUME NEW step \in {"link", "tests"}, Go(a, step), UNCHANGED torn
        PROVE  /\ ~Idle(a)' /\ Steady(job[a])' /\ job'[a].lang = l /\ job'[a].at \in Writing
               /\ ~torn' => ~torn
    BY <1>9, <2>1, <2>3 DEF Writing
  <2>. QED BY <1>11, <2>2, <2>3 DEF Unlink, LinkWork
<1>12. CASE WriteFile(a)
  <2>1. /\ job'[a].at = After(job[a]) /\ job'[a].lang = l /\ job'[a].level = job[a].level
        /\ job'[a].unlocks = job[a].unlocks /\ job'[a].alone = job[a].alone
        /\ job'[a].failed = job[a].failed /\ job'[a].writes = job[a].writes /\ ~Idle(a)'
    BY <1>1, <1>12, WritesOn
  <2>2. job[a].at \in Files /\ UNCHANGED <<desk, torn>>
    BY <1>12 DEF WriteFile
  <2>3. job[a].at # "done" /\ job[a].at \in Writing
    BY <2>2 DEF Files, Writing
  <2>4. ~job[a].failed /\ job[a].writes
    BY <1>3, <2>3 DEF Steady
  <2>5. SoFar(job[a], folder[job[a].lang])'
    BY <1>1, <1>3, <2>1, <2>4 DEF RepairInv, Repairs, Steady
  <2>6. CASE After(job[a]) = "done"
    <3>. DEFINE g == folder'[l]
    <3>1. /\ g.cases = job[a].level /\ g.spec = job[a].level /\ g.opens
          /\ 1..job[a].level \subseteq g.copies /\ g.copies \subseteq 1..job[a].level
          /\ l \in Tested => g.tests = job[a].level
          /\ g.readme = [level |-> job[a].level,
                         label |-> Label(job[a].level, job'[a].cleared)]
          /\ g.tasks = Label(job[a].level, job'[a].cleared)
      BY <2>1, <2>5, <2>6
      DEF SoFar, PastTasks, PastReadme, PastTests, PastTidy, PastCopies, PastSpec, PastCases,
          Label
    <3>2. job[a].level \in Levels /\ job'[a].cleared \in BOOLEAN
      <4>1. job'[a] \in Job
        BY <1>1, <2>1, Calling DEF RepairInv, WorkspaceTypeOK, Idle
      <4>. QED BY <1>2, <4>1 DEF Job
    <3>3. job[a].level < Top <=> Label(job[a].level, job'[a].cleared) = "unlock"
      BY <3>2, LevelsAreNumbers DEF Label
    <3>4. g.copies = 1..job[a].level
      BY <3>1
    <3>. HIDE DEF g
    <3>5. Whole(l, g)
      BY <3>1, <3>3, <3>4 DEF Whole, AllAt, LabelsAre
    <3>6. Steady(job[a])'
      BY <1>3, <2>1, <2>2, <2>3, <2>4, <2>6, <3>1 DEF Steady, Writing, g
    <3>. QED BY <2>2, <3>5, <3>6 DEF g
  <2>7. CASE After(job[a]) # "done"
    <3>1. After(job[a]) \in Writing
      BY <2>2, <2>7 DEF After, Files, Writing
    <3>2. Steady(job[a])'
      BY <1>3, <2>1, <2>2, <2>4, <2>7 DEF Steady
    <3>. QED BY <2>1, <2>2, <3>1, <3>2
  <2>. QED BY <2>6, <2>7
<1>13. CASE Return(a)
  <2>1. Idle(a)' /\ UNCHANGED <<folder, torn>> /\ job[a].at = "done"
    BY <1>2, <1>13 DEF Return, Idle, At
  <2>. QED BY <1>2, <1>4, <2>1 DEF Writing
<1>14. CASE Kill(a)
  BY <1>2, <1>14 DEF Kill, Idle
<1>15. CASE IOError(a)
  <2>1. Raise(a) /\ UNCHANGED folder /\ UNCHANGED desk /\ torn'
    BY <1>15 DEF IOError
  <2>. QED BY <1>8, <2>1
<1>. QED BY <1>6, <1>7, <1>10, <1>11, <1>12, <1>13, <1>14, <1>15 DEF Continues

LEMMA SteadyStep ==
  ASSUME \A p, q \in Proc : p = q,
         SteadyInv, [Next]_vars
  PROVE  SteadyInv'
<1>1. ASSUME NEW m \in Lang, NEW t \in Text \cup {NoFile}, Edit(m, t)
      PROVE  SteadyInv'
  <2>1. RepairInv /\ RepairInv' /\ UNCHANGED <<folder, desk, torn>>
    BY <1>1, RepairEdit DEF SteadyInv, Edit
  <2>2. ASSUME NEW q \in Proc, ~Idle(q)'
        PROVE  Steady(job[q])'
    BY <1>1, <2>1, <2>2, EditKeeps, ZenonT(60) DEF SteadyInv, Steady
  <2>3. ASSUME NEW l \in Lang, BeingWritten(l)
        PROVE  BeingWritten(l)'
    BY <1>1, <2>1, <2>3, EditKeeps DEF BeingWritten
  <2>4. \A l \in Lang : Whole(l, folder[l])' <=> Whole(l, folder[l])
    BY <2>1 DEF Whole, AllAt, LabelsAre
  <2>. QED BY <2>1, <2>2, <2>3, <2>4 DEF SteadyInv
<1>2. CASE UNCHANGED vars
  <2>1. RepairInv'
    BY <1>2 DEF vars, SteadyInv, RepairInv, WorkspaceTypeOK, AloneMeansAlone, Idle, Repairs,
                SoFar
  <2>. QED BY <1>2, <2>1 DEF vars, SteadyInv, Steady, BeingWritten, Whole, AllAt, LabelsAre,
                             Idle
<1>. QED BY <1>1, <1>2, OneStep, SteadyBegin, SteadyContinue

(* With one command at a time, a refresh, a write or none of them leaves   *)
(* every file of the folder at the level that is open when the command     *)
(* ends, as long as no call stopped half-way: though refresh_workspace     *)
(* looks at cases.json only, the other files go with it.                   *)
THEOREM CallsReturnAtTheOpenLevel ==
  ASSUME \A p, q \in Proc : p = q
  PROVE  Spec => ReturnsAtTheOpenLevel
<1>1. ASSUME SteadyInv, [Next]_vars, NEW p \in Proc, Returns(p), ~torn,
             folder[job[p].lang].made, ~job[p].edited
      PROVE  LET f == folder'[job[p].lang] IN
             /\ AllAt(job[p].lang, f, desk'.level)
             /\ desk'.level < Top <=> LabelsAre(f, "unlock")
  <2>1. ~Idle(p) /\ Idle(p)' /\ job[p].at = "done" /\ ~job[p].failed
    BY <1>1 DEF Returns, At
  <2>2. RepairInv /\ Steady(job[p]) /\ job[p].lang \in Lang
    BY <1>1, <2>1, Calling DEF SteadyInv
  <2>3. Return(p) /\ UNCHANGED folder
    BY <1>1, <2>1, <2>2, ReturnsAlone, EditKeeps DEF Steady
  <2>4. ~BeingWritten(job[p].lang)
    BY <2>1 DEF BeingWritten, Writing
  <2>5. Whole(job[p].lang, folder[job[p].lang]) /\ folder[job[p].lang].cases = job[p].level
    BY <1>1, <2>1, <2>2, <2>4 DEF SteadyInv, Steady
  <2>6. desk'.level = job[p].level
    BY <2>2, <2>3 DEF Return, Steady
  <2>. QED BY <2>3, <2>5, <2>6 DEF Whole
<1>2. SteadyInv /\ [Next]_vars
        => [\A p \in Proc :
             Returns(p) /\ ~torn /\ folder[job[p].lang].made /\ ~job[p].edited
               => LET f == folder'[job[p].lang] IN
                  /\ AllAt(job[p].lang, f, desk'.level)
                  /\ desk'.level < Top <=> LabelsAre(f, "unlock")]_vars
  BY <1>1
<1>3. SteadyInv /\ [Next]_vars => SteadyInv'
  BY SteadyStep
<1>. QED BY <1>2, <1>3, SteadyInit, PTL DEF Spec, ReturnsAtTheOpenLevel
=============================================================================
