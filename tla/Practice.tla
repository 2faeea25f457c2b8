------------------------------ MODULE Practice -----------------------------
(***************************************************************************)
(* One problem in one language: the desk in session.json, the work file,   *)
(* the traces in the VS Code workspace (cases.json, the file by which      *)
(* refresh_workspace tells whether there is anything to write; Workspace   *)
(* has the other files), and the commands that move them (cli.py,          *)
(* console.py).  A command takes a copy of the desk when it starts, or     *)
(* when the console last reloaded it, and works on that copy; each of its  *)
(* saves writes the whole copy back as one atomic step, which is what      *)
(* SessionStore shows of save_session.                                     *)
(***************************************************************************)
EXTENDS Naturals

CONSTANTS
  Proc,        \* the commands that may be under way at the same time
  Top,         \* max_level of the problem
  Minutes,     \* the values --minutes is given
  Default,     \* minutes of a new desk when --minutes is left out
  NoMinutes,   \* --minutes is left out
  Commands,    \* bound: the kinds of command that are used
  Kinds,       \* bound: what --kind is given, "work" or "solution"
  Edits,       \* bound: what the user's editor makes of the work file
  MaxNow,      \* bound: when the clock on the wall stops
  MaxFaults,   \* bound: how many commands die or fail half-way
  NoDesk, NoWork, NoClass, NoJob,
  NoWorkspace, \* there is no workspace
  NoCases      \* there is one, but nothing was written to it yet

ASSUME PracticeAssumption ==
  /\ Top \in Nat \ {0}
  /\ Minutes \subseteq Nat \ {0} /\ Default \in Nat \ {0} /\ NoMinutes \notin Nat
  /\ MaxNow \in Nat /\ MaxFaults \in Nat
  /\ Kinds \subseteq {"work", "solution"}
  /\ Commands \subseteq {"run", "submit", "start", "vscode", "reset", "back",
                         "console reset", "console back", "console all",
                         "console vscode"}

VARIABLES
  now,      \* the clock on the wall
  desk,     \* the problem's desk in session.json
  work,     \* the work file
  cases,    \* the level of the workspace's cases.json
  noted,    \* history: whether the last call that was to write it failed
  job,      \* each command under way
  faults,   \* how many commands died or failed half-way
  earned    \* history: the levels passed by a submit, in time

vars == <<now, desk, work, cases, noted, job, faults, earned>>

-----------------------------------------------------------------------------
(* Types *)

Levels == 1..Top

Desk == [level : Levels, cleared : BOOLEAN, started : 0..MaxNow,
         minutes : Minutes \cup {Default}]

(* A work file without the problem's class is NoClass.  Of one that has it *)
(* we keep, for each level, whether the methods that the level adds are    *)
(* there and whether they pass the public traces.                          *)
Source   == [Levels -> {"missing", "stub", "solved"}]
WorkFile == Source \cup {NoWork, NoClass}

ASSUME DataAssumption ==
  /\ Edits \subseteq WorkFile
  /\ NoDesk \notin Desk /\ NoWork \notin Source /\ NoClass \notin Source
  /\ NoWorkspace \notin Levels \cup {NoCases} /\ NoCases \notin Levels

Steps == {"refresh", "public", "record", "hidden", "record hidden", "clear", "merge",
          "write", "shelve", "unlock", "save", "slice", "start over", "lock", "change",
          "reload", "rewrite"}

Job == [cmd : Commands, at : Steps, desk : Desk, minutes : Minutes \cup {NoMinutes},
        kind : Kinds \cup {"work"}, level : Levels, ok : BOOLEAN, seen : WorkFile, edited : BOOLEAN]

ASSUME JobAssumption == NoJob \notin Job

PracticeTypeOK ==
  /\ now \in 0..MaxNow
  /\ desk \in Desk \cup {NoDesk}
  /\ work \in WorkFile
  /\ cases \in Levels \cup {NoCases, NoWorkspace}
  /\ noted \in BOOLEAN
  /\ job \in [Proc -> Job \cup {NoJob}]
  /\ faults \in 0..MaxFaults
  /\ earned \subseteq Levels

Init ==
  /\ now = 0
  /\ desk = NoDesk
  /\ work = NoWork
  /\ cases = NoWorkspace
  /\ noted = FALSE
  /\ job = [p \in Proc |-> NoJob]
  /\ faults = 0
  /\ earned = {}

-----------------------------------------------------------------------------
(* The clock and the desk (session.py) *)

Running(d, t) == t < d.started + d.minutes      \* remaining_s is not 0

Given(m, otherwise) == IF m = NoMinutes THEN otherwise ELSE m

NewDesk(m, t) ==
  [level |-> 1, cleared |-> FALSE, started |-> t, minutes |-> Given(m, Default)]

(* Mistake: every start begins a new clock. *)
EnsuredAnew(d, m, t) ==
  IF d = NoDesk THEN NewDesk(m, t)
  ELSE [d EXCEPT !.minutes = Given(m, @), !.started = t]

(* ensure_session for the active problem in the language it has: a dead    *)
(* clock is started again, a running one only changes its length.          *)
Ensured(d, m, t) ==
  LET length == [d EXCEPT !.minutes = Given(m, @)]
  IN  IF d = NoDesk THEN NewDesk(m, t)
      ELSE IF Running(d, t) /\ Running(length, t) THEN length
      ELSE [length EXCEPT !.started = t]

-----------------------------------------------------------------------------
(* The work file (workstub.py, ensure_work_copy) *)

(* slice_stub: the stub of every method up to a level *)
Sliced(k) == [l \in Levels |-> IF l <= k THEN "stub" ELSE "missing"]

(* Mistake: a file that lacks a method is cut from the stub again. *)
MergedAnew(w, k) == Sliced(k)

(* merge_unlocked_methods: adds the stubs that are missing, changes nothing *)
Merged(w, k) == [l \in Levels |-> IF l <= k /\ w[l] = "missing" THEN "stub" ELSE w[l]]

Covers(w, k) == w \in Source /\ \A l \in 1..k : w[l] # "missing"

Passes(w, k) == w \in Source /\ \A l \in 1..k : w[l] = "solved"

-----------------------------------------------------------------------------
(* Helpers of the steps *)

Idle(p) == job[p] = NoJob
At(p, step) == ~Idle(p) /\ job[p].at = step
Cmd(p) == job[p].cmd

Take(p, c, step, d, m) ==
  /\ c \in Commands
  /\ Idle(p)
  /\ job' = [job EXCEPT ![p] =
               [cmd |-> c, at |-> step, desk |-> d, minutes |-> m, kind |-> "work",
                level |-> d.level, ok |-> FALSE, seen |-> NoWork, edited |-> FALSE]]

Go(p, step) == job' = [job EXCEPT ![p].at = step]
Finished(p) == job' = [job EXCEPT ![p] = NoJob]

(* save_session of the command's copy of the desk *)
Save(p, d) == desk' = d

-----------------------------------------------------------------------------
(* The workspace (workspace.py).  A call replaces cases.json before all    *)
(* other files, and each file at once.                                     *)

(* Mistake: submit merges the methods of the level that was passed. *)
LevelThatIsOpen(j) == j.desk.level

LevelToOpen(j) == IF j.cmd = "submit" THEN j.desk.level + 1 ELSE j.desk.level

LevelToShow(j) == IF j.at = "shelve" THEN LevelToOpen(j) ELSE j.desk.level

(* Only vscode makes a workspace; a reset, and a desk that is cleared, write *)
(* the one there is; anything else refreshes it.                           *)
Makes(j)  == j.cmd \in {"vscode", "console vscode"}
Writes(j) == Makes(j) \/ j.at = "rewrite"

(* A refresh of a workspace that has the level's traces already writes     *)
(* nothing; a write needs the work file (for python3 and java).            *)
WorkspaceWritten(j) ==
  /\ noted' = FALSE
  /\ IF cases = NoWorkspace /\ ~Makes(j) THEN cases' = cases
     ELSE /\ work # NoWork \/ (cases = LevelToShow(j) /\ ~Writes(j))
          /\ cases' = LevelToShow(j)

(* What a call leaves that is stopped between any two of its files.        *)
CasesLeft(j) ==
  {cases} \cup
  IF work = NoWork \/ (cases = NoWorkspace /\ ~Makes(j)) THEN {}
  ELSE {LevelToShow(j)} \cup (IF cases = NoWorkspace THEN {NoCases} ELSE {})

(* A call that fails: a file that cannot be read or written, a work file   *)
(* that is gone.  The user is told, now or when the command ends.          *)
WorkspaceRefused(j) ==
  /\ cases # NoWorkspace \/ Makes(j)
  /\ noted' = TRUE
  /\ cases' \in CasesLeft(j)

-----------------------------------------------------------------------------
(* run and submit (cmd_run, cmd_submit; 1 and 2 in the console) *)

(* The command loads the desk.  --level may name another level than the    *)
(* open one; then nothing but the last run is recorded.                    *)
BeginRun(p, c, k, l) ==
  /\ desk # NoDesk
  /\ c \in Commands /\ Idle(p)
  /\ job' = [job EXCEPT ![p] =
               [cmd |-> c, at |-> "refresh", desk |-> desk, minutes |-> NoMinutes,
                kind |-> k, level |-> l, ok |-> FALSE, seen |-> NoWork,
                edited |-> FALSE]]
  /\ UNCHANGED <<now, desk, work, cases, noted, faults, earned>>

RefreshBeforeRun(p) ==
  /\ At(p, "refresh")
  /\ WorkspaceWritten(job[p]) \/ WorkspaceRefused(job[p])
  /\ Go(p, "public")
  /\ UNCHANGED <<now, desk, work, faults, earned>>

(* The reference solution passes; the work file passes as far as it is     *)
(* solved.  The file is read when the run starts.  --kind stub runs a file  *)
(* that passes nothing, as an unsolved work file does.                     *)
CanPass(p) == job[p].kind = "solution" \/ Passes(work, job[p].level)

PublicRun(p) ==
  /\ At(p, "public")
  /\ job[p].kind = "solution" \/ work \in Source
  /\ job' = [job EXCEPT ![p].ok = CanPass(p), ![p].at = "record"]
  /\ UNCHANGED <<now, desk, work, cases, noted, faults, earned>>

(* A missing file, class or tool, or a run past its time limit: nothing is  *)
(* saved.                                                                  *)
RunFails(p) ==
  /\ At(p, "public")
  /\ Finished(p)
  /\ UNCHANGED <<now, desk, work, cases, noted, faults, earned>>

(* _wants_hidden *)
WantsHidden(j) == j.kind = "solution" \/ j.cmd = "submit" \/ j.desk.level = Top

(* Mistake: the clock is not looked at after the runs. *)
StepAfterLatePass(j) ==
  CASE j.level # j.desk.level -> "done"
    [] j.level = j.desk.level /\ j.level = Top -> IF j.desk.cleared THEN "done" ELSE "clear"
    [] j.level = j.desk.level /\ j.level < Top -> IF j.cmd = "submit" THEN "merge" ELSE "done"

(* What is left to do once every run has passed.  The clock is read when   *)
(* the last of them is over.                                               *)
StepAfterPass(j) ==
  CASE j.level # j.desk.level -> "done"
    [] j.level = j.desk.level /\ j.level = Top ->
         IF j.desk.cleared THEN "done" ELSE "clear"
    [] j.level = j.desk.level /\ j.level < Top ->
         IF Running(j.desk, now) /\ j.cmd = "submit" THEN "merge" ELSE "done"

GoOn(p) ==
  LET step == StepAfterPass(job[p]) IN IF step = "done" THEN Finished(p) ELSE Go(p, step)

(* record_last_run saves the command's copy of the desk. *)
RecordPublic(p) ==
  /\ At(p, "record")
  /\ Save(p, job[p].desk)
  /\ CASE ~job[p].ok -> Finished(p)
       [] job[p].ok /\ WantsHidden(job[p]) -> Go(p, "hidden")
       [] job[p].ok /\ ~WantsHidden(job[p]) -> GoOn(p)
  /\ UNCHANGED <<now, work, cases, noted, faults, earned>>

(* Code that passes the public traces may fail the hidden ones, and a run  *)
(* that dies here counts as failed.                                        *)
HiddenRun(p) ==
  /\ At(p, "hidden")
  /\ \E passes \in BOOLEAN :
       /\ passes => CanPass(p)
       /\ job' = [job EXCEPT ![p].ok = passes, ![p].at = "record hidden"]
  /\ UNCHANGED <<now, desk, work, cases, noted, faults, earned>>

(* What earns a level: the traces of a submit passed before the clock ran  *)
(* out, or at the last level the traces of any run.                        *)
Earns(j) ==
  /\ j.ok /\ j.level = j.desk.level
  /\ j.level = Top \/ (j.cmd = "submit" /\ Running(j.desk, now))

RecordHidden(p) ==
  /\ At(p, "record hidden")
  /\ Save(p, job[p].desk)
  /\ IF job[p].ok THEN GoOn(p) ELSE Finished(p)
  /\ earned' = IF Earns(job[p]) THEN earned \cup {job[p].level} ELSE earned
  /\ UNCHANGED <<now, work, cases, noted, faults>>

MarkCleared(p) ==
  /\ At(p, "clear")
  /\ job' = [job EXCEPT ![p].desk.cleared = TRUE, ![p].at = "rewrite"]
  /\ Save(p, [job[p].desk EXCEPT !.cleared = TRUE])
  /\ UNCHANGED <<now, work, cases, noted, faults, earned>>

UnlockNext(p) ==
  /\ At(p, "unlock")
  /\ Save(p, [job[p].desk EXCEPT !.level = @ + 1, !.cleared = FALSE])
  /\ Finished(p)
  /\ UNCHANGED <<now, work, cases, noted, faults, earned>>

-----------------------------------------------------------------------------
(* ensure_work_copy without reset, then the workspace *)

(* A file without the class stops a submit (require_merge) and is left as  *)
(* it is by a start.                                                       *)
ReadWork(p) ==
  LET j == job[p] IN
  /\ At(p, "merge")
  /\ IF work = NoClass /\ j.cmd = "submit" THEN Finished(p)
     ELSE job' = [job EXCEPT ![p] =
            [j EXCEPT !.seen = work, !.edited = FALSE,
                      !.at = IF work = NoClass \/ Covers(work, LevelToOpen(j))
                             THEN "shelve" ELSE "write"]]
  /\ UNCHANGED <<now, desk, work, cases, noted, faults, earned>>

(* _replace_text writes what was made of the text read before. *)
WriteWork(p) ==
  LET j == job[p] IN
  /\ At(p, "write")
  /\ work' = IF j.seen = NoWork THEN Sliced(LevelToOpen(j))
             ELSE Merged(j.seen, LevelToOpen(j))
  /\ Go(p, "shelve")
  /\ UNCHANGED <<now, desk, cases, noted, faults, earned>>

(* Where the workspace cannot be written, submit and start go on, vscode   *)
(* and start --back end.                                                   *)
Shelve(p) ==
  LET j == job[p] IN
  /\ At(p, "shelve")
  /\ WorkspaceWritten(j) \/ WorkspaceRefused(j)
  /\ CASE j.cmd = "submit" -> Go(p, "unlock")
       [] j.cmd = "back" /\ ~noted' -> Go(p, "reload")
       [] OTHER -> Finished(p)
  /\ UNCHANGED <<now, desk, work, faults, earned>>

-----------------------------------------------------------------------------
(* start, console and vscode (ensure_session, then as above) *)

BeginStart(p, c, m) ==
  /\ c \in {"start", "vscode"}
  /\ Take(p, c, "save", Ensured(desk, m, now), m)
  /\ UNCHANGED <<now, desk, work, cases, noted, faults, earned>>

SaveStart(p) ==
  /\ At(p, "save")
  /\ Save(p, job[p].desk)
  /\ IF Cmd(p) = "back" THEN Finished(p) ELSE Go(p, "merge")
  /\ UNCHANGED <<now, work, cases, noted, faults, earned>>

(* 5 in a console that is open: no ensure_session, the desk it loaded. *)
BeginConsoleVscode(p) ==
  /\ desk # NoDesk
  /\ Take(p, "console vscode", "merge", desk, NoMinutes)
  /\ UNCHANGED <<now, desk, work, cases, noted, faults, earned>>

-----------------------------------------------------------------------------
(* start --reset and --back, and 3 in the console *)

(* A console that is at its prompt has a desk, start --reset needs none. *)
BeginReset(p, c, m) ==
  /\ \/ c = "reset" /\ Take(p, c, "slice", NewDesk(m, now), m)
     \/ c \in {"console reset", "console all"} /\ desk # NoDesk /\ m = NoMinutes
        /\ Take(p, c, "slice", desk, m)
  /\ UNCHANGED <<now, desk, work, cases, noted, faults, earned>>

BeginBack(p, c, m) ==
  /\ c = "back" \/ (c = "console back" /\ m = NoMinutes)
  /\ desk # NoDesk
  /\ desk.level > 1
  /\ Take(p, c, "slice", desk, m)
  /\ UNCHANGED <<now, desk, work, cases, noted, faults, earned>>

(* ensure_work_copy with reset: the work file first, the desk after it. *)
SliceWork(p) ==
  LET j == job[p] IN
  /\ At(p, "slice")
  /\ \/ /\ j.cmd \in {"reset", "console all"}
        /\ work' = Sliced(1) /\ Go(p, "start over")
     \/ /\ j.cmd \in {"back", "console back"}
        /\ work' = Sliced(j.desk.level - 1) /\ Go(p, "lock")
     \/ /\ j.cmd = "console reset"
        /\ work' = Sliced(j.desk.level) /\ Go(p, "rewrite")
  /\ UNCHANGED <<now, desk, cases, noted, faults, earned>>

(* new_session and its save; the console keeps the length of its clock. *)
StartOver(p) ==
  LET j == job[p]
      fresh == NewDesk(IF j.cmd = "console all" THEN j.desk.minutes ELSE j.minutes, now)
  IN
  /\ At(p, "start over")
  /\ Save(p, fresh)
  /\ job' = [job EXCEPT ![p].desk = fresh, ![p].at = "rewrite"]
  /\ UNCHANGED <<now, work, cases, noted, faults, earned>>

(* Mistake: a desk that goes back stays cleared. *)
LockToLevelCleared(p) ==
  LET lower == [job[p].desk EXCEPT !.level = @ - 1] IN
  /\ At(p, "lock")
  /\ Save(p, lower)
  /\ job' = [job EXCEPT ![p].desk = lower, ![p].at = "change"]
  /\ UNCHANGED <<now, work, cases, noted, faults, earned>>

(* Mistake: going back drops two levels. *)
LockToLevelTwoDown(p) ==
  LET lower == [job[p].desk EXCEPT !.level = @ - 2, !.cleared = FALSE] IN
  /\ At(p, "lock")
  /\ Save(p, lower)
  /\ job' = [job EXCEPT ![p].desk = lower, ![p].at = "change"]
  /\ UNCHANGED <<now, work, cases, noted, faults, earned>>

(* lock_to_level *)
LockToLevel(p) ==
  LET lower == [job[p].desk EXCEPT !.level = @ - 1, !.cleared = FALSE] IN
  /\ At(p, "lock")
  /\ Save(p, lower)
  /\ job' = [job EXCEPT ![p].desk = lower, ![p].at = "change"]
  /\ UNCHANGED <<now, work, cases, noted, faults, earned>>

(* --minutes with --back is a second save, if it changes anything. *)
ChangeMinutes(p) ==
  LET changed == [job[p].desk EXCEPT !.minutes = Given(job[p].minutes, @)] IN
  /\ At(p, "change")
  /\ desk' = IF changed = job[p].desk THEN desk ELSE changed
  /\ job' = [job EXCEPT ![p].desk = changed, ![p].at = "shelve"]
  /\ UNCHANGED <<now, work, cases, noted, faults, earned>>

(* start --back loads the desk once more and runs ensure_session on it. *)
ReloadAfterBack(p) ==
  /\ At(p, "reload")
  /\ job' = [job EXCEPT ![p].desk = Ensured(desk, job[p].minutes, now), ![p].at = "save"]
  /\ UNCHANGED <<now, desk, work, cases, noted, faults, earned>>

(* Mistake: a reset leaves the workspace as it is. *)
RewriteNothing(p) ==
  /\ At(p, "rewrite")
  /\ Finished(p)
  /\ UNCHANGED <<now, desk, work, cases, noted, faults, earned>>

Rewrite(p) ==
  /\ At(p, "rewrite")
  /\ WorkspaceWritten(job[p]) \/ WorkspaceRefused(job[p])
  /\ Finished(p)
  /\ UNCHANGED <<now, desk, work, faults, earned>>

-----------------------------------------------------------------------------
(* What happens around the commands *)

(* The command is killed, or a save times out or fails: it ends there, with *)
(* what it did so far done.  A kill may come between two files of the      *)
(* workspace.                                                              *)
Fault(p) ==
  /\ ~Idle(p)
  /\ faults < MaxFaults
  /\ faults' = faults + 1
  /\ cases' \in IF job[p].at \in {"refresh", "shelve", "rewrite"}
                THEN CasesLeft(job[p]) ELSE {cases}
  /\ Finished(p)
  /\ UNCHANGED <<now, desk, work, noted, earned>>

(* The user's editor saves the work file, or the user deletes it. *)
Edit(w) ==
  /\ desk # NoDesk
  /\ work # w
  /\ work' = w
  /\ job' = [p \in Proc |-> IF Idle(p) THEN NoJob ELSE [job[p] EXCEPT !.edited = TRUE]]
  /\ UNCHANGED <<now, desk, cases, noted, faults, earned>>

Tick ==
  /\ now < MaxNow
  /\ now' = now + 1
  /\ UNCHANGED <<desk, work, cases, noted, job, faults, earned>>

-----------------------------------------------------------------------------

Begin(p) ==
  \/ \E c \in {"run", "submit"}, k \in Kinds, l \in Levels : BeginRun(p, c, k, l)
  \/ \E c \in Commands, m \in Minutes \cup {NoMinutes} :
       BeginStart(p, c, m) \/ BeginReset(p, c, m) \/ BeginBack(p, c, m)
  \/ BeginConsoleVscode(p)

Continue(p) ==
  \/ RefreshBeforeRun(p) \/ PublicRun(p) \/ RunFails(p) \/ RecordPublic(p)
  \/ HiddenRun(p) \/ RecordHidden(p) \/ MarkCleared(p) \/ UnlockNext(p)
  \/ SaveStart(p) \/ ReadWork(p) \/ WriteWork(p) \/ Shelve(p)
  \/ SliceWork(p) \/ StartOver(p) \/ LockToLevel(p) \/ ChangeMinutes(p)
  \/ ReloadAfterBack(p) \/ Rewrite(p)

Next ==
  \/ \E p \in Proc : Begin(p) \/ Continue(p) \/ Fault(p)
  \/ \E w \in Edits : Edit(w)
  \/ Tick

Spec == Init /\ [][Next]_vars

-----------------------------------------------------------------------------
(* Properties of any number of commands at the same time *)

(* Every level below the open one was passed by a submit, its public and   *)
(* its hidden traces, before the clock ran out; and a desk is cleared only *)
(* at the last level, when its traces passed (cmd_run).  However commands  *)
(* interleave, no desk ever says more than was earned.                     *)
EveryLevelEarned ==
  desk # NoDesk =>
    /\ \A l \in 1..(desk.level - 1) : l \in earned
    /\ desk.cleared => desk.level = Top /\ Top \in earned

(* A run records what it found and unlocks nothing (tests/test_session.py: *)
(* 150, term.py:637: submit is the one that unlocks).  That fails when the *)
(* desk went back or started over while the run was going: the run saves   *)
(* the copy it took before.                                                *)
RunUnlocksNothing ==
  [][\A p \in Proc :
       ~Idle(p) /\ job[p].cmd = "run" /\ job'[p] # job[p] /\ desk # NoDesk
         => desk'.level <= desk.level]_vars

(* Properties of one command at a time, whatever the user's editor does    *)

Ladder == INSTANCE Ladder WITH
  level    <- IF desk = NoDesk THEN 0 ELSE desk.level,
  finished <- desk # NoDesk /\ desk.cleared

(* The open level moves as Ladder says, also when commands die half-way.   *)
ClimbsTheLadder == Ladder!LadderSpec

(* A level opens only over a work file that has its methods, unless the    *)
(* user took them out meanwhile: submit merges before it saves.            *)
OpensOverItsMethods ==
  [][\A p \in Proc :
       At(p, "unlock") /\ desk' # desk /\ ~job[p].edited => Covers(work, desk'.level)]_vars

(* A command that comes to its end, without telling that the workspace     *)
(* could not be written, leaves no public traces of a locked level in the  *)
(* workspace, nor those of a level that is not the open one: cases.json    *)
(* is that of the open level, whatever commands that died, failing writes  *)
(* and the user's editor left before.  That is all it promises: of the     *)
(* files beside cases.json, see Workspace.                                 *)
EndsAtTheOpenLevel ==
  [][\A p \in Proc :
       ~Idle(p) /\ Idle(p)' /\ faults' = faults /\ ~noted'
         => cases' \in {NoWorkspace, desk'.level}]_vars

(* What the user has solved is lost only by the commands that say so:      *)
(* start, submit, vscode and run keep it, unless the editor saved the file *)
(* after they read it.                                                     *)
Destructive == {"reset", "back", "console reset", "console back", "console all"}

KeepsSolutions ==
  [][\A p \in Proc :
       /\ ~Idle(p) /\ Cmd(p) \notin Destructive /\ work \in Source
       /\ job'[p] # job[p]
       /\ ~job[p].edited /\ (Idle(p)' \/ ~job'[p].edited)
       => /\ work' \in Source
          /\ \A l \in Levels : work[l] = "solved" => work'[l] = "solved"]_vars

(* A clock that runs is set back by a reset that starts over, and by a     *)
(* start whose --minutes are over already; never by a run, a submit, a     *)
(* start without --minutes, or going back a level.                         *)
ClockKeepsRunning ==
  [][desk # NoDesk /\ desk' # NoDesk /\ Running(desk, now) /\ desk'.started # desk.started
       => \E p \in Proc :
            /\ ~Idle(p)
            /\ \/ job[p].cmd \in {"reset", "console all"}
               \/ ~Running([desk EXCEPT !.minutes = Given(job[p].minutes, @)], now)]_vars
=============================================================================
