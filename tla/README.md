# Honepad, specified

Honepad is a terminal program for practising coding problems. A problem has
levels; `honepad start` opens level 1, `honepad run` tries the user's code
against public traces, `honepad submit` also against hidden ones and, if they
pass while the clock runs, opens the next level. All its state is files: there
is no daemon, and any number of `honepad` commands (and consoles, and the VS
Code tasks that call `honepad`) may work on the same files at the same time.

This directory specifies that state and the commands that change it, as TLA+
modules that TLC checks on small instances, and proves the most important
properties for every instance. Paths below are relative to the repository,
which is under `src/`, so that `src/src/honepad/session.py` is the program's
session module.

## The system

| Component | State | Operations | Where |
|---|---|---|---|
| Session lock | `session.json.lock`, an empty file | take, wait, time out, break a stale one, release | `session.py` `_session_lock`, `save_session` |
| Session store | `session.json`: the active problem's desk at the top level, the other problems' under `desks` | load, switch, reset, save (merging other desks), salvage from a bad or retired file | `session.py` |
| Practice | one desk (level, cleared, start, minutes), and the command's copy of it | start, start --reset, start --back, run, submit, console, vscode | `cli.py`, `session.py`, `console.py` |
| Work file | `work/<problem>/<lang>/work.<ext>` and the spec beside it | slice from the stub, merge missing methods, put in docs, replace | `session.py` `ensure_work_copy`, `workstub.py` |
| VS Code workspace | `workspace/<problem>-<lang>/`: public traces, specs, tests, README, tasks | refresh, write | `workspace.py` |
| Console | the session it loaded, latches for the banner and TIME UP, keys typed and not read | the keys 1 to 6 and their questions, reload, poll | `console.py` |
| Runner | temporary directories, one child process | run a recipe, read the adapter's report, judge it, clean up | `runner.py`, `_pyrun.py` |
| Packs | `meta.json` of each language, a copy of it in memory | load, check, resolve a tool, lay out | `packspec.py` |
| Traces, catalog | read only | load public and hidden cases, look up languages and problems | `traces.py`, `catalog.py` |
| Terminal, test generators | none | format | `term.py`, `javatest.py`, `pythontest.py` |

They interact through files only. `cli.py` and `console.py` load the session,
call the runner, then `session.py` to save, then `ensure_work_copy` and
`refresh_workspace`. What one command has in memory is a copy: another command,
the user's editor or a kill may come between any two file operations.

What is hard in it:

* *Interleaving.* A run may take 30 s per suite, a console stays open for
  hours; each saves the desk it loaded before. The work file is read, merged
  and replaced while an editor is open on it.
* *Crashes.* A command may be killed holding the lock, or between writing the
  work file, the workspace and the session.
* *Time.* The practice clock may run out while the traces run. The lock is
  judged by the age of a file.
* *Input.* The console's menu reads single bytes from the terminal, its
  questions read a buffered stream on top of it; keys come at any time.
* *Other programs.* A run starts the user's code in a child, which may hang, end
  its process, print anything, or leave a process of its own behind.
* *Reading code without a parser.* A merge decides by regular expressions,
  braces and indentation what a file has that somebody else writes, in each
  language of the catalog.
* *Order.* submit merges the work file first and opens the level after it;
  going back rewrites the work file first and drops the level after it.

Correctness, by component. Lock: two saves do not overlap, a waiter ends, a
dead lock goes away. Store: a save changes one desk and loses none. Practice:
an open level was earned; levels move one at a time; a level opens over its
methods; a command that ends leaves the traces of the open level in the
workspace, or says that it could not; what the user solved and the
clock that is running are left alone unless a command says otherwise. Work file:
a merge adds each method of its level once, in the class, and touches
nothing else; of the locked levels it shows at most the next one, between a
submit's write and its save. Workspace:
what it shows agrees with itself and with the desk. Console: it does what was
typed where it was asked, and says when time is up. Runner: a pass is of one
text that answers every case; a run ends, leaves no child, and leaves files only
where the system refuses to remove them or before the `try` of `run_python`.
Packs: an edit of a pack is seen by the next load.

`PROJECT.json` lists all of this with its source lines: the components, the
hazards and the properties that cover each.

## Modules

`Desks`, `Ladder` and `Verdict` are abstract: what the store, practice and a run
promise. The others follow the code; `PROJECT.json` maps each definition to its lines.

### SessionLock

One action per system call of `_session_lock` that another command can see:
`Enter` (`os.open` with `O_EXCL`), `Overdue` (the open failed and the deadline
is over), `FindStale` or `GiveUp` (`stat`), `Break` (`unlink`), `Release` (the
`finally` in `save_session`). The lock file has no content: `owner` is known to
the observer only, and `Break` and `Release` remove whatever file is there, as
`unlink` does. `Crash` kills a command and leaves its file; the process name
then stands for the next command.

Time is counted in ticks: `age` of the lock file and `waited` of each command.
`Tick` does not let a live holder keep the lock longer than `MaxHold`, and
`LockAssumption` says `MaxHold <= StaleAfter`. The code assumes the same when it
calls a 5 s old lock stale; it cannot check it.

### Desks, SessionStore

`SessionStore` extends the lock with the file and with the session dict that
each command has in memory. What one desk holds is opaque here. `file.top` is
the desk spelled by the top-level fields, `file.parked` the `desks` object,
which the code leaves out when it would hold the active problem only
(`Written`). A file is *good*, *bad* (`load_session` refuses it) or *retired*
(its language left the catalog). Operations that end in `save_session` differ
in how they get the session that they save: `Update` (any change to the
command's own desk), `StartOther` (another problem, or one whose language was
retired), `Reset` (from whatever can be salvaged). The save is then `Lock`,
`ReadFresh` (`_desks_for_save`), `Replace`, `Unlock`; a save that fails inside
the lock goes straight to `Unlock`.

`Desks` is the store that users assume: each save is one atomic `Put` of one
problem's desk. `Promised` says that `SessionStore` implements it.

### Ladder, Practice

`Practice` is one problem in one language: the desk, the work file, the
workspace's `cases.json`, and commands that interleave step by step. A step is
what happens between two file operations of the command: `refresh`, `public`
run, `record`, `hidden` run and its `record`, `merge` (read the work file),
`write` it, `shelve` (the workspace), `unlock`, and so on. `job[p].desk` is the
command's copy of the desk; every save writes that whole copy, as
`save_session` does. That each save is atomic is what `SessionStore` shows.

`Fault` ends a command anywhere, which stands for a kill, a save that times out
on the lock, or an I/O error. Inside a call that writes the workspace it may
come between two files (`CasesLeft`). `Edit` is the user's editor, or the user deleting
the file; it comes between any two steps.

Abstractions:

* A work file is, for each level, whether the methods that level adds are
  missing, stubs or solved; `NoClass` is a file without the problem's class.
  Text, symlinks and languages are not in it.
* `--kind stub` behaves like an unsolved work file, so `Kinds` has only `work`
  and `solution`. Every level has hidden traces, as every problem in the
  repository has. A solved file may still fail the hidden traces (`HiddenRun`).
* Of the workspace there is only the level whose public traces `cases.json` has
  (`cases`, or `NoCases` for a folder that was made and not filled), because that
  is what `refresh_workspace` looks at. A call is one step with three ends: it
  writes (`WorkspaceWritten`), it fails at any of its files, or for want of a work
  file as in python3 and java (`WorkspaceRefused`, after which `noted` says that
  the user is told), or the command dies in it (`Fault`). The two that stop
  half-way leave the old traces, the new ones or an empty folder. `cases.json`
  is replaced first and atomically, so these are all there are; what they leave
  of the other files is `Workspace`'s subject, and `EndsAtTheOpenLevel` says
  nothing of them.
* `earned` and `noted` are history: `noted` only decides whether `start --back`
  goes on after its workspace was written.

`Ladder` is the promise to somebody who uses one command at a time.

### Workspace

`Workspace` spells out the folder of which `Practice` has `cases.json` only:
a folder for each language, file by file, and the calls of `refresh_workspace`
(`CopyWork`, `Look`) and `write_workspace` (`MakeFolder`, `WriteFile` for each
file in the code's order, `Unlink` and `LinkWork` for `_link_or_copy`). Each
step is one file operation that another command, the editor or a kill can come
after. The commands are there up to where they make the call: which of the two
functions, for which level and mark, and whether the level is saved before it
or, by a submit, after it (`Return`).

Abstractions: a file that spells a level is that level, and `copies` is the set
of levels whose specs lie in the folder. Generated text is not in it, nor the
files that depend on neither level nor language mark (`pom.xml`, the adapter,
settings), nor the `spec.md` beside the Java link. Languages without
generated tests are those outside `Tested`. A file is replaced
atomically, as `_replace_text` does; the two `write_text` of a plain copy are
taken as atomic as well. How the desk moves is simplified: any command may come
whenever its guard on the level holds, because the clock and the runs before it
are `Practice`'s subject.

### Console

`Console` is the live menu of one console on a terminal. `pc` is where
`loop_console` is: `top` (reload, banner: `LoopTop`), `prompt` (`_read_choice`:
`Poll` each second without a key, `Redraw` for Enter, `ReadKey`), the questions
(`AnswerUnlock`, `AnswerReset`, and for a switch `AskAgain`, `SwitchNothing`,
`Switch`, `SwitchCut`), and `go` (`Dispatch` and what follows it). `session` is
the console's copy, `file` the desk in `session.json`, which other commands
change at any time (`OtherSaves`).

Keys are in two queues. `tty` is what the terminal has; `buf` is what the text
stream read from it and did not hand out. The menu takes from `tty` only, the
questions from `buf` first. Entering the menu or the unlock question empties
`tty` (`setcbreak` flushes), `_drain_pending` empties `tty`, and nothing empties
`buf`. `fresh` marks a key that was typed at the prompt that reads it.

`timeUp` is the latch `shown_time_up`, `shown` the banner key. `told`, `looked`
and `stale` are history, no guard reads them except the bound on `OtherSaves`.

Abstractions: a word that a question knows (`back`, `all`) is one key. A run, a
submit or a switch is one step, whose outcomes are those of `Practice` without
its steps. The session file can be read.

### Verdict, PackMeta, Runner

`Runner` is one run of the work file, by a hook (Python), a script or a build,
and there may be two in a row. `at` is where the command is: it loads the pack
(`KnowPack`), loads it again for the recipe (`TakeRecipe`), finds the source
(`CheckSource`), then what its kind of recipe does: `FillCases` for the hook when
cases are given to it, `FindTool` for a script,
`LayOut` and `Build` for a build; `Launch` starts the child and `Collect` or
`TimeOut` ends the wait. `End` is what the `with` and `finally`
around these steps do: they remove what the run made, and where the system
refuses (`stuck`), `run_python` passes over it and the `with` of a directory ends
the run with an error. `Stop` is an end outside of them: `run_python` makes and
fills its file of cases before the `try`, so that a write that fails, or Ctrl-C,
leaves the file (`FillCases`, `Unguarded`). The child reads the text once (`ChildLoads`), judges the
cases, reports and exits; its steps interleave with the command's, with the
user who saves the file or presses Ctrl-C, and with `Tick`.
`RefusesReport` is `report_from_proc`.

`PackMeta` is the cache of `load_meta`: it asks for the file's time in one step
(`AskTime`) and reads the file in another (`Load`), and the author of the pack
may save in between.

`Verdict` is the run as its user sees it: it looks at the file once, and says
pass or fail of that text.

Abstractions: a text is what it does to the run (`TextRecord`); a case is right,
wrong, never ends, or ends the process. A case with no calls is a wrong one. An
adapter of a pack may lose cases, in the count or in the list, but it invents
none, and what the user's code prints after the report is not a second report.
Each load of the pack may find it refused or broken. Values and their comparison
are not in it.

### Lines, PyWork, RubyWork, BraceWork, CommentWork, WorkFile

`WorkFile` is the text of one work file over the levels: `Start` and `Submit`
merge the stub into it, `Rewrite` slices it anew, the user adds lines, writes
the bodies, changes docs and damages the file. `Submit` and `Rewrite` leave the
level as it is and put the new one in `toSave`; `SaveLevel` saves it, and `Stop`
is a command that is killed before it does, or whose save fails. In between the
editor may come. `Submit` asks nothing of the file but that it can be merged: the
reference solution may have passed in its place. `ahead` is history: a submit
wrote the file of the next level and nothing has saved that level, or cut the file
again, since. No start takes those methods out, so `ShowsOnlyUnlocked` allows
them. One command is under way at a time, in one language. `family` chooses which of the
algorithms of `workstub.py` runs: Python (`PyWork`), Ruby (`RubyWork`), Java or
JavaScript and TypeScript (`BraceWork`), or a comment that lists the API, which
all other languages have (`CommentWork`; `block` is the comment of OCaml).

A file is a sequence of lines. A line has its indentation, a kind (a head of a
method, a brace on its own line, a quoted brace, an end, a heredoc, ...) and the
name in it (`Lines`). The kinds are those that one of the regular expressions or
one of the scans treats differently from another. In each module two readings
stand side by side: what the code of `workstub.py` takes the lines for
(`MissingFrom`, `Region`, `MethodBlock`, `ClassClose`, ...), and what the language
itself does (`Parses`, `Visible`, `Methods`, `Body`), which is independent of the
first and counts openers and ends where the code looks at the width of a line.
The properties compare the two.

The translation was compared with the functions themselves: every state of two
instances was written out as text and each `Start`, `Submit` and `Rewrite` of
them, some 14,000, was done by `workstub.py` too, with the same result. So were
35,000 more of Java, with all its idioms and plain block comments: the same
result, but where the model has `torn`, and there the text is cut.

In Java the place of a Javadoc is found as the code finds it (`DocLine`): behind
any comment, back to the last `/**`, whosever that is. `InjectDocs` replaces from there to the
next `public`. Two docs that go to one place cut each other; what they leave
depends on their lengths, and `torn` stands for it.

Abstractions: blank lines and the wording of bodies and docs (the code knows the
old doc of one method, here any may have one); a method is one of
three, with a place in the stub, in the alphabet and among the levels that are
all different.

## Runs

Each property has a mutant in `PROJECT.json`: a plausible mistake in the code
that makes TLC find the property violated. The mistakes stand beside the
operators they spoil, marked *Mistake*.

| Run | Bounds | Question |
|---|---|---|
| `lock` | 3 commands, deadline 1, stale after 2, hold up to 2, 2 kills | Do two saves ever overlap before a kill, does anybody remove a lock he did not make, does a waiting save end, does a dead lock go away? |
| `store` | 2 commands, 2 problems, 2 desks, 2 kills, after the first of which one command works at a time (`AloneAfterKill`), any file that saves leave, also spoiled | Is every save an atomic `Put`, also when a command is killed anywhere? |
| `store_crash` | 2 commands, 1 kill | Finding: a desk is dropped. |
| `practice_alone` | 1 command at a time of every kind, 3 levels, clock to 2, 1 fault, any number of workspace writes that fail, an editor that solves levels in order, deletes or spoils the file | Do levels, file, traces and clock move together? |
| `practice_stale_run` | reset, submit and run, 2 interleaved | Finding: a run brings a level back. |
| `workspace_alone` | 1 command at a time, 2 languages (one without tests), 3 levels, 2 texts, no symlinks, 1 kill or error | Do the folder's files agree with each other, the desk and the work file? |
| `workspace_torn` | 1 command at a time, 2 levels, 1 kill or error | Finding: a refresh does not repair. |
| `console` | 2 places, 2 levels, a clock of 1, 8 keys, 2 of them waiting | Does only what was typed at the menu start a command, does a level open unasked, is TIME UP told? |
| `console_answer` | 1 place, 2 levels, 7 keys, 2 of them waiting | Finding: a left-over key answers the next question. |
| `runner` | 2 runs, 3 recipes of which one is refused or broken, 1 edit of the pack, 5 texts, 3 cases of which 2 count, a time limit of 1 | Is a pass a pass, does a run end, what does it leave, is a whole report judged, is the file looked at once, is the pack current? |
| `workfile` | Python, Ruby, Java, JavaScript, line comments; 3 methods, 3 levels, 2 edits of up to 8 idioms, any number of stopped commands | Does a merge keep what is there, add what is missing, settle, and show no more? |
| `workfile_broken` | Java with a string that quotes a method's head, OCaml; 1 edit | Finding: a merge breaks a file that compiled. |

Why these are enough to be worth running. Three commands are what the lock
needs for one to hold, one to break and one to slip in between; stale after 2
with a hold up to 2 puts the live holder right at the border. Two problems are
the active one and another; two desks tell a stale copy from a new one. Three
levels are a first, a middle and a last; `Minutes = {1}` against a default of 2
makes `--minutes` shorten a running clock to nothing. In the
workspace two languages are what a switch needs, and `c` is one whose folder has
no tests; two texts tell a stale copy from a current one; without symlinks the
copy is what the tests import, with them it is never stale. That a write also
repairs what interleaved writers mixed is proved (`WritesRepair`). At the
console, two waiting keys are an answer and one more; two places are what
a switch needs; another command saves at most once between two reads of the
file, because the console could not see more. For a run, three cases are one
of an earlier level, one of the level, and one above it that must not count; the
five texts are one that solves it, one that fails, one that prints after its report and leaves a
process behind, one that hangs or dies, and one that does not compile; the three recipes are the
kinds, with and without a build and a report of their own file; two runs are
what an edit of the pack between two loads needs. For a work file, three methods
are what it takes for stub, alphabet and levels to disagree in their order, and
two edits an idiom and a change to a doc, or two idioms. The idioms are those of
the repository's tests: helper and nested classes, comments, strings and heredocs
that name a method or look like an end, a brace on the next line. Beyond the
bounds the proofs take over.

Fairness. `LockFairness` is weak fairness of a waiting command's next step, of
the release and of the clock: the operating system runs every process and time
passes. Starting a command and killing one are never fair. `DeadLockGoes`
therefore has a condition of its own, that somebody keeps saving: a dead lock is
broken by a later save only. `Console` has weak fairness of the loop
and of a command that was chosen, because the console runs on when it can;
nothing makes the user type or the clock run. `TimeUpIsTold` supposes that the
user at last stops typing: one who holds Enter keeps `_read_choice` from looking
at the clock. `Runner` has weak fairness of the command's next step and of its clock
(`FairSpec`), and none of the child, of what the child started, or of the user:
`RunEnds` holds though the user's code never returns. `SessionStore`, `Practice`,
`Workspace` and `WorkFile` have safety properties only.

Deadlock is checked in every run.

## Proofs

Machine-checked, for every number of commands, problems, levels and every
delay. They rest on the assumptions named in the modules, and on nothing else:
`LockAssumption` (the constants differ; `MaxHold <= StaleAfter`),
`StoreAssumption` (`NoDesk` is no desk; the first file is one that saves leave),
`PracticeAssumption`, `WorkspaceAssumption`, `ConsoleAssumption`,
`RunnerAssumption` and `WorkFileAssumption` (types of the constants), `NoFileAssumption`
(no file is no text), `DataAssumption`, `JobAssumption`
and `CallAssumption` (the same; and the values for "nothing" are no records),
`MetaAssumption` (the same, for the pack), and `SuiteAssumption` (a case of a
level is in the file of that level or an earlier one, which the repository's
suites satisfy and `_load_suite_cases` relies on). One assumption is in an
action: each change of `meta.json` gives it a later time (`WriteMeta`).

* `SessionLockProofs`. `LockInv`: the file of a live command is no older than
  `MaxHold`; and until a kill the maker of the file is exactly the command
  inside, and nobody is on the way to unlink a file. The first part is what
  rules out the break of a live lock: `stat` finds it too young. From it
  `LockTypes`, `ExclusiveBeforeCrash`, `MakerRemoves`.
* `SessionStoreProofs`. `StoreInv` adds what commands have in memory: of other
  problems only what the file still has, and after `ReadFresh` exactly the
  file's desks with the command's own put in, because nobody else is inside to
  change the file. `Calm` is the condition under which that is so: no command
  was killed, or there is only one. From it `StoreTypes`, `MemoryStaysOnDisk`,
  `NoDeskIsDropped`, and `StoreImplementsDesks`: under `Calm`, `Replace` is
  `Put` and every other step a stutter.
* `PracticeProofs`. `EarnedInv` says of every copy of the desk that a command
  holds what `EveryLevelEarned` says of the file, and of a command that is about
  to raise the level that it earned the level below. It is needed because every
  save writes a copy. `LevelsAreEarned` holds for any number of interleaved
  commands, with faults and edits. `AloneInv` says that the one command's copy
  has the level and the mark of the desk in the file, unless the command starts
  over; it gives
  `PracticeClimbs`, the implementation of `Ladder`, for one command at a time.
  For the files, still for one command at a time, `TogetherInv`: what the
  command read of the work file is what is there when it writes, and what submit
  merged is there when it opens the level, unless the editor saved in between;
  its copy has the clock of the desk, except where it is about to start a new
  one; and where it can end, the traces in the workspace are those of the level
  at which it ends, unless the last call failed (`ShownFollows`). `AloneInv` alone
  has none of this, because it says nothing of the files. From it
  `LevelsOpenOverMethods`, `SolutionsAreKept`, `ClocksKeepRunning` and
  `CommandsEndAtTheOpenLevel`. `practice_stale_run` shows why the theorems say
  one command.
* `WorkspaceProofs`. `RepairInv` says of a call that began alone that it still is
  alone, and of one that writes that every file it has come past is at its
  level (`SoFar`, in the code's order). Kills and other writers before it do not
  matter, because a write looks at nothing that it finds. From it
  `WorkspaceTypes` and `WritesRepair`, for any number of commands.
  `PlainInv`: a call that began alone and has come past
  the copy left there the work file that it found. It gives `PlainCopies`, for
  any number of commands. `SteadyInv`, for one command: as long as no call
  stopped half-way, the files of a folder that nobody is writing are at one
  level. A refresh looks at `cases.json` only, so that it needs this to leave the
  others at the open level: `CallsReturnAtTheOpenLevel`.
* `ConsoleProofs`. `FreshAtPrompt`: at the menu every key in `tty` was typed
  there. `CopyIsCurrent`: from the menu to the command the copy is the file's
  desk, unless another command saved. `Unraised`: a submit that is under way
  was answered y, or its copy cannot be raised. From them `CommandsStayFresh`
  and `SubmitsAreAsked`; `ConsoleTypes` also bounds the keys that wait.
* `RunnerProofs`. `RunnerInv` has four parts. `MetaInv`: memory holds for the
  present time of the pack's file what that file holds, and nothing for a later
  time; without it a load between two edits could return an old recipe.
  `Stage`: which files and which child each step of the run has, so that what an
  end leaves can be told from the step it came at. `Judged`: what
  the child found right and wrong is so of the text that it read, and its report
  counts no more. From them `RunnerTypes`, `PacksAreCurrent`, `NothingStays`;
  `PassesSolve`, because a count that adds up to the number of cases, with
  nothing invented, leaves none out; `WholeIsJudged`; and `RunImplementsVerdict`,
  where the text seen is the one laid out by a build, else the one that the child
  read.

* `LinesProofs` has what all texts need: how `FlattenSeq` and `Picked` (some
  lines of a text, in their order) grow with a line; what a scan that jumps over
  lines visits (`VisitedIs`); and `Induct`, induction over the numbers of the lines
  of one text, stated for a set of numbers and so without an operator as parameter.
* `WorkFileProofs`. `IInv` says besides `ShowsOnlyUnlocked` that a command under
  way made the file for no higher level than it will save, and what the file is made
  of: lines of its family, where a stub's placeholder is indented and, but in Python,
  names nothing (`Fine`). A merge copies, moves and replaces lines that it finds, so that what
  it shows depends on this. The argument is a simulation. A scan of the language
  over a text (`Visible`, `Depth`) is a state that each line changes: whether a
  Python string is open, and whether the class is (`PyOdd`, `PyOpen`); how deep
  in the class braces and Ruby's openers are (`BrRel`, `RbRels`), and whether a
  Ruby comment or heredoc hides the line (`RbMode`).
  Two texts are alike (`PyLike`, `BrLike`, `RbLike`) when the scan is in the same
  state after both and the second declares no more than the first and a given
  set of methods. Adding the same line to two texts that are alike leaves them
  alike, so a change in the middle of a file matters only until its last line;
  and lines that close what they open (`BrBody`, `RbBody`) may be put in or taken
  out anywhere. Slices, the docs, the imports and the members that a merge
  inserts are then shown, one lemma each, to be such changes, with the methods of
  the open levels as the given set. From it `WorkFileTyped` and
  `OnlyUnlockedShown`, in every family, for every stub, number of levels and
  sequence of edits, also for files that do not parse: the user may have cut
  them off anywhere.
  For the languages whose stub is a comment, a merge is the insertion of one run
  of lines at one place (`CoGrown`), and the rest follows too:
  `CommentsAreCompleted` (`OpensEveryMethod`), `CommentsSettle` (`Settles`), and
  `LineCommentsAreKept` (`KeepsTheClass`), the last for line comments only,
  because `workfile_broken` refutes it in OCaml.

What the proofs of the work file assume. `LinesAssumption`: the stub has each of
the problem's methods once, and fewer than 100, because the numbers from there on
name the class and its constructor. `UserAssumption` is about the lines that a user adds or
writes: they are lines of the family, and none is a stub's placeholder. What he
writes in place of a placeholder (`IsBody`) closes what it opens and declares no
other method; in Python it has no line that only opens or closes a string, in Ruby
no heredoc or block comment. Other lines he may `Add` anywhere, whatever they
are, if the language then reads the same methods in the file: who types a locked
method himself is not shown it by the program.
`PlainJava`, a hypothesis of `WorkFileTyped` and `OnlyUnlockedShown` only: a Java
user's block comments are Javadoc. Behind a plain one a merge may cut a
stretch of any lines out of the file, and what the language then reads in the
rest nobody can say.

Only model-checked:

* The liveness properties `WaitEnds`, `DeadLockGoes`, `TimeUpIsTold` and
  `RunEnds`: fairness and what it enables are out of the prover's reach.
* `KeepsTheClass`, `OpensEveryMethod` and `Settles` in Python, Ruby, Java and
  JavaScript. No theorem can say them of every file: `workfile_broken` and the
  list below have idioms that break them. `workfile` checks them for the idioms of
  the repository's tests.

## What the runs found

* `store_crash`. `session.py:474` promises that two commands cannot drop each
  other's desks. After a kill left the lock behind, two waiters can both find it
  stale; the second removes the lock that the first has just made. Both save at
  once and one desk is lost. Until a kill, the proofs show that it cannot
  happen.
* `practice_stale_run`. A run unlocks nothing (`tests/test_session.py:150`), but
  it saves the copy of the desk that it loaded before the user's code ran. When
  the desk was reset or went back meanwhile, the run opens the higher level
  again. `LevelsAreEarned` shows the limit of the damage: that level had been
  earned before. For the same reason `Ladder` holds for one command at a time
  only.
* `workspace_torn`. A run and a start bring an out-of-date workspace up to date
  (`tests/test_console.py:2259`), but they look at `cases.json` alone, which is
  written first. A command that dies after it leaves the other files behind for
  good, until the folder is written for another reason. For the same reason the README
  and the tasks still offer to replay a last level
  (`tests/test_console.py:2548`) whose mark a switch of languages took away.
* `console_answer`. The question whether to unlock drains what follows the
  answer (`tests/test_console.py:1291`, with a `StringIO` for the terminal). On a
  terminal the rest is in the stream's own buffer by then, and it answers the
  next question: a `y` typed after an `n` confirms the next unlock, or the next
  reset as soon as Enter is pressed. `CommandsStayFresh` shows that it cannot
  start a command, because the menu does not read the stream.

* `workfile_broken`. A merge ignores what is in quotes
  (`tests/test_session.py:6213`, `CHANGELOG.md:84`), but the search for the place of
  a Javadoc does not: a Java string that quotes the head of a method, before
  that method, gets the Javadoc inside it at the next start. With
  `Families = {"block"}` the run shows the other way to break a file: in OCaml,
  bank_system's comment is closed on the line of its last method, the slice
  leaves a closer in its place, and the submit that opens the last level puts
  the line, with its closer, in front of that one.
  With `Families = {"java"}`, `Idioms <- CommentIdioms` and `MaxEdits = 3` it shows
  a third. A merge replaces an old Javadoc of the stub and leaves the
  rest of the file (`tests/test_session.py:95`). The doc of a method is taken to
  begin at the last `/**` before the comment in front of it. When the method
  after the one with the old doc has a plain block comment in place of its own
  doc, both docs are written over the same span, the second over a part of the
  first. With bank_system's stub and `/* mine */` before `getBalance` a start
  leaves the tail of a Javadoc outside any comment; with shorter docs code goes.

Also seen in the code, outside the palette of the runs, each confirmed by
calling the function: a Python `def` with a comment after its colon gets its doc
after the next line that ends with a colon, once more at each start; a nested
function or a `def self.m` counts as the method; in Ruby
`class Error < StandardError; end` and in Java a field `K.class` make the next
method invisible, so that it is added twice. Seven of the ten OCaml stubs do not
close their comment at all.

## Not modelled

* The terminal's wording and colours, the generated tests, the practice material
  and its reference solutions: no state of the program.
* Release, factory and generator scripts (`scripts/`, `factory/`): maintenance of
  the repository, outside the program.
* The lock's use of the wall clock: a clock that is set back or forward is
  excluded by `LockAssumption`.
* In a run: how two values are compared, the text of errors, the environment and
  tool hooks of .NET, Scala and Clojure, Windows, where the end of a killed
  child's pipe is waited for.
* In a pack: the validation rule by rule and the substitution of tokens; the
  check for tools when a session starts.
* In a work file: one problem in two languages at a time (going back slices the
  file of the present one; another one's keeps the locked methods), commands that
  overlap, a JavaScript class that is assigned (`const X = class`), a
  class whose brace is on the next line, symlinks, `spec.md`, and the migration
  of `work.java`.

See `PROJECT.json` for each component's status.

## Plan

What could come next, in this order:

1. `Workspace` implements what `Practice` has of the workspace; `WorkFile` its work
   file; `Console`'s commands composed with `Practice`.
2. The console's line mode, the menu line that Enter reprints, a session file
   that cannot be read.
3. The tool check of a start and the look-up of names (`catalog.py`).
