--------------------------- MODULE PracticeProofs --------------------------
(***************************************************************************)
(* Practice for every number of commands, levels, clock lengths and        *)
(* editors.  A command works on a copy of the desk that may be out of date *)
(* by the time it is saved.  The proof carries the claim along with the    *)
(* copies: each of them says no more than was earned, and a command that   *)
(* is about to raise the level, or to mark the desk cleared, has earned    *)
(* that with the copy it holds.                                            *)
(***************************************************************************)
EXTENDS Practice, TLAPS

-----------------------------------------------------------------------------
(* The inductive invariant *)

DeskEarned(d, won) ==
  /\ \A l \in 1..(d.level - 1) : l \in won
  /\ d.cleared => d.level = Top /\ Top \in won

Opening(j) == j.at = "unlock" \/ (j.at \in {"merge", "write", "shelve"} /\ j.cmd = "submit")

Starting(j) == j.at \in {"slice", "start over", "lock", "change", "reload", "save"}

GoingBack(j) ==
  j.at = "lock" \/ (j.at = "slice" /\ j.cmd \in {"back", "console back"})

JobEarned(j, won) ==
  /\ DeskEarned(j.desk, won)
  /\ Opening(j) => j.desk.level < Top /\ j.desk.level \in won
  /\ j.at = "clear" => j.desk.level = Top /\ Top \in won
  /\ Starting(j) => j.cmd # "submit"
  /\ GoingBack(j) => j.desk.level > 1
  /\ j.at = "write" => j.seen # NoClass

EarnedInv ==
  /\ PracticeTypeOK
  /\ EveryLevelEarned
  /\ \A p \in Proc : ~Idle(p) => JobEarned(job[p], earned)

-----------------------------------------------------------------------------
(* What the helpers return *)

LEMMA LevelsAreNumbers ==
  /\ 1 \in Levels /\ Top \in Levels
  /\ \A l \in Levels : l \in Nat /\ 1 <= l /\ l <= Top
<1>1. Top \in Nat /\ Top # 0
  BY PracticeAssumption
<1>. QED BY <1>1 DEF Levels

(* A clock length that was given, or the other one. *)
LEMMA GivenTypes ==
  ASSUME NEW m \in Minutes \cup {NoMinutes}, NEW other
  PROVE  Given(m, other) \in Minutes \cup {other}
BY DEF Given

(* A new desk starts at level 1 and claims nothing. *)
LEMMA NewDeskEarned ==
  ASSUME NEW m \in Minutes \cup {NoMinutes, Default}, NEW t \in 0..MaxNow, NEW won
  PROVE  NewDesk(m, t) \in Desk /\ DeskEarned(NewDesk(m, t), won)
BY LevelsAreNumbers DEF NewDesk, Given, Desk, DeskEarned

(* ensure_session changes the clock of a desk, never what it claims. *)
LEMMA EnsuredEarned ==
  ASSUME NEW d \in Desk \cup {NoDesk}, NEW m \in Minutes \cup {NoMinutes},
         NEW t \in 0..MaxNow, NEW won, d # NoDesk => DeskEarned(d, won)
  PROVE  Ensured(d, m, t) \in Desk /\ DeskEarned(Ensured(d, m, t), won)
<1>1. CASE d = NoDesk
  BY <1>1, NewDeskEarned DEF Ensured
<1>2. CASE d # NoDesk
  <2>. DEFINE length == [d EXCEPT !.minutes = Given(m, @)]
  <2>1. length \in Desk /\ length.level = d.level /\ length.cleared = d.cleared
    BY <1>2, GivenTypes DEF Desk
  <2>2. [length EXCEPT !.started = t] \in Desk
        /\ [length EXCEPT !.started = t].level = d.level
        /\ [length EXCEPT !.started = t].cleared = d.cleared
    BY <2>1 DEF Desk
  <2>3. Ensured(d, m, t) \in {length, [length EXCEPT !.started = t]}
    BY <1>2 DEF Ensured
  <2>. QED BY <1>2, <2>1, <2>2, <2>3 DEF DeskEarned
<1>. QED BY <1>1, <1>2

(* What a desk claims stays earned. *)
LEMMA EarnedGrows ==
  ASSUME NEW won, NEW more, won \subseteq more
  PROVE  /\ \A d : DeskEarned(d, won) => DeskEarned(d, more)
         /\ \A j : JobEarned(j, won) => JobEarned(j, more)
BY DEF DeskEarned, JobEarned

(* slice_stub and merge_unlocked_methods make work files. *)
LEMMA WorkTypes ==
  ASSUME NEW k
  PROVE  /\ Sliced(k) \in Source
         /\ \A w \in Source : Merged(w, k) \in Source
BY DEF Sliced, Merged, Source

-----------------------------------------------------------------------------
(* A step of one command *)

(* A step that replaces one command's record, and perhaps the desk, by     *)
(* values that claim no more than was earned keeps the invariant.          *)
LEMMA OneCommand ==
  ASSUME EarnedInv, NEW p \in Proc, NEW j \in Job \cup {NoJob},
         job' = [job EXCEPT ![p] = j],
         j # NoJob => JobEarned(j, earned'),
         earned \subseteq earned', earned' \subseteq Levels,
         desk' = desk \/ (desk' \in Desk /\ DeskEarned(desk', earned')),
         now' \in 0..MaxNow, work' \in WorkFile,
         cases' \in Levels \cup {NoCases, NoWorkspace}, noted' \in BOOLEAN,
         faults' \in 0..MaxFaults
  PROVE  EarnedInv'
<1>1. PracticeTypeOK'
  BY DEF EarnedInv, PracticeTypeOK
<1>2. EveryLevelEarned'
  <2>1. CASE desk' = desk
    BY <2>1 DEF EarnedInv, EveryLevelEarned
  <2>2. CASE DeskEarned(desk', earned')
    BY <2>2 DEF DeskEarned, EveryLevelEarned
  <2>. QED BY <2>1, <2>2
<1>3. ASSUME NEW q \in Proc, ~Idle(q)'
      PROVE  JobEarned(job[q]', earned')
  <2>1. CASE q = p
    BY <1>3, <2>1 DEF EarnedInv, PracticeTypeOK, Idle
  <2>2. CASE q # p
    <3>1. job'[q] = job[q]
      BY <2>2 DEF EarnedInv, PracticeTypeOK
    <3>. QED BY <1>3, <3>1, EarnedGrows DEF EarnedInv, Idle
  <2>. QED BY <2>1, <2>2
<1>. QED BY <1>1, <1>2, <1>3 DEF EarnedInv

LEMMA Holding ==
  ASSUME EarnedInv, NEW p \in Proc, ~Idle(p)
  PROVE  /\ job[p] \in Job
         /\ JobEarned(job[p], earned)
         /\ DeskEarned(job[p].desk, earned)
         /\ job[p].desk \in Desk
         /\ job[p].desk.level \in Levels
<1>1. job[p] \in Job
  BY DEF EarnedInv, PracticeTypeOK, Idle
<1>2. JobEarned(job[p], earned)
  BY DEF EarnedInv
<1>. QED BY <1>1, <1>2 DEF Job, Desk, JobEarned

(* A command that ends leaves the desk as it was, or saves a desk that was *)
(* earned.                                                                 *)
LEMMA Ending ==
  ASSUME EarnedInv, NEW p \in Proc, Finished(p),
         earned \subseteq earned', earned' \subseteq Levels,
         desk' = desk \/ (desk' \in Desk /\ DeskEarned(desk', earned')),
         now' = now, work' = work,
         cases' \in Levels \cup {NoCases, NoWorkspace}, noted' \in BOOLEAN,
         faults' \in 0..MaxFaults
  PROVE  EarnedInv'
<1>1. now' \in 0..MaxNow /\ work' \in WorkFile
  BY DEF EarnedInv, PracticeTypeOK
<1>. QED BY <1>1, OneCommand DEF Finished

(* A command that goes on to another step with the copy it holds.          *)
LEMMA GoingOn ==
  ASSUME EarnedInv, NEW p \in Proc, ~Idle(p), NEW step \in Steps, Go(p, step),
         earned \subseteq earned', earned' \subseteq Levels,
         desk' = desk \/ (desk' \in Desk /\ DeskEarned(desk', earned')),
         now' = now, work' \in WorkFile, faults' = faults,
         cases' \in Levels \cup {NoCases, NoWorkspace}, noted' \in BOOLEAN,
         Opening([job[p] EXCEPT !.at = step])
           => job[p].desk.level < Top /\ job[p].desk.level \in earned',
         step = "clear" => job[p].desk.level = Top /\ Top \in earned',
         Starting([job[p] EXCEPT !.at = step]) => job[p].cmd # "submit",
         GoingBack([job[p] EXCEPT !.at = step]) => job[p].desk.level > 1,
         step # "write"
  PROVE  EarnedInv'
<1>. DEFINE j == [job[p] EXCEPT !.at = step]
<1>1. j \in Job /\ j.desk = job[p].desk /\ j.at = step /\ j.cmd = job[p].cmd
  BY Holding DEF Job
<1>2. DeskEarned(j.desk, earned')
  BY <1>1, Holding, EarnedGrows
<1>3. JobEarned(j, earned')
  BY <1>1, <1>2 DEF JobEarned
<1>4. now' \in 0..MaxNow /\ faults' \in 0..MaxFaults
  BY DEF EarnedInv, PracticeTypeOK
<1>. QED BY <1>1, <1>3, <1>4, OneCommand DEF Go

(* A command that starts, with a copy that was earned.                     *)
LEMMA Taking ==
  ASSUME EarnedInv, NEW p \in Proc, NEW c \in Commands, NEW step \in Steps,
         NEW d \in Desk, NEW m \in Minutes \cup {NoMinutes},
         Take(p, c, step, d, m), DeskEarned(d, earned),
         step \in {"save", "slice", "merge"}, c # "submit",
         c \in {"back", "console back"} => d.level > 1,
         UNCHANGED <<now, desk, work, cases, noted, faults, earned>>
  PROVE  EarnedInv'
<1>. DEFINE j == [cmd |-> c, at |-> step, desk |-> d, minutes |-> m, kind |-> "work",
                  level |-> d.level, ok |-> FALSE, seen |-> NoWork, edited |-> FALSE]
<1>1. j \in Job
  BY DEF Job, Desk, WorkFile
<1>2. JobEarned(j, earned)
  BY DEF JobEarned, Opening, Starting, GoingBack
<1>3. /\ now' \in 0..MaxNow /\ work' \in WorkFile /\ faults' \in 0..MaxFaults
      /\ cases' \in Levels \cup {NoCases, NoWorkspace} /\ noted' \in BOOLEAN
      /\ earned' \subseteq Levels
  BY DEF EarnedInv, PracticeTypeOK
<1>. QED BY <1>1, <1>2, <1>3, OneCommand DEF Take

LEMMA LevelToOpenTypes ==
  ASSUME EarnedInv, NEW p \in Proc, ~Idle(p), job[p].at \in {"merge", "write", "shelve"}
  PROVE  LevelToOpen(job[p]) \in Levels
<1>1. job[p].cmd = "submit" => job[p].desk.level < Top
  BY Holding DEF JobEarned, Opening
<1>2. job[p].desk.level \in Levels
  BY Holding
<1>3. Top \in Nat
  BY LevelsAreNumbers
<1>. QED BY <1>1, <1>2, <1>3 DEF LevelToOpen, Levels

(* A call for the workspace, done or failed, leaves the traces of a level. *)
LEMMA CallTypes ==
  ASSUME EarnedInv, NEW p \in Proc, ~Idle(p),
         job[p].at \in {"refresh", "shelve", "rewrite"}
  PROVE  /\ CasesLeft(job[p]) \subseteq Levels \cup {NoCases, NoWorkspace}
         /\ WorkspaceWritten(job[p]) \/ WorkspaceRefused(job[p])
              => cases' \in Levels \cup {NoCases, NoWorkspace} /\ noted' \in BOOLEAN
<1>1. LevelToShow(job[p]) \in Levels
  <2>1. CASE job[p].at = "shelve"
    BY <2>1, LevelToOpenTypes DEF LevelToShow
  <2>2. CASE job[p].at # "shelve"
    BY <2>2, Holding DEF LevelToShow
  <2>. QED BY <2>1, <2>2
<1>2. cases \in Levels \cup {NoCases, NoWorkspace}
  BY DEF EarnedInv, PracticeTypeOK
<1>3. CasesLeft(job[p]) \subseteq Levels \cup {NoCases, NoWorkspace}
  BY <1>1, <1>2 DEF CasesLeft
<1>. QED BY <1>1, <1>2, <1>3 DEF WorkspaceWritten, WorkspaceRefused

(* A call that fails is told. *)
LEMMA CallShows ==
  ASSUME NEW j, WorkspaceWritten(j) \/ WorkspaceRefused(j), ~noted'
  PROVE  cases' \in {NoWorkspace, LevelToShow(j)}
BY DEF WorkspaceWritten, WorkspaceRefused

-----------------------------------------------------------------------------
(* The invariant holds initially and is kept *)

LEMMA EarnedInit == Init => EarnedInv
<1>1. MaxNow \in Nat /\ MaxFaults \in Nat
  BY PracticeAssumption
<1>2. Init => noted \in BOOLEAN
  BY DEF Init
<1>3. Init => PracticeTypeOK
  BY <1>1, <1>2 DEF Init, PracticeTypeOK, WorkFile
<1>. QED BY <1>3 DEF Init, EarnedInv, EveryLevelEarned, Idle

(* The commands that are typed. *)
LEMMA EarnedBegin ==
  ASSUME EarnedInv, NEW p \in Proc, Begin(p)
  PROVE  EarnedInv'
<1>t. PracticeTypeOK /\ now \in 0..MaxNow /\ desk \in Desk \cup {NoDesk}
  BY DEF EarnedInv, PracticeTypeOK
<1>d. desk # NoDesk => desk \in Desk /\ DeskEarned(desk, earned)
  BY DEF EarnedInv, PracticeTypeOK, EveryLevelEarned, DeskEarned
<1>1. ASSUME NEW c \in {"run", "submit"}, NEW k \in Kinds, NEW l \in Levels,
             BeginRun(p, c, k, l)
      PROVE  EarnedInv'
  <2>. DEFINE j == [cmd |-> c, at |-> "refresh", desk |-> desk, minutes |-> NoMinutes,
                    kind |-> k, level |-> l, ok |-> FALSE, seen |-> NoWork,
                    edited |-> FALSE]
  <2>1. j \in Job
    BY <1>1, <1>d DEF Job, BeginRun, Steps, WorkFile
  <2>2. JobEarned(j, earned)
    BY <1>1, <1>d DEF BeginRun, JobEarned, Opening, Starting, GoingBack
  <2>3. /\ now' \in 0..MaxNow /\ work' \in WorkFile /\ faults' \in 0..MaxFaults
        /\ cases' \in Levels \cup {NoCases, NoWorkspace} /\ noted' \in BOOLEAN
      /\ earned' \subseteq Levels
    BY <1>1, <1>t DEF PracticeTypeOK, BeginRun
  <2>. QED BY <1>1, <2>1, <2>2, <2>3, OneCommand DEF BeginRun
<1>2. ASSUME NEW c \in Commands, NEW m \in Minutes \cup {NoMinutes}, BeginStart(p, c, m)
      PROVE  EarnedInv'
  <2>1. Ensured(desk, m, now) \in Desk /\ DeskEarned(Ensured(desk, m, now), earned)
    BY <1>t, <1>d, EnsuredEarned
  <2>2. "save" \in Steps
    BY DEF Steps
  <2>. QED BY <1>2, <2>1, <2>2, Taking DEF BeginStart
<1>3. ASSUME NEW c \in Commands, NEW m \in Minutes \cup {NoMinutes}, BeginReset(p, c, m)
      PROVE  EarnedInv'
  <2>1. NewDesk(m, now) \in Desk /\ DeskEarned(NewDesk(m, now), earned)
    BY <1>t, NewDeskEarned
  <2>2. "slice" \in Steps
    BY DEF Steps
  <2>3. CASE c = "reset" /\ Take(p, c, "slice", NewDesk(m, now), m)
    BY <1>3, <2>1, <2>2, <2>3, Taking DEF BeginReset
  <2>4. CASE c \in {"console reset", "console all"} /\ desk # NoDesk
             /\ Take(p, c, "slice", desk, m)
    BY <1>3, <1>d, <2>2, <2>4, Taking DEF BeginReset
  <2>. QED BY <1>3, <2>3, <2>4 DEF BeginReset
<1>4. ASSUME NEW c \in Commands, NEW m \in Minutes \cup {NoMinutes}, BeginBack(p, c, m)
      PROVE  EarnedInv'
  <2>1. "slice" \in Steps
    BY DEF Steps
  <2>. QED BY <1>4, <1>d, <2>1, Taking DEF BeginBack
<1>5. ASSUME BeginConsoleVscode(p)
      PROVE  EarnedInv'
  <2>1. "merge" \in Steps /\ "console vscode" \in Commands
    BY <1>5 DEF Steps, BeginConsoleVscode, Take
  <2>. QED BY <1>5, <1>d, <2>1, Taking DEF BeginConsoleVscode
<1>. QED BY <1>1, <1>2, <1>3, <1>4, <1>5 DEF Begin

(* The steps of run and submit up to their verdict. *)
LEMMA EarnedRun ==
  ASSUME EarnedInv, NEW p \in Proc,
         \/ RefreshBeforeRun(p) \/ PublicRun(p) \/ RunFails(p) \/ RecordPublic(p)
         \/ HiddenRun(p) \/ RecordHidden(p) \/ MarkCleared(p) \/ UnlockNext(p)
  PROVE  EarnedInv'
<1>t. PracticeTypeOK
  BY DEF EarnedInv
<1>s. {"public", "record", "hidden", "record hidden", "clear", "merge", "rewrite"} \subseteq Steps
  BY DEF Steps
<1>i. ~Idle(p)
  BY DEF RefreshBeforeRun, PublicRun, RunFails, RecordPublic, HiddenRun, RecordHidden,
         MarkCleared, UnlockNext, At
<1>h. /\ job[p] \in Job /\ JobEarned(job[p], earned) /\ DeskEarned(job[p].desk, earned)
      /\ job[p].desk \in Desk /\ job[p].desk.level \in Levels
  BY <1>i, Holding
<1>1. CASE RefreshBeforeRun(p)
  <2>1. cases' \in Levels \cup {NoCases, NoWorkspace} /\ noted' \in BOOLEAN
    BY <1>1, <1>i, CallTypes DEF RefreshBeforeRun, At
  <2>2. work' \in WorkFile /\ earned' = earned /\ earned' \subseteq Levels
    BY <1>1, <1>t DEF RefreshBeforeRun, PracticeTypeOK
  <2>. QED BY <1>1, <1>i, <1>s, <1>h, <2>1, <2>2, GoingOn
           DEF RefreshBeforeRun, Opening, Starting, GoingBack, Job
<1>2. CASE PublicRun(p)
  <2>. DEFINE j == [job[p] EXCEPT !.ok = CanPass(p), !.at = "record"]
  <2>1. CanPass(p) \in BOOLEAN
    BY DEF CanPass, Passes
  <2>2. j \in Job /\ j.desk = job[p].desk /\ j.at = "record" /\ j.cmd = job[p].cmd
    BY <1>h, <1>s, <2>1 DEF Job
  <2>3. JobEarned(j, earned)
    BY <1>h, <2>2 DEF JobEarned, Opening, Starting, GoingBack
  <2>4. job' = [job EXCEPT ![p] = j]
    BY <1>2 DEF PublicRun
  <2>. QED BY <1>2, <1>t, <2>2, <2>3, <2>4, OneCommand DEF PublicRun, PracticeTypeOK
<1>3. CASE RunFails(p)
  BY <1>3, <1>t, Ending DEF RunFails, PracticeTypeOK
<1>4. CASE RecordPublic(p)
  <2>1. CASE ~job[p].ok
    BY <1>4, <1>t, <1>h, <2>1, Ending DEF RecordPublic, PracticeTypeOK, Save
  <2>2. CASE job[p].ok /\ WantsHidden(job[p])
    BY <1>4, <1>t, <1>i, <1>s, <1>h, <2>2, GoingOn
       DEF RecordPublic, PracticeTypeOK, Save, Opening, Starting, GoingBack, Job
  <2>3. CASE job[p].ok /\ ~WantsHidden(job[p])
    <3>1. StepAfterPass(job[p]) = "done"
      <4>1. job[p].cmd # "submit" /\ job[p].desk.level # Top
        BY <2>3 DEF WantsHidden
      <4>2. job[p].level \in Nat /\ Top \in Nat /\ job[p].level <= Top
        BY <1>h, LevelsAreNumbers DEF Job
      <4>. QED BY <4>1, <4>2 DEF StepAfterPass
    <3>2. Finished(p)
      BY <1>4, <2>3, <3>1 DEF RecordPublic, GoOn
    <3>. QED BY <1>4, <1>t, <1>h, <3>2, Ending DEF RecordPublic, PracticeTypeOK, Save
  <2>. QED BY <2>1, <2>2, <2>3
<1>5. CASE HiddenRun(p)
  <2>1. PICK passes \in BOOLEAN :
          job' = [job EXCEPT ![p].ok = passes, ![p].at = "record hidden"]
    BY <1>5 DEF HiddenRun
  <2>. DEFINE j == [job[p] EXCEPT !.ok = passes, !.at = "record hidden"]
  <2>2. j \in Job /\ j.desk = job[p].desk /\ j.at = "record hidden" /\ j.cmd = job[p].cmd
    BY <1>h, <1>s DEF Job
  <2>3. JobEarned(j, earned)
    BY <1>h, <2>2 DEF JobEarned, Opening, Starting, GoingBack
  <2>4. job' = [job EXCEPT ![p] = j]
    BY <2>1
  <2>. QED BY <1>5, <1>t, <2>2, <2>3, <2>4, OneCommand DEF HiddenRun, PracticeTypeOK
<1>6. CASE RecordHidden(p)
  <2>1. earned \subseteq earned' /\ earned' \subseteq Levels
    BY <1>6, <1>h, <1>t DEF RecordHidden, Job, PracticeTypeOK
  <2>2. desk' \in Desk /\ DeskEarned(desk', earned')
    BY <1>6, <1>h, <2>1, EarnedGrows DEF RecordHidden, Save
  <2>3. CASE Finished(p)
    BY <1>6, <1>t, <2>1, <2>2, <2>3, Ending DEF RecordHidden, PracticeTypeOK
  <2>4. CASE job[p].ok /\ Go(p, "clear") /\ StepAfterPass(job[p]) = "clear"
    <3>1. job[p].level = job[p].desk.level /\ job[p].level = Top
      <4>1. job[p].level \in Nat /\ Top \in Nat /\ job[p].level <= Top
        BY <1>h, LevelsAreNumbers DEF Job
      <4>. QED BY <2>4, <4>1 DEF StepAfterPass
    <3>2. Top \in earned'
      BY <1>6, <2>4, <3>1 DEF RecordHidden, Earns
    <3>. QED BY <1>6, <1>t, <1>i, <1>s, <1>h, <2>1, <2>2, <2>4, <3>1, <3>2, GoingOn
             DEF RecordHidden, PracticeTypeOK, Opening, Starting, GoingBack, Job
  <2>5. CASE job[p].ok /\ Go(p, "merge") /\ StepAfterPass(job[p]) = "merge"
    <3>1. /\ job[p].level = job[p].desk.level /\ job[p].level < Top
          /\ job[p].cmd = "submit" /\ Running(job[p].desk, now)
      <4>1. job[p].level \in Nat /\ Top \in Nat /\ job[p].level <= Top
        BY <1>h, LevelsAreNumbers DEF Job
      <4>. QED BY <2>5, <4>1 DEF StepAfterPass
    <3>2. job[p].desk.level \in earned'
      BY <1>6, <2>5, <3>1 DEF RecordHidden, Earns
    <3>. QED BY <1>6, <1>t, <1>i, <1>s, <1>h, <2>1, <2>2, <2>5, <3>1, <3>2, GoingOn
             DEF RecordHidden, PracticeTypeOK, Opening, Starting, GoingBack, Job
  <2>6. StepAfterPass(job[p]) \in {"done", "clear", "merge"}
    <3>1. job[p].level \in Nat /\ Top \in Nat /\ job[p].level <= Top
      BY <1>h, LevelsAreNumbers DEF Job
    <3>. QED BY <3>1 DEF StepAfterPass
  <2>. QED BY <1>6, <2>3, <2>4, <2>5, <2>6 DEF RecordHidden, GoOn
<1>7. CASE MarkCleared(p)
  <2>. DEFINE done == [job[p].desk EXCEPT !.cleared = TRUE]
              j == [job[p] EXCEPT !.desk = done, !.at = "rewrite"]
  <2>1. job[p].desk.level = Top /\ Top \in earned
    BY <1>7, <1>h DEF MarkCleared, At, JobEarned
  <2>2. done \in Desk /\ DeskEarned(done, earned)
    BY <1>h, <2>1 DEF Desk, DeskEarned
  <2>3. j \in Job /\ j.desk = done /\ j.at = "rewrite"
    BY <1>h, <1>s, <2>2 DEF Job
  <2>4. JobEarned(j, earned)
    BY <2>2, <2>3 DEF JobEarned, Opening, Starting, GoingBack
  <2>5. job' = [job EXCEPT ![p] = j]
    BY <1>7, <1>h DEF MarkCleared
  <2>. QED BY <1>7, <1>t, <2>2, <2>3, <2>4, <2>5, OneCommand
           DEF MarkCleared, PracticeTypeOK, Save
<1>8. CASE UnlockNext(p)
  <2>. DEFINE next == [job[p].desk EXCEPT !.level = @ + 1, !.cleared = FALSE]
  <2>1. job[p].desk.level < Top /\ job[p].desk.level \in earned
    BY <1>8, <1>h DEF UnlockNext, At, JobEarned, Opening
  <2>2. job[p].desk.level \in Nat /\ job[p].desk.level >= 1 /\ Top \in Nat
    BY <1>h, LevelsAreNumbers
  <2>0. job[p].desk.level + 1 \in Levels
    BY <2>1, <2>2 DEF Levels
  <2>3. next \in Desk
    BY <1>h, <2>0 DEF Desk
  <2>4. DeskEarned(next, earned)
    BY <1>h, <2>1, <2>2 DEF Desk, DeskEarned
  <2>. QED BY <1>8, <1>t, <2>3, <2>4, Ending DEF UnlockNext, PracticeTypeOK, Save
<1>. QED BY <1>1, <1>2, <1>3, <1>4, <1>5, <1>6, <1>7, <1>8

(* The steps that merge the work file and write the workspace, which start, *)
(* vscode and submit share.                                                *)
LEMMA EarnedOpen ==
  ASSUME EarnedInv, NEW p \in Proc,
         SaveStart(p) \/ ReadWork(p) \/ WriteWork(p) \/ Shelve(p)
  PROVE  EarnedInv'
<1>t. PracticeTypeOK
  BY DEF EarnedInv
<1>s. {"merge", "write", "shelve", "unlock", "reload"} \subseteq Steps
  BY DEF Steps
<1>i. ~Idle(p)
  BY DEF SaveStart, ReadWork, WriteWork, Shelve, At
<1>h. /\ job[p] \in Job /\ JobEarned(job[p], earned) /\ DeskEarned(job[p].desk, earned)
      /\ job[p].desk \in Desk /\ job[p].desk.level \in Levels
  BY <1>i, Holding
<1>1. CASE SaveStart(p)
  <2>1. job[p].cmd # "submit"
    BY <1>1, <1>h DEF SaveStart, At, JobEarned, Starting
  <2>2. desk' \in Desk /\ DeskEarned(desk', earned') /\ earned' = earned
    BY <1>1, <1>h DEF SaveStart, Save
  <2>3. CASE Finished(p)
    BY <1>1, <1>t, <2>2, <2>3, Ending DEF SaveStart, PracticeTypeOK
  <2>4. CASE Go(p, "merge")
    BY <1>1, <1>t, <1>i, <1>s, <1>h, <2>1, <2>2, <2>4, GoingOn
       DEF SaveStart, PracticeTypeOK, Opening, Starting, GoingBack, Job
  <2>. QED BY <1>1, <2>3, <2>4 DEF SaveStart
<1>2. CASE ReadWork(p)
  <2>. DEFINE step == IF work = NoClass \/ Covers(work, LevelToOpen(job[p]))
                      THEN "shelve" ELSE "write"
              j == [job[p] EXCEPT !.seen = work, !.edited = FALSE, !.at = step]
  <2>1. CASE Finished(p)
    BY <1>2, <1>t, <2>1, Ending DEF ReadWork, PracticeTypeOK
  <2>2. CASE job' = [job EXCEPT ![p] = j]
    <3>1. work \in WorkFile
      BY <1>t DEF PracticeTypeOK
    <3>2. step \in Steps /\ step \in {"shelve", "write"}
      BY <1>s
    <3>3. /\ j \in Job /\ j.desk = job[p].desk /\ j.at = step /\ j.cmd = job[p].cmd
          /\ j.seen = work
      BY <1>h, <3>1, <3>2 DEF Job
    <3>4. job[p].cmd = "submit" => job[p].desk.level < Top /\ job[p].desk.level \in earned
      BY <1>2, <1>h DEF ReadWork, At, JobEarned, Opening
    <3>5. JobEarned(j, earned)
      BY <1>h, <3>2, <3>3, <3>4 DEF JobEarned, Opening, Starting, GoingBack
    <3>6. UNCHANGED <<now, desk, work, cases, noted, faults, earned>>
      BY <1>2 DEF ReadWork
    <3>. HIDE DEF j
    <3>. QED BY <1>t, <2>2, <3>3, <3>5, <3>6, OneCommand DEF PracticeTypeOK
  <2>. QED BY <1>2, <2>1, <2>2 DEF ReadWork
<1>3. CASE WriteWork(p)
  <2>1. job[p].at = "write" /\ job[p].seen \in WorkFile /\ job[p].seen # NoClass
    BY <1>3, <1>h DEF WriteWork, At, JobEarned, Job
  <2>2. work' \in Source
    BY <1>3, <2>1, WorkTypes DEF WriteWork, WorkFile
  <2>3. job[p].cmd = "submit" => job[p].desk.level < Top /\ job[p].desk.level \in earned
    BY <1>h, <2>1 DEF JobEarned, Opening
  <2>. QED BY <1>3, <1>t, <1>i, <1>s, <1>h, <2>2, <2>3, GoingOn
           DEF WriteWork, PracticeTypeOK, WorkFile, Opening, Starting, GoingBack, Job
<1>4. CASE Shelve(p)
  <2>1. job[p].at = "shelve"
    BY <1>4 DEF Shelve, At
  <2>2. cases' \in Levels \cup {NoCases, NoWorkspace} /\ noted' \in BOOLEAN
    BY <1>4, <1>i, <2>1, CallTypes DEF Shelve
  <2>3. job[p].cmd = "submit" => job[p].desk.level < Top /\ job[p].desk.level \in earned
    BY <1>h, <2>1 DEF JobEarned, Opening
  <2>4. CASE Finished(p)
    BY <1>4, <1>t, <2>2, <2>4, Ending DEF Shelve, PracticeTypeOK
  <2>5. CASE job[p].cmd = "submit" /\ Go(p, "unlock")
    BY <1>4, <1>t, <1>i, <1>s, <1>h, <2>2, <2>3, <2>5, GoingOn
       DEF Shelve, PracticeTypeOK, Opening, Starting, GoingBack, Job
  <2>6. CASE job[p].cmd = "back" /\ Go(p, "reload")
    BY <1>4, <1>t, <1>i, <1>s, <1>h, <2>2, <2>6, GoingOn
       DEF Shelve, PracticeTypeOK, Opening, Starting, GoingBack, Job
  <2>. QED BY <1>4, <2>4, <2>5, <2>6 DEF Shelve
<1>. QED BY <1>1, <1>2, <1>3, <1>4

(* The steps of the resets and of going back a level. *)
LEMMA EarnedReset ==
  ASSUME EarnedInv, NEW p \in Proc,
         \/ SliceWork(p) \/ StartOver(p) \/ LockToLevel(p) \/ ChangeMinutes(p)
         \/ ReloadAfterBack(p) \/ Rewrite(p)
  PROVE  EarnedInv'
<1>t. PracticeTypeOK
  BY DEF EarnedInv
<1>s. {"start over", "lock", "rewrite", "change", "shelve", "save"} \subseteq Steps
  BY DEF Steps
<1>i. ~Idle(p)
  BY DEF SliceWork, StartOver, LockToLevel, ChangeMinutes, ReloadAfterBack, Rewrite, At
<1>h. /\ job[p] \in Job /\ JobEarned(job[p], earned) /\ DeskEarned(job[p].desk, earned)
      /\ job[p].desk \in Desk /\ job[p].desk.level \in Levels
      /\ job[p].minutes \in Minutes \cup {NoMinutes}
  BY <1>i, Holding DEF Job
<1>1. CASE SliceWork(p)
  <2>1. job[p].at = "slice" /\ job[p].cmd # "submit"
    BY <1>1, <1>h DEF SliceWork, At, JobEarned, Starting
  <2>2. CASE /\ job[p].cmd \in {"reset", "console all"}
             /\ work' = Sliced(1) /\ Go(p, "start over")
    <3>1. work' \in WorkFile
      BY <2>2, WorkTypes DEF WorkFile
    <3>. QED BY <1>1, <1>t, <1>i, <1>s, <1>h, <2>1, <2>2, <3>1, GoingOn
             DEF SliceWork, PracticeTypeOK, Opening, Starting, GoingBack, Job
  <2>3. CASE /\ job[p].cmd \in {"back", "console back"}
             /\ work' = Sliced(job[p].desk.level - 1) /\ Go(p, "lock")
    <3>1. work' \in WorkFile
      BY <2>3, WorkTypes DEF WorkFile
    <3>2. job[p].desk.level > 1
      BY <1>h, <2>1, <2>3 DEF JobEarned, GoingBack
    <3>. QED BY <1>1, <1>t, <1>i, <1>s, <1>h, <2>1, <2>3, <3>1, <3>2, GoingOn
             DEF SliceWork, PracticeTypeOK, Opening, Starting, GoingBack, Job
  <2>4. CASE /\ job[p].cmd = "console reset"
             /\ work' = Sliced(job[p].desk.level) /\ Go(p, "rewrite")
    <3>1. work' \in WorkFile
      BY <2>4, WorkTypes DEF WorkFile
    <3>. QED BY <1>1, <1>t, <1>i, <1>s, <1>h, <2>1, <2>4, <3>1, GoingOn
             DEF SliceWork, PracticeTypeOK, Opening, Starting, GoingBack, Job
  <2>. QED BY <1>1, <2>2, <2>3, <2>4 DEF SliceWork
<1>2. CASE StartOver(p)
  <2>. DEFINE fresh == NewDesk(IF job[p].cmd = "console all"
                               THEN job[p].desk.minutes ELSE job[p].minutes, now)
              j == [job[p] EXCEPT !.desk = fresh, !.at = "rewrite"]
  <2>1. fresh \in Desk /\ DeskEarned(fresh, earned)
    <3>1. job[p].desk.minutes \in Minutes \cup {NoMinutes, Default} /\ now \in 0..MaxNow
      BY <1>h, <1>t DEF Desk, PracticeTypeOK
    <3>. QED BY <1>h, <3>1, NewDeskEarned
  <2>. HIDE DEF fresh
  <2>2. j \in Job /\ j.desk = fresh /\ j.at = "rewrite"
    BY <1>h, <1>s, <2>1 DEF Job
  <2>3. JobEarned(j, earned)
    BY <2>1, <2>2 DEF JobEarned, Opening, Starting, GoingBack
  <2>4. job' = [job EXCEPT ![p] = j] /\ desk' = fresh
    BY <1>2 DEF StartOver, fresh, Save
  <2>5. UNCHANGED <<now, work, cases, noted, faults, earned>>
    BY <1>2 DEF StartOver
  <2>. QED BY <1>t, <2>1, <2>2, <2>3, <2>4, <2>5, OneCommand DEF PracticeTypeOK
<1>3. CASE LockToLevel(p)
  <2>. DEFINE lower == [job[p].desk EXCEPT !.level = @ - 1, !.cleared = FALSE]
              j == [job[p] EXCEPT !.desk = lower, !.at = "change"]
  <2>1. job[p].at = "lock" /\ job[p].desk.level > 1 /\ job[p].cmd # "submit"
    BY <1>3, <1>h DEF LockToLevel, At, JobEarned, GoingBack, Starting
  <2>2. job[p].desk.level \in Nat /\ job[p].desk.level <= Top /\ Top \in Nat
    BY <1>h, LevelsAreNumbers
  <2>3. job[p].desk.level - 1 \in Levels
    BY <2>1, <2>2 DEF Levels
  <2>4. lower \in Desk /\ lower.level = job[p].desk.level - 1 /\ lower.cleared = FALSE
    BY <1>h, <2>3 DEF Desk
  <2>5. DeskEarned(lower, earned)
    BY <1>h, <2>2, <2>4 DEF DeskEarned
  <2>. HIDE DEF lower
  <2>6. j \in Job /\ j.desk = lower /\ j.at = "change" /\ j.cmd = job[p].cmd
    BY <1>h, <1>s, <2>4 DEF Job
  <2>7. JobEarned(j, earned)
    BY <2>1, <2>5, <2>6 DEF JobEarned, Opening, Starting, GoingBack
  <2>8. job' = [job EXCEPT ![p] = j] /\ desk' = lower
    BY <1>3 DEF LockToLevel, lower, Save
  <2>9. UNCHANGED <<now, work, cases, noted, faults, earned>>
    BY <1>3 DEF LockToLevel
  <2>. QED BY <1>t, <2>4, <2>5, <2>6, <2>7, <2>8, <2>9, OneCommand DEF PracticeTypeOK
<1>4. CASE ChangeMinutes(p)
  <2>. DEFINE changed == [job[p].desk EXCEPT !.minutes = Given(job[p].minutes, @)]
              j == [job[p] EXCEPT !.desk = changed, !.at = "shelve"]
  <2>1. job[p].at = "change" /\ job[p].cmd # "submit"
    BY <1>4, <1>h DEF ChangeMinutes, At, JobEarned, Starting
  <2>2. /\ changed \in Desk /\ changed.level = job[p].desk.level
        /\ changed.cleared = job[p].desk.cleared
    BY <1>h, GivenTypes DEF Desk
  <2>3. DeskEarned(changed, earned)
    BY <1>h, <2>2 DEF DeskEarned
  <2>. HIDE DEF changed
  <2>4. j \in Job /\ j.desk = changed /\ j.at = "shelve" /\ j.cmd = job[p].cmd
    BY <1>h, <1>s, <2>2 DEF Job
  <2>5. JobEarned(j, earned)
    BY <2>1, <2>3, <2>4 DEF JobEarned, Opening, Starting, GoingBack
  <2>6. job' = [job EXCEPT ![p] = j] /\ desk' \in {desk, changed}
    BY <1>4 DEF ChangeMinutes, changed
  <2>7. UNCHANGED <<now, work, cases, noted, faults, earned>>
    BY <1>4 DEF ChangeMinutes
  <2>. QED BY <1>t, <2>2, <2>3, <2>4, <2>5, <2>6, <2>7, OneCommand DEF PracticeTypeOK
<1>5. CASE ReloadAfterBack(p)
  <2>. DEFINE again == Ensured(desk, job[p].minutes, now)
              j == [job[p] EXCEPT !.desk = again, !.at = "save"]
  <2>1. job[p].cmd # "submit"
    BY <1>5, <1>h DEF ReloadAfterBack, At, JobEarned, Starting
  <2>2. again \in Desk /\ DeskEarned(again, earned)
    <3>1. desk # NoDesk => DeskEarned(desk, earned)
      BY DEF EarnedInv, EveryLevelEarned, DeskEarned
    <3>2. desk \in Desk \cup {NoDesk} /\ now \in 0..MaxNow
      BY <1>t DEF PracticeTypeOK
    <3>. QED BY <1>h, <3>1, <3>2, EnsuredEarned
  <2>. HIDE DEF again
  <2>3. j \in Job /\ j.desk = again /\ j.at = "save" /\ j.cmd = job[p].cmd
    BY <1>h, <1>s, <2>2 DEF Job
  <2>4. JobEarned(j, earned)
    BY <2>1, <2>2, <2>3 DEF JobEarned, Opening, Starting, GoingBack
  <2>5. job' = [job EXCEPT ![p] = j]
    BY <1>5 DEF ReloadAfterBack, again
  <2>6. UNCHANGED <<now, desk, work, cases, noted, faults, earned>>
    BY <1>5 DEF ReloadAfterBack
  <2>. QED BY <1>t, <2>3, <2>4, <2>5, <2>6, OneCommand DEF PracticeTypeOK
<1>6. CASE Rewrite(p)
  <2>1. cases' \in Levels \cup {NoCases, NoWorkspace} /\ noted' \in BOOLEAN
    BY <1>6, <1>i, CallTypes DEF Rewrite, At
  <2>. QED BY <1>6, <1>t, <2>1, Ending DEF Rewrite, PracticeTypeOK
<1>. QED BY <1>1, <1>2, <1>3, <1>4, <1>5, <1>6

(* The editor, the clock, and the commands that die. *)
LEMMA EarnedAround ==
  ASSUME EarnedInv,
         \/ \E p \in Proc : Fault(p)
         \/ \E w \in Edits : Edit(w)
         \/ Tick
         \/ UNCHANGED vars
  PROVE  EarnedInv'
<1>t. PracticeTypeOK
  BY DEF EarnedInv
<1>n. MaxNow \in Nat /\ MaxFaults \in Nat
  BY PracticeAssumption
<1>1. ASSUME NEW p \in Proc, Fault(p)
      PROVE  EarnedInv'
  <2>1. faults' \in 0..MaxFaults
    BY <1>1, <1>t, <1>n DEF Fault, PracticeTypeOK
  <2>2. cases' \in Levels \cup {NoCases, NoWorkspace}
    <3>1. CASE job[p].at \in {"refresh", "shelve", "rewrite"}
      BY <1>1, <3>1, CallTypes DEF Fault
    <3>2. CASE job[p].at \notin {"refresh", "shelve", "rewrite"}
      BY <1>1, <1>t, <3>2 DEF Fault, PracticeTypeOK
    <3>. QED BY <3>1, <3>2
  <2>. QED BY <1>1, <1>t, <2>1, <2>2, Ending DEF Fault, PracticeTypeOK
<1>2. ASSUME NEW w \in Edits, Edit(w)
      PROVE  EarnedInv'
  <2>. DEFINE touched(q) == [job[q] EXCEPT !.edited = TRUE]
  <2>1. ASSUME NEW q \in Proc, ~Idle(q)
        PROVE  touched(q) \in Job /\ JobEarned(touched(q), earned)
    <3>1. job[q] \in Job /\ JobEarned(job[q], earned)
      BY <2>1, Holding
    <3>2. /\ touched(q) \in Job /\ touched(q).desk = job[q].desk /\ touched(q).at = job[q].at
          /\ touched(q).cmd = job[q].cmd /\ touched(q).seen = job[q].seen
      BY <3>1 DEF Job
    <3>. QED BY <3>1, <3>2 DEF JobEarned, Opening, Starting, GoingBack
  <2>. HIDE DEF touched
  <2>2. job' = [q \in Proc |-> IF Idle(q) THEN NoJob ELSE touched(q)]
    BY <1>2 DEF Edit, touched
  <2>3. work' \in WorkFile
    BY <1>2, DataAssumption DEF Edit
  <2>4. UNCHANGED <<now, desk, cases, noted, faults, earned>>
    BY <1>2 DEF Edit
  <2>5. PracticeTypeOK'
    BY <1>t, <2>1, <2>2, <2>3, <2>4 DEF PracticeTypeOK
  <2>6. EveryLevelEarned'
    BY <2>4 DEF EarnedInv, EveryLevelEarned
  <2>7. \A q \in Proc : ~Idle(q)' => JobEarned(job[q]', earned')
    BY <2>1, <2>2, <2>4 DEF Idle
  <2>. QED BY <2>5, <2>6, <2>7 DEF EarnedInv
<1>3. CASE Tick
  <2>1. now' \in 0..MaxNow
    BY <1>3, <1>t, <1>n DEF Tick, PracticeTypeOK
  <2>. QED BY <1>3, <2>1 DEF Tick, EarnedInv, PracticeTypeOK, EveryLevelEarned, Idle
<1>4. CASE UNCHANGED vars
  BY <1>4 DEF vars, EarnedInv, PracticeTypeOK, EveryLevelEarned, Idle
<1>. QED BY <1>1, <1>2, <1>3, <1>4

LEMMA EarnedStep == EarnedInv /\ [Next]_vars => EarnedInv'
<1>. SUFFICES ASSUME EarnedInv, [Next]_vars
              PROVE  EarnedInv'
  OBVIOUS
<1>1. ASSUME NEW p \in Proc, Begin(p)
      PROVE  EarnedInv'
  BY <1>1, EarnedBegin
<1>2. ASSUME NEW p \in Proc, Continue(p)
      PROVE  EarnedInv'
  BY <1>2, EarnedRun, EarnedOpen, EarnedReset DEF Continue
<1>3. CASE (\E p \in Proc : Fault(p)) \/ (\E w \in Edits : Edit(w)) \/ Tick \/ UNCHANGED vars
  BY <1>3, EarnedAround
<1>. QED BY <1>1, <1>2, <1>3 DEF Next

-----------------------------------------------------------------------------
(* Theorems *)

(* Whatever commands are under way together, the invariant holds. *)
THEOREM EarnedInvariant == Spec => []EarnedInv
BY EarnedInit, EarnedStep, PTL DEF Spec

(* The state of a desk and of the commands on it stays well typed. *)
THEOREM PracticeTypes == Spec => []PracticeTypeOK
<1>1. EarnedInv => PracticeTypeOK
  BY DEF EarnedInv
<1>. QED BY <1>1, EarnedInvariant, PTL

(* However run, submit, start, reset and back interleave, and wherever they *)
(* die, every level below the open one was passed by a submit in time, and  *)
(* a cleared desk passed the last one (cmd_run).                            *)
THEOREM LevelsAreEarned == Spec => []EveryLevelEarned
<1>1. EarnedInv => EveryLevelEarned
  BY DEF EarnedInv
<1>. QED BY <1>1, EarnedInvariant, PTL

-----------------------------------------------------------------------------
(* One command at a time climbs the ladder.  Now the copies that commands  *)
(* hold are up to date: they have the level of the desk, and its mark,     *)
(* until the command saves something else.                                 *)

Same(d, e) == d # NoDesk /\ e.level = d.level /\ e.cleared = d.cleared

Follows(j, d) ==
  /\ j.at = "save" => IF d = NoDesk THEN j.desk.level = 1 /\ j.desk.cleared = FALSE
                      ELSE Same(d, j.desk)
  /\ j.at \notin {"save", "reload", "rewrite"} /\ j.cmd # "reset" => Same(d, j.desk)
  /\ j.cmd = "reset" => j.at \in {"slice", "start over", "rewrite"}

AloneInv ==
  /\ EarnedInv
  /\ \A p \in Proc : ~Idle(p) => Follows(job[p], desk)

Climbing == [Ladder!LadderNext]_(Ladder!ladderVars)

LEMMA EnsuredFollows ==
  ASSUME NEW d \in Desk \cup {NoDesk}, NEW m \in Minutes \cup {NoMinutes}, NEW t
  PROVE  IF d = NoDesk
         THEN Ensured(d, m, t).level = 1 /\ Ensured(d, m, t).cleared = FALSE
         ELSE Same(d, Ensured(d, m, t))
<1>1. CASE d = NoDesk
  BY <1>1 DEF Ensured, NewDesk
<1>2. CASE d # NoDesk
  BY <1>2 DEF Ensured, Same, Desk
<1>. QED BY <1>1, <1>2

(* A step that keeps the level and the mark is a stutter of the ladder. *)
LEMMA LadderStays ==
  ASSUME PracticeTypeOK, desk' = desk \/ (desk' \in Desk /\ Same(desk, desk'))
  PROVE  Climbing
<1>1. UNCHANGED Ladder!ladderVars
  BY DataAssumption DEF Ladder!ladderVars, Same
<1>. QED BY <1>1 DEF Climbing

LEMMA AloneInit == Init => AloneInv /\ Ladder!LadderInit
BY EarnedInit DEF AloneInv, Init, Idle, Ladder!LadderInit

(* The commands that are typed take the desk as it is. *)
LEMMA AloneBegin ==
  ASSUME AloneInv, NEW p \in Proc, Begin(p)
  PROVE  ~Idle(p)' => Follows(job'[p], desk)
<1>t. desk \in Desk \cup {NoDesk} /\ job \in [Proc -> Job \cup {NoJob}]
  BY DEF AloneInv, EarnedInv, PracticeTypeOK
<1>1. ASSUME NEW c, NEW k, NEW l, c \in {"run", "submit"}, BeginRun(p, c, k, l)
      PROVE  Follows(job'[p], desk)
  BY <1>1, <1>t DEF BeginRun, Follows, Same
<1>2. ASSUME NEW c, NEW m \in Minutes \cup {NoMinutes}, BeginStart(p, c, m)
      PROVE  Follows(job'[p], desk)
  BY <1>2, <1>t, EnsuredFollows DEF BeginStart, Take, Follows
<1>3. ASSUME NEW c, NEW m, BeginReset(p, c, m)
      PROVE  Follows(job'[p], desk)
  <2>1. CASE c = "reset" /\ Take(p, c, "slice", NewDesk(m, now), m)
    BY <1>t, <2>1 DEF Take, Follows
  <2>2. CASE c \in {"console reset", "console all"} /\ desk # NoDesk
             /\ Take(p, c, "slice", desk, m)
    BY <1>t, <2>2 DEF Take, Follows, Same
  <2>. QED BY <1>3, <2>1, <2>2 DEF BeginReset
<1>4. ASSUME NEW c, NEW m, BeginBack(p, c, m)
      PROVE  Follows(job'[p], desk)
  BY <1>4, <1>t DEF BeginBack, Take, Follows, Same
<1>5. ASSUME BeginConsoleVscode(p)
      PROVE  Follows(job'[p], desk)
  BY <1>5, <1>t DEF BeginConsoleVscode, Take, Follows, Same
<1>. QED BY <1>1, <1>2, <1>3, <1>4, <1>5 DEF Begin

(* A step of a command that keeps its copy and saves it, or saves nothing. *)
LEMMA FollowsOn ==
  ASSUME AloneInv, NEW p \in Proc, ~Idle(p), NEW step \in Steps \ {"save"},
         job[p].at \notin {"save", "reload", "rewrite"}, job[p].cmd # "reset",
         Go(p, step), desk' \in {desk, job[p].desk}
  PROVE  Climbing /\ Follows(job'[p], desk')
<1>h. job[p].desk \in Desk /\ job[p] \in Job
  BY Holding DEF AloneInv
<1>1. Same(desk, job[p].desk)
  BY DEF AloneInv, Follows
<1>2. Climbing
  BY <1>h, <1>1, LadderStays DEF AloneInv, EarnedInv, Same
<1>3. job'[p] = [job[p] EXCEPT !.at = step]
  BY DEF Go, AloneInv, EarnedInv, PracticeTypeOK
<1>4. job'[p].at = step /\ job'[p].cmd = job[p].cmd /\ job'[p].desk = job[p].desk
  BY <1>h, <1>3 DEF Job
<1>5. Same(desk', job[p].desk)
  BY <1>h, <1>1, DataAssumption DEF Same
<1>. QED BY <1>2, <1>4, <1>5 DEF Follows

(* The steps of run and submit. *)
LEMMA AloneRun ==
  ASSUME AloneInv, NEW p \in Proc,
         \/ RefreshBeforeRun(p) \/ PublicRun(p) \/ RunFails(p) \/ RecordPublic(p)
         \/ HiddenRun(p) \/ RecordHidden(p) \/ MarkCleared(p) \/ UnlockNext(p)
  PROVE  Climbing /\ (~Idle(p)' => Follows(job'[p], desk'))
<1>t. PracticeTypeOK /\ job \in [Proc -> Job \cup {NoJob}] /\ EarnedInv
  BY DEF AloneInv, EarnedInv, PracticeTypeOK
<1>s. {"public", "record", "hidden", "record hidden", "clear", "merge", "rewrite"}
        \subseteq Steps \ {"save"}
  BY DEF Steps
<1>i. /\ ~Idle(p)
      /\ job[p].at \in {"refresh", "public", "record", "hidden", "record hidden", "clear",
                       "unlock"}
  BY DEF RefreshBeforeRun, PublicRun, RunFails, RecordPublic, HiddenRun, RecordHidden,
         MarkCleared, UnlockNext, At
<1>h. /\ job[p] \in Job /\ JobEarned(job[p], earned) /\ job[p].desk \in Desk
      /\ job[p].desk.level \in Levels /\ Follows(job[p], desk)
  BY <1>i, <1>t, Holding DEF AloneInv
<1>c. job[p].cmd # "reset" /\ Same(desk, job[p].desk)
  BY <1>i, <1>h DEF Follows
<1>k. desk' \in {desk, job[p].desk} => Climbing
  BY <1>t, <1>h, <1>c, LadderStays DEF Same
<1>e. Finished(p) => Idle(p)'
  BY <1>t DEF Finished, Idle
<1>1. CASE RefreshBeforeRun(p)
  BY <1>1, <1>i, <1>s, <1>c, FollowsOn DEF RefreshBeforeRun
<1>2. CASE PublicRun(p) \/ HiddenRun(p)
  <2>1. /\ job'[p].desk = job[p].desk /\ job'[p].cmd = job[p].cmd
        /\ job'[p].at \in {"record", "record hidden"}
    <3>1. CASE PublicRun(p)
      <4>1. job'[p] = [job[p] EXCEPT !.ok = CanPass(p), !.at = "record"]
        BY <1>t, <3>1 DEF PublicRun
      <4>. QED BY <1>h, <4>1 DEF Job
    <3>2. CASE HiddenRun(p)
      <4>1. PICK passes \in BOOLEAN :
              job'[p] = [job[p] EXCEPT !.ok = passes, !.at = "record hidden"]
        BY <1>t, <3>2 DEF HiddenRun
      <4>. QED BY <1>h, <4>1 DEF Job
    <3>. QED BY <1>2, <3>1, <3>2
  <2>2. desk' = desk
    BY <1>2 DEF PublicRun, HiddenRun
  <2>. QED BY <1>k, <1>c, <2>1, <2>2 DEF Follows
<1>3. CASE RunFails(p)
  BY <1>3, <1>e, <1>k DEF RunFails
<1>4. CASE RecordPublic(p) \/ RecordHidden(p)
  <2>1. desk' = job[p].desk
    BY <1>4 DEF RecordPublic, RecordHidden, Save
  <2>2. Finished(p) \/ \E step \in {"hidden", "clear", "merge"} : Go(p, step)
    <3>1. job[p].level \in Nat /\ Top \in Nat /\ job[p].level <= Top
      BY <1>h, LevelsAreNumbers DEF Job
    <3>2. StepAfterPass(job[p]) \in {"done", "clear", "merge"}
      BY <3>1 DEF StepAfterPass
    <3>3. GoOn(p) => Finished(p) \/ Go(p, "clear") \/ Go(p, "merge")
      BY <3>2 DEF GoOn
    <3>4. job[p].ok \in BOOLEAN
      BY <1>h DEF Job
    <3>. QED BY <1>4, <3>3, <3>4 DEF RecordPublic, RecordHidden
  <2>. QED BY <1>e, <1>i, <1>k, <1>s, <1>c, <2>1, <2>2, FollowsOn
<1>5. CASE MarkCleared(p)
  <2>. DEFINE done == [job[p].desk EXCEPT !.cleared = TRUE]
  <2>1. desk.level = Top /\ desk # NoDesk
    BY <1>5, <1>h, <1>c DEF MarkCleared, At, JobEarned, Same
  <2>2. done \in Desk /\ done.level = job[p].desk.level /\ done.cleared = TRUE
    BY <1>h DEF Desk
  <2>3. desk' = done
    BY <1>5 DEF MarkCleared, Save
  <2>4. desk'.level = desk.level /\ desk'.cleared = TRUE /\ desk' # NoDesk
    BY <1>c, <2>2, <2>3, DataAssumption DEF Same
  <2>5. Climbing
    BY <2>1, <2>4 DEF Climbing, Ladder!LadderNext, Ladder!Finish
  <2>6. job'[p].desk = done /\ job'[p].at = "rewrite" /\ job'[p].cmd = job[p].cmd
    BY <1>5, <1>t, <1>h DEF MarkCleared, Job
  <2>. QED BY <1>c, <2>5, <2>6 DEF Follows
<1>6. CASE UnlockNext(p)
  <2>. DEFINE next == [job[p].desk EXCEPT !.level = @ + 1, !.cleared = FALSE]
  <2>1. desk.level < Top /\ desk # NoDesk /\ desk.level \in Nat /\ 1 <= desk.level
        /\ Top \in Nat
    BY <1>6, <1>h, <1>c, LevelsAreNumbers DEF UnlockNext, At, JobEarned, Opening, Same
  <2>2. next.level = job[p].desk.level + 1 /\ next.cleared = FALSE
    BY <1>h DEF Desk
  <2>3. desk' = next
    BY <1>6 DEF UnlockNext, Save
  <2>0. job[p].desk.level + 1 \in Levels
    BY <1>c, <2>1 DEF Levels, Same
  <2>4. desk' \in Desk
    BY <1>h, <2>0, <2>3 DEF Desk
  <2>5. desk'.level = desk.level + 1 /\ desk'.cleared = FALSE /\ desk' # NoDesk
    BY <1>c, <2>2, <2>3, <2>4, DataAssumption DEF Same
  <2>6. desk.level \in 1..(Top - 1)
    BY <2>1
  <2>7. Climbing
    BY <2>1, <2>5, <2>6 DEF Climbing, Ladder!LadderNext, Ladder!Climb
  <2>. QED BY <1>6, <1>e, <2>7 DEF UnlockNext
<1>. QED BY <1>1, <1>2, <1>3, <1>4, <1>5, <1>6

(* The steps that merge the work file and write the workspace. *)
LEMMA AloneOpen ==
  ASSUME AloneInv, NEW p \in Proc,
         SaveStart(p) \/ ReadWork(p) \/ WriteWork(p) \/ Shelve(p)
  PROVE  Climbing /\ (~Idle(p)' => Follows(job'[p], desk'))
<1>t. PracticeTypeOK /\ job \in [Proc -> Job \cup {NoJob}] /\ EarnedInv
  BY DEF AloneInv, EarnedInv, PracticeTypeOK
<1>s. {"merge", "write", "shelve", "unlock", "reload"} \subseteq Steps \ {"save"}
  BY DEF Steps
<1>i. ~Idle(p) /\ job[p].at \in {"save", "merge", "write", "shelve"}
  BY DEF SaveStart, ReadWork, WriteWork, Shelve, At
<1>h. job[p] \in Job /\ job[p].desk \in Desk /\ Follows(job[p], desk)
  BY <1>i, <1>t, Holding DEF AloneInv
<1>c. job[p].cmd # "reset"
  BY <1>i, <1>h DEF Follows
<1>k. desk' = desk => Climbing
  BY <1>t, LadderStays
<1>e. Finished(p) => Idle(p)'
  BY <1>t DEF Finished, Idle
<1>1. CASE SaveStart(p)
  <2>1. desk' = job[p].desk /\ job[p].at = "save"
    BY <1>1 DEF SaveStart, Save, At
  <2>4. Climbing
    <3>1. CASE desk = NoDesk
      <4>1. desk'.level = 1 /\ desk'.cleared = FALSE /\ desk' # NoDesk
        BY <1>h, <2>1, <3>1, DataAssumption DEF Follows
      <4>. QED BY <3>1, <4>1 DEF Climbing, Ladder!LadderNext, Ladder!Open
    <3>2. CASE desk # NoDesk
      <4>1. Same(desk, desk')
        BY <1>h, <2>1, <3>2 DEF Follows
      <4>. QED BY <1>t, <1>h, <2>1, <4>1, LadderStays
    <3>. QED BY <3>1, <3>2
  <2>5. ASSUME Go(p, "merge")
        PROVE  Follows(job'[p], desk')
    <3>1. job'[p] = [job[p] EXCEPT !.at = "merge"]
      BY <1>t, <2>5 DEF Go
    <3>2. job'[p].at = "merge" /\ job'[p].cmd = job[p].cmd /\ job'[p].desk = job[p].desk
      BY <1>h, <3>1 DEF Job
    <3>. QED BY <1>h, <1>c, <2>1, <3>2, DataAssumption DEF Follows, Same
  <2>. QED BY <1>1, <1>e, <2>4, <2>5 DEF SaveStart
<1>2. CASE ReadWork(p)
  <2>. DEFINE step == IF work = NoClass \/ Covers(work, LevelToOpen(job[p]))
                      THEN "shelve" ELSE "write"
              j == [job[p] EXCEPT !.seen = work, !.edited = FALSE, !.at = step]
  <2>1. desk' = desk /\ job[p].at = "merge"
    BY <1>2 DEF ReadWork, At
  <2>2. CASE job' = [job EXCEPT ![p] = j]
    <3>1. job'[p] = j
      BY <1>t, <2>2
    <3>2. j.desk = job[p].desk /\ j.cmd = job[p].cmd /\ j.at \in {"shelve", "write"}
      BY <1>h DEF Job
    <3>. HIDE DEF j
    <3>. QED BY <1>h, <1>c, <1>k, <2>1, <3>1, <3>2 DEF Follows
  <2>. QED BY <1>2, <1>e, <1>k, <2>1, <2>2 DEF ReadWork
<1>3. CASE WriteWork(p)
  <2>1. Go(p, "shelve") /\ desk' = desk /\ job[p].at = "write"
    BY <1>3 DEF WriteWork, At
  <2>. QED BY <1>i, <1>s, <1>c, <2>1, FollowsOn
<1>4. CASE Shelve(p)
  <2>1. desk' = desk /\ job[p].at = "shelve"
    BY <1>4 DEF Shelve, At
  <2>2. Finished(p) \/ Go(p, "unlock") \/ Go(p, "reload")
    BY <1>4 DEF Shelve
  <2>. QED BY <1>e, <1>i, <1>k, <1>s, <1>c, <2>1, <2>2, FollowsOn
<1>. QED BY <1>1, <1>2, <1>3, <1>4

(* The steps of the resets and of going back a level. *)
LEMMA AloneReset ==
  ASSUME AloneInv, NEW p \in Proc,
         \/ SliceWork(p) \/ StartOver(p) \/ LockToLevel(p) \/ ChangeMinutes(p)
         \/ ReloadAfterBack(p) \/ Rewrite(p)
  PROVE  Climbing /\ (~Idle(p)' => Follows(job'[p], desk'))
<1>t. PracticeTypeOK /\ job \in [Proc -> Job \cup {NoJob}] /\ EarnedInv
  BY DEF AloneInv, EarnedInv, PracticeTypeOK
<1>i. ~Idle(p)
  BY DEF SliceWork, StartOver, LockToLevel, ChangeMinutes, ReloadAfterBack, Rewrite, At
<1>h. /\ job[p] \in Job /\ job[p].desk \in Desk /\ Follows(job[p], desk)
      /\ JobEarned(job[p], earned) /\ job[p].desk.level \in Levels
      /\ job[p].minutes \in Minutes \cup {NoMinutes}
  BY <1>i, <1>t, Holding DEF AloneInv, Job
<1>k. desk' = desk => Climbing
  BY <1>t, LadderStays
<1>e. Finished(p) => Idle(p)'
  BY <1>t DEF Finished, Idle
<1>1. CASE SliceWork(p)
  <2>1. desk' = desk /\ job[p].at = "slice"
    BY <1>1 DEF SliceWork, At
  <2>2. PICK step \in {"start over", "lock", "rewrite"} :
          Go(p, step) /\ (job[p].cmd = "reset" => step = "start over")
    BY <1>1 DEF SliceWork
  <2>3. job'[p] = [job[p] EXCEPT !.at = step]
    BY <1>t, <2>2 DEF Go
  <2>4. job'[p].at = step /\ job'[p].cmd = job[p].cmd /\ job'[p].desk = job[p].desk
    BY <1>h, <2>3 DEF Job
  <2>. QED BY <1>h, <1>k, <2>1, <2>2, <2>4 DEF Follows
<1>2. CASE StartOver(p)
  <2>. DEFINE fresh == NewDesk(IF job[p].cmd = "console all"
                               THEN job[p].desk.minutes ELSE job[p].minutes, now)
  <2>1. fresh.level = 1 /\ fresh.cleared = FALSE /\ fresh \in Desk
    <3>1. job[p].desk.minutes \in Minutes \cup {NoMinutes, Default} /\ now \in 0..MaxNow
      BY <1>h, <1>t DEF Desk, PracticeTypeOK
    <3>. QED BY <1>h, <3>1, NewDeskEarned DEF NewDesk
  <2>. HIDE DEF fresh
  <2>2. desk' = fresh /\ job' = [job EXCEPT ![p].desk = fresh, ![p].at = "rewrite"]
    BY <1>2 DEF StartOver, fresh, Save
  <2>3. desk' # NoDesk
    BY <2>1, <2>2, DataAssumption
  <2>4. Climbing
    BY <2>1, <2>2, <2>3 DEF Climbing, Ladder!LadderNext, Ladder!StartOver
  <2>5. job'[p] = [job[p] EXCEPT !.desk = fresh, !.at = "rewrite"]
    BY <1>t, <2>2
  <2>6. job'[p].at = "rewrite" /\ job'[p].cmd = job[p].cmd
    BY <1>h, <2>5 DEF Job
  <2>. QED BY <2>4, <2>6 DEF Follows
<1>3. CASE LockToLevel(p)
  <2>. DEFINE lower == [job[p].desk EXCEPT !.level = @ - 1, !.cleared = FALSE]
  <2>1. job[p].at = "lock" /\ job[p].desk.level > 1 /\ job[p].cmd # "reset"
    BY <1>3, <1>h DEF LockToLevel, At, JobEarned, GoingBack, Follows
  <2>2. Same(desk, job[p].desk)
    BY <1>h, <2>1 DEF Follows
  <2>3. job[p].desk.level - 1 \in Levels
    BY <1>h, <2>1, LevelsAreNumbers DEF Levels
  <2>4. lower \in Desk /\ lower.level = job[p].desk.level - 1 /\ lower.cleared = FALSE
    BY <1>h, <2>3 DEF Desk
  <2>. HIDE DEF lower
  <2>5. desk' = lower /\ job' = [job EXCEPT ![p].desk = lower, ![p].at = "change"]
    BY <1>3 DEF LockToLevel, lower, Save
  <2>6. /\ desk # NoDesk /\ desk' # NoDesk /\ desk.level > 1
        /\ desk'.level = desk.level - 1 /\ desk'.cleared = FALSE
    BY <2>1, <2>2, <2>4, <2>5, DataAssumption DEF Same
  <2>7. Climbing
    BY <2>6 DEF Climbing, Ladder!LadderNext, Ladder!GoBack
  <2>8. job'[p] = [job[p] EXCEPT !.desk = lower, !.at = "change"]
    BY <1>t, <2>5
  <2>9. job'[p].at = "change" /\ job'[p].cmd = job[p].cmd /\ job'[p].desk = lower
    BY <1>h, <2>8 DEF Job
  <2>10. Same(desk', lower)
    BY <2>5, <2>6 DEF Same
  <2>. QED BY <2>1, <2>7, <2>9, <2>10 DEF Follows
<1>4. CASE ChangeMinutes(p)
  <2>. DEFINE changed == [job[p].desk EXCEPT !.minutes = Given(job[p].minutes, @)]
  <2>1. job[p].at = "change" /\ job[p].cmd # "reset"
    BY <1>4, <1>h DEF ChangeMinutes, At, Follows
  <2>2. Same(desk, job[p].desk)
    BY <1>h, <2>1 DEF Follows
  <2>3. /\ changed \in Desk /\ changed.level = job[p].desk.level
        /\ changed.cleared = job[p].desk.cleared
    BY <1>h, GivenTypes DEF Desk
  <2>. HIDE DEF changed
  <2>4. desk' \in {desk, changed} /\ job' = [job EXCEPT ![p].desk = changed, ![p].at = "shelve"]
    BY <1>4 DEF ChangeMinutes, changed
  <2>5. Same(desk, changed) /\ Same(desk', changed)
    BY <2>2, <2>3, <2>4, DataAssumption DEF Same
  <2>6. Climbing
    BY <1>t, <2>3, <2>4, <2>5, LadderStays
  <2>7. job'[p] = [job[p] EXCEPT !.desk = changed, !.at = "shelve"]
    BY <1>t, <2>4
  <2>8. job'[p].at = "shelve" /\ job'[p].cmd = job[p].cmd /\ job'[p].desk = changed
    BY <1>h, <2>7 DEF Job
  <2>. QED BY <2>1, <2>5, <2>6, <2>8 DEF Follows
<1>5. CASE ReloadAfterBack(p)
  <2>. DEFINE again == Ensured(desk, job[p].minutes, now)
  <2>1. desk' = desk /\ job[p].at = "reload"
    BY <1>5 DEF ReloadAfterBack, At
  <2>2. desk \in Desk \cup {NoDesk}
    BY <1>t DEF PracticeTypeOK
  <2>3. IF desk = NoDesk THEN again.level = 1 /\ again.cleared = FALSE ELSE Same(desk, again)
    BY <1>h, <2>2, EnsuredFollows
  <2>. HIDE DEF again
  <2>4. job'[p] = [job[p] EXCEPT !.desk = again, !.at = "save"]
    BY <1>5, <1>t DEF ReloadAfterBack, again
  <2>5. job'[p].at = "save" /\ job'[p].cmd = job[p].cmd /\ job'[p].desk = again
    BY <1>h, <2>4 DEF Job
  <2>6. job[p].cmd # "reset"
    BY <1>h, <2>1 DEF Follows
  <2>. QED BY <1>k, <2>1, <2>3, <2>5, <2>6 DEF Follows
<1>6. CASE Rewrite(p)
  BY <1>6, <1>e, <1>k DEF Rewrite
<1>. QED BY <1>1, <1>2, <1>3, <1>4, <1>5, <1>6

(* Every step of a single command, of the editor and of the clock. *)
LEMMA AloneStep ==
  ASSUME \A p, q \in Proc : p = q,
         AloneInv, [Next]_vars
  PROVE  AloneInv' /\ Climbing
<1>t. PracticeTypeOK /\ job \in [Proc -> Job \cup {NoJob}]
  BY DEF AloneInv, EarnedInv, PracticeTypeOK
<1>v. EarnedInv'
  BY EarnedStep DEF AloneInv
<1>k. desk' = desk => Climbing
  BY <1>t, LadderStays
<1>1. ASSUME NEW p \in Proc, Begin(p)
      PROVE  AloneInv' /\ Climbing
  <2>1. desk' = desk
    BY <1>1 DEF Begin, BeginRun, BeginStart, BeginReset, BeginBack, BeginConsoleVscode
  <2>2. ~Idle(p)' => Follows(job'[p], desk')
    BY <1>1, <2>1, AloneBegin
  <2>. QED BY <1>v, <1>k, <2>1, <2>2 DEF AloneInv
<1>2. ASSUME NEW p \in Proc, Continue(p)
      PROVE  AloneInv' /\ Climbing
  <2>1. Climbing /\ (~Idle(p)' => Follows(job'[p], desk'))
    BY <1>2, AloneRun, AloneOpen, AloneReset DEF Continue
  <2>. QED BY <1>v, <2>1 DEF AloneInv
<1>3. ASSUME NEW p \in Proc, Fault(p)
      PROVE  AloneInv' /\ Climbing
  <2>1. desk' = desk /\ Idle(p)'
    BY <1>3, <1>t DEF Fault, Finished, Idle
  <2>. QED BY <1>v, <1>k, <2>1 DEF AloneInv
<1>4. ASSUME NEW w \in Edits, Edit(w)
      PROVE  AloneInv' /\ Climbing
  <2>1. desk' = desk
    BY <1>4 DEF Edit
  <2>2. ASSUME NEW p \in Proc, ~Idle(p)'
        PROVE  Follows(job'[p], desk')
    <3>1. ~Idle(p) /\ job'[p] = [job[p] EXCEPT !.edited = TRUE]
      BY <1>4, <2>2 DEF Edit, Idle
    <3>2. job[p] \in Job /\ Follows(job[p], desk)
      BY <3>1, Holding DEF AloneInv
    <3>3. /\ job'[p].at = job[p].at /\ job'[p].cmd = job[p].cmd
          /\ job'[p].desk = job[p].desk
      BY <3>1, <3>2 DEF Job
    <3>. QED BY <2>1, <3>2, <3>3 DEF Follows
  <2>. QED BY <1>v, <1>k, <2>1, <2>2 DEF AloneInv
<1>5. CASE Tick \/ UNCHANGED vars
  BY <1>5, <1>v, <1>k DEF Tick, vars, AloneInv, Idle
<1>. QED BY <1>1, <1>2, <1>3, <1>4, <1>5 DEF Next

(* With one command at a time, whatever it is, wherever it dies, and       *)
(* whatever the editor does meanwhile, the open level of a problem rises   *)
(* one step per submit and falls only by going back or starting over       *)
(* (unlock_next, mark_cleared, lock_to_level, new_session).                *)
THEOREM PracticeClimbs ==
  ASSUME \A p, q \in Proc : p = q
  PROVE  Spec => ClimbsTheLadder
<1>1. Init => AloneInv /\ Ladder!LadderInit
  BY AloneInit
<1>2. AloneInv /\ [Next]_vars => AloneInv' /\ [Ladder!LadderNext]_(Ladder!ladderVars)
  BY AloneStep DEF Climbing
<1>. QED BY <1>1, <1>2, PTL DEF Spec, ClimbsTheLadder, Ladder!LadderSpec

-----------------------------------------------------------------------------
(***************************************************************************)
(* One command at a time, for every number of levels, every clock and      *)
(* every editor.  What a command read of the work file, saw of the         *)
(* workspace or copied of the desk is still so when it acts on it, unless  *)
(* the user's editor, which waits for nobody, saved the file meanwhile.    *)
(***************************************************************************)

(* The inductive invariant *)

(* What the command read is what is there; what it merged is there.        *)
FileFollows(j) ==
  /\ j.at = "write" /\ ~j.edited => j.seen = work
  /\ j.at \in {"shelve", "unlock"} /\ j.cmd = "submit" /\ ~j.edited
       => Covers(work, j.desk.level + 1)
  /\ j.at = "unlock" => j.cmd = "submit"

(* The command's copy has the clock of the desk, except where it is about  *)
(* to start a new one, which it does only for a reason.                    *)
ClockFollows(j) ==
  /\ j.at = "start over" => j.cmd \in {"reset", "console all"}
  /\ j.at = "save" /\ desk # NoDesk =>
       \/ j.desk.started = desk.started
       \/ ~Running(desk, now)
       \/ ~Running([desk EXCEPT !.minutes = Given(j.minutes, @)], now)
  /\ j.at \notin {"save", "reload", "rewrite"} /\ j.cmd # "reset"
       => j.desk.started = desk.started

(* Where a command may end, the workspace has the traces of the level it   *)
(* will end at, if no call failed.                                         *)
ShowsLevel(k) == cases \in {NoWorkspace, k}

ShownFollows(j) ==
  /\ j.at = "rewrite" => desk # NoDesk /\ desk.level = j.desk.level
  /\ j.at \in {"reload", "save"} /\ j.cmd = "back" => desk # NoDesk
  /\ ~noted =>
       /\ \/ j.at \in {"public", "record", "hidden", "record hidden"}
          \/ j.at = "merge" /\ j.cmd = "submit"
          => ShowsLevel(j.desk.level)
       /\ j.at = "unlock" => ShowsLevel(j.desk.level + 1)
       /\ j.at \in {"reload", "save"} /\ j.cmd = "back" => ShowsLevel(desk.level)

Together(j) == FileFollows(j) /\ ClockFollows(j) /\ ShownFollows(j)

TogetherInv ==
  /\ AloneInv
  /\ \A p \in Proc : ~Idle(p) => Together(job[p])

-----------------------------------------------------------------------------
(* Helpers *)

(* What the record of a command under way is.  *)
LEMMA UnderWay ==
  ASSUME AloneInv, NEW p \in Proc, ~Idle(p)
  PROVE  /\ job[p] \in Job /\ job[p] # NoJob /\ Follows(job[p], desk)
         /\ JobEarned(job[p], earned)
         /\ job[p].desk \in Desk /\ job[p].desk.level \in Nat
         /\ job[p].minutes \in Minutes \cup {NoMinutes} /\ job[p].edited \in BOOLEAN
         /\ job \in [Proc -> Job \cup {NoJob}]
<1>1. /\ job[p] \in Job /\ job[p].desk \in Desk /\ job[p].desk.level \in Levels
      /\ JobEarned(job[p], earned)
  BY Holding DEF AloneInv
<1>2. Follows(job[p], desk)
  BY DEF AloneInv
<1>3. job[p] # NoJob
  BY <1>1, JobAssumption
<1>4. job \in [Proc -> Job \cup {NoJob}]
  BY DEF AloneInv, EarnedInv, PracticeTypeOK
<1>. QED BY <1>1, <1>2, <1>3, <1>4, LevelsAreNumbers DEF Job

(* A command that goes on keeps everything but its place. *)
LEMMA GoKeeps ==
  ASSUME AloneInv, NEW p \in Proc, ~Idle(p), NEW step \in Steps, Go(p, step)
  PROVE  /\ job'[p].at = step /\ job'[p].cmd = job[p].cmd /\ job'[p].desk = job[p].desk
         /\ job'[p].minutes = job[p].minutes /\ job'[p].seen = job[p].seen
         /\ job'[p].edited = job[p].edited
         /\ ~Idle(p)'
<1>1. job'[p] = [job[p] EXCEPT !.at = step]
  BY UnderWay DEF Go
<1>2. job'[p] \in Job
  BY <1>1, UnderWay DEF Job
<1>3. ~Idle(p)'
  BY <1>2, JobAssumption DEF Idle
<1>4. job[p] \in Job
  BY UnderWay
<1>. QED BY <1>1, <1>3, <1>4 DEF Job

LEMMA FinishedEnds ==
  ASSUME AloneInv, NEW p \in Proc, ~Idle(p), Finished(p)
  PROVE  Idle(p)'
BY UnderWay DEF Finished, Idle

(* Clocks are numbers. *)
LEMMA ClockTypes ==
  /\ \A d \in Desk : d.started \in Nat /\ d.minutes \in Nat /\ d.level \in Nat
  /\ \A m \in Minutes \cup {NoMinutes}, d \in Desk :
       /\ [d EXCEPT !.minutes = Given(m, @)] \in Desk
       /\ [d EXCEPT !.minutes = Given(m, @)].started = d.started
  /\ PracticeTypeOK => now \in Nat
<1>n. MaxNow \in Nat
  BY PracticeAssumption
<1>1. \A t \in 0..MaxNow : t \in Nat
  BY <1>n
<1>m. Minutes \cup {Default} \subseteq Nat
  BY PracticeAssumption
<1>2. \A d \in Desk : d.started \in Nat /\ d.minutes \in Nat /\ d.level \in Nat
  BY <1>1, <1>m, LevelsAreNumbers DEF Desk
<1>3. \A m \in Minutes \cup {NoMinutes}, d \in Desk :
       /\ [d EXCEPT !.minutes = Given(m, @)] \in Desk
       /\ [d EXCEPT !.minutes = Given(m, @)].started = d.started
  BY GivenTypes DEF Desk
<1>. QED BY <1>1, <1>2, <1>3 DEF PracticeTypeOK

(* ensure_session starts the clock of a desk again only if it is over, or  *)
(* over with the length that --minutes gives it.                           *)
LEMMA EnsuredClock ==
  ASSUME NEW d \in Desk, NEW m \in Minutes \cup {NoMinutes}, NEW t
  PROVE  \/ Ensured(d, m, t).started = d.started
         \/ ~Running(d, t)
         \/ ~Running([d EXCEPT !.minutes = Given(m, @)], t)
BY ClockTypes, DataAssumption DEF Ensured

LEMMA TogetherInit == Init => TogetherInv
BY AloneInit DEF TogetherInv, Init, Idle

-----------------------------------------------------------------------------
(* The steps keep it *)

(* A command that begins has read nothing, and its copy is the desk. *)
LEMMA TogetherBegin ==
  ASSUME AloneInv, NEW p \in Proc, Begin(p), ~Idle(p)'
  PROVE  Together(job[p])'
<1>t. /\ desk \in Desk \cup {NoDesk} /\ job \in [Proc -> Job \cup {NoJob}]
  BY DEF AloneInv, EarnedInv, PracticeTypeOK
<1>1. ASSUME NEW c, NEW k, NEW l, c \in {"run", "submit"}, BeginRun(p, c, k, l)
      PROVE  Together(job[p])'
  BY <1>1, <1>t DEF BeginRun, Together, FileFollows, ClockFollows, ShownFollows
<1>2. ASSUME NEW c, NEW m \in Minutes \cup {NoMinutes}, BeginStart(p, c, m)
      PROVE  Together(job[p])'
  <2>1. /\ job'[p].at = "save" /\ job'[p].cmd \in {"start", "vscode"}
        /\ job'[p].desk = Ensured(desk, m, now) /\ job'[p].minutes = m
    BY <1>2, <1>t DEF BeginStart, Take
  <2>2. desk' = desk /\ now' = now
    BY <1>2 DEF BeginStart
  <2>3. FileFollows(job[p])' /\ ShownFollows(job[p])'
    BY <2>1 DEF FileFollows, ShownFollows
  <2>4. ClockFollows(job[p])'
    BY <1>t, <2>1, <2>2, EnsuredClock DEF ClockFollows, Running
  <2>. QED BY <2>3, <2>4 DEF Together
<1>3. ASSUME NEW c, NEW m, BeginReset(p, c, m)
      PROVE  Together(job[p])'
  <2>1. CASE c = "reset" /\ Take(p, c, "slice", NewDesk(m, now), m)
    BY <1>t, <2>1 DEF Take, Together, FileFollows, ClockFollows, ShownFollows
  <2>2. CASE c \in {"console reset", "console all"} /\ desk # NoDesk
             /\ Take(p, c, "slice", desk, m)
    <3>1. desk' = desk
      BY <1>3 DEF BeginReset
    <3>. QED BY <1>t, <2>2, <3>1 DEF Take, Together, FileFollows, ClockFollows, ShownFollows
  <2>. QED BY <1>3, <2>1, <2>2 DEF BeginReset
<1>4. ASSUME NEW c, NEW m, BeginBack(p, c, m)
      PROVE  Together(job[p])'
  BY <1>4, <1>t DEF BeginBack, Take, Together, FileFollows, ClockFollows, ShownFollows
<1>5. ASSUME BeginConsoleVscode(p)
      PROVE  Together(job[p])'
  BY <1>5, <1>t DEF BeginConsoleVscode, Take, Together, FileFollows, ClockFollows,
                    ShownFollows
<1>. QED BY <1>1, <1>2, <1>3, <1>4, <1>5 DEF Begin

(* The steps of run and submit. *)
LEMMA TogetherRun ==
  ASSUME TogetherInv, NEW p \in Proc, ~Idle(p)',
         \/ RefreshBeforeRun(p) \/ PublicRun(p) \/ RunFails(p) \/ RecordPublic(p)
         \/ HiddenRun(p) \/ RecordHidden(p) \/ MarkCleared(p) \/ UnlockNext(p)
  PROVE  Together(job[p])'
<1>t. AloneInv
  BY DEF TogetherInv
<1>s. {"public", "hidden", "clear", "merge"} \subseteq Steps
  BY DEF Steps
<1>i. /\ ~Idle(p) /\ work' = work
      /\ job[p].at \in {"refresh", "public", "record", "hidden", "record hidden", "clear",
                       "unlock"}
  BY DEF RefreshBeforeRun, PublicRun, RunFails, RecordPublic, HiddenRun, RecordHidden,
         MarkCleared, UnlockNext, At
<1>h. /\ job[p] \in Job /\ Follows(job[p], desk) /\ Together(job[p])
      /\ job \in [Proc -> Job \cup {NoJob}] /\ job[p].desk \in Desk
  BY <1>i, <1>t, UnderWay DEF TogetherInv
<1>c. job[p].cmd # "reset" /\ Same(desk, job[p].desk)
  BY <1>i, <1>h DEF Follows
<1>d. job[p].desk.started = desk.started
  BY <1>i, <1>h, <1>c DEF Together, ClockFollows
<1>1. CASE RefreshBeforeRun(p)
  <2>1. /\ job'[p].at = "public" /\ job'[p].desk = job[p].desk
        /\ desk' = desk /\ job[p].at = "refresh"
    BY <1>1, <1>i, <1>s, <1>t, GoKeeps DEF RefreshBeforeRun, At
  <2>2. ~noted' => cases' \in {NoWorkspace, job[p].desk.level}
    BY <1>1, <2>1, CallShows DEF RefreshBeforeRun, LevelToShow
  <2>. QED BY <1>d, <1>i, <2>1, <2>2
           DEF Together, FileFollows, ClockFollows, ShownFollows, ShowsLevel
<1>2. CASE PublicRun(p) \/ HiddenRun(p)
  <2>1. /\ job'[p].desk = job[p].desk /\ job'[p].edited = job[p].edited
        /\ job'[p].at \in {"record", "record hidden"}
    <3>1. CASE PublicRun(p)
      <4>1. job'[p] = [job[p] EXCEPT !.ok = CanPass(p), !.at = "record"]
        BY <1>h, <3>1 DEF PublicRun
      <4>. QED BY <1>h, <4>1 DEF Job
    <3>2. CASE HiddenRun(p)
      <4>1. PICK passes \in BOOLEAN :
              job'[p] = [job[p] EXCEPT !.ok = passes, !.at = "record hidden"]
        BY <1>h, <3>2 DEF HiddenRun
      <4>. QED BY <1>h, <4>1 DEF Job
    <3>. QED BY <1>2, <3>1, <3>2
  <2>2. job[p].at \in {"public", "hidden"} /\ desk' = desk /\ cases' = cases /\ noted' = noted
    BY <1>2 DEF PublicRun, HiddenRun, At
  <2>. QED BY <1>d, <1>h, <1>i, <2>1, <2>2
           DEF Together, FileFollows, ClockFollows, ShownFollows, ShowsLevel
<1>3. CASE RunFails(p)
  BY <1>3, <1>i, <1>t, FinishedEnds DEF RunFails
<1>4. CASE RecordPublic(p) \/ RecordHidden(p)
  <2>1. /\ desk' = job[p].desk /\ cases' = cases /\ noted' = noted
        /\ job[p].at \in {"record", "record hidden"}
    BY <1>4 DEF RecordPublic, RecordHidden, Save, At
  <2>2. \E step \in {"hidden", "clear", "merge"} : Go(p, step)
    <3>1. job[p].level \in Nat /\ Top \in Nat /\ job[p].level <= Top
      BY <1>h, LevelsAreNumbers DEF Job
    <3>2. StepAfterPass(job[p]) \in {"done", "clear", "merge"}
      BY <3>1 DEF StepAfterPass
    <3>3. GoOn(p) => Finished(p) \/ Go(p, "clear") \/ Go(p, "merge")
      BY <3>2 DEF GoOn
    <3>4. job[p].ok \in BOOLEAN
      BY <1>h DEF Job
    <3>5. ~Finished(p)
      BY <1>i, <1>t, FinishedEnds
    <3>. QED BY <1>4, <3>3, <3>4, <3>5 DEF RecordPublic, RecordHidden
  <2>3. /\ job'[p].at \in {"hidden", "clear", "merge"} /\ job'[p].desk = job[p].desk
        /\ job'[p].edited = job[p].edited
    BY <1>i, <1>s, <1>t, <2>2, GoKeeps
  <2>. QED BY <1>h, <1>i, <2>1, <2>3
           DEF Together, FileFollows, ClockFollows, ShownFollows, ShowsLevel
<1>5. CASE MarkCleared(p)
  <2>. DEFINE done == [job[p].desk EXCEPT !.cleared = TRUE]
  <2>1. done \in Desk /\ desk' = done
    BY <1>5, <1>h DEF Desk, MarkCleared, Save
  <2>2. job'[p].desk = done /\ job'[p].at = "rewrite"
    BY <1>5, <1>h DEF MarkCleared, Job
  <2>. HIDE DEF done
  <2>. QED BY <2>1, <2>2, DataAssumption
           DEF Together, FileFollows, ClockFollows, ShownFollows
<1>6. CASE UnlockNext(p)
  BY <1>6, <1>i, <1>t, FinishedEnds DEF UnlockNext
<1>. QED BY <1>1, <1>2, <1>3, <1>4, <1>5, <1>6

(* What ReadWork leaves to write has the methods once it is written. *)
LEMMA WrittenCovers ==
  ASSUME NEW k \in Levels, NEW w \in Source
  PROVE  /\ Covers(Sliced(k), k)
         /\ Covers(Merged(w, k), k)
         /\ \A l \in Levels : w[l] = "solved" => Merged(w, k)[l] = "solved"
<1>1. \A l \in 1..k : l \in Levels /\ l <= k
  BY LevelsAreNumbers DEF Levels
<1>2. Covers(Sliced(k), k)
  BY <1>1, WorkTypes DEF Covers, Sliced
<1>3. Covers(Merged(w, k), k)
  BY <1>1, WorkTypes DEF Covers, Merged
<1>. QED BY <1>2, <1>3 DEF Merged

(* The steps that merge the work file and write the workspace. *)
LEMMA TogetherOpen ==
  ASSUME TogetherInv, NEW p \in Proc, ~Idle(p)',
         SaveStart(p) \/ ReadWork(p) \/ WriteWork(p) \/ Shelve(p)
  PROVE  Together(job[p])'
<1>t. AloneInv /\ EarnedInv
  BY DEF TogetherInv, AloneInv
<1>s. {"merge", "shelve", "unlock", "reload"} \subseteq Steps
  BY DEF Steps
<1>i. ~Idle(p) /\ job[p].at \in {"save", "merge", "write", "shelve"}
  BY DEF SaveStart, ReadWork, WriteWork, Shelve, At
<1>h. /\ job[p] \in Job /\ Follows(job[p], desk) /\ Together(job[p])
      /\ job \in [Proc -> Job \cup {NoJob}] /\ job[p].desk \in Desk
      /\ JobEarned(job[p], earned) /\ job[p].edited \in BOOLEAN
      /\ work \in WorkFile
  BY <1>i, <1>t, UnderWay DEF TogetherInv, EarnedInv, PracticeTypeOK
<1>c. job[p].cmd # "reset"
  BY <1>i, <1>h DEF Follows
<1>1. CASE SaveStart(p)
  <2>1. desk' = job[p].desk /\ job[p].at = "save" /\ Go(p, "merge")
    BY <1>1, <1>i, <1>t, FinishedEnds DEF SaveStart, Save, At
  <2>2. job'[p].at = "merge" /\ job'[p].desk = job[p].desk /\ job'[p].cmd = job[p].cmd
    BY <1>i, <1>s, <1>t, <2>1, GoKeeps
  <2>3. job[p].cmd # "submit"
    BY <1>h, <2>1 DEF JobEarned, Starting
  <2>. QED BY <2>1, <2>2, <2>3 DEF Together, FileFollows, ClockFollows, ShownFollows
<1>d. ~SaveStart(p) => /\ Same(desk, job[p].desk) /\ desk' = desk
                      /\ job[p].desk.started = desk.started
  <2>1. ~SaveStart(p) => job[p].at # "save" /\ desk' = desk
    BY DEF ReadWork, WriteWork, Shelve, At
  <2>. QED BY <1>c, <1>h, <1>i, <2>1 DEF Follows, Together, ClockFollows
<1>2. CASE ReadWork(p)
  <2>. DEFINE step == IF work = NoClass \/ Covers(work, LevelToOpen(job[p]))
                      THEN "shelve" ELSE "write"
              j == [job[p] EXCEPT !.seen = work, !.edited = FALSE, !.at = step]
  <2>1. /\ job' = [job EXCEPT ![p] = j] /\ work' = work /\ job[p].at = "merge"
        /\ ~(work = NoClass /\ job[p].cmd = "submit")
    BY <1>2, <1>i, <1>t, FinishedEnds DEF ReadWork, At
  <2>2. job'[p] = j
    BY <1>h, <2>1
  <2>3. /\ j.at = step /\ j.seen = work /\ j.edited = FALSE /\ j.cmd = job[p].cmd
        /\ j.desk = job[p].desk
    BY <1>h DEF Job
  <2>4. step \in {"shelve", "write"}
    OBVIOUS
  <2>5. step = "shelve" /\ job[p].cmd = "submit" => Covers(work, job[p].desk.level + 1)
    BY <2>1 DEF LevelToOpen
  <2>. HIDE DEF j, step
  <2>6. Covers(work, job[p].desk.level + 1)' <=> Covers(work, job[p].desk.level + 1)
    BY <2>1, <2>2, <2>3 DEF Covers
  <2>7. FileFollows(job[p])'
    BY <2>1, <2>2, <2>3, <2>4, <2>5, <2>6 DEF FileFollows
  <2>. QED BY <1>1, <1>d, <1>i, <2>1, <2>2, <2>3, <2>4, <2>7
           DEF Together, ClockFollows, ShownFollows
<1>3. CASE WriteWork(p)
  <2>1. Go(p, "shelve") /\ job[p].at = "write"
    BY <1>3 DEF WriteWork, At
  <2>2. /\ job'[p].at = "shelve" /\ job'[p].desk = job[p].desk /\ job'[p].cmd = job[p].cmd
        /\ job'[p].edited = job[p].edited
    BY <1>i, <1>s, <1>t, <2>1, GoKeeps
  <2>3. LevelToOpen(job[p]) \in Levels
    <3>1. ~Idle(p) /\ job[p].at \in {"merge", "write", "shelve"}
      BY <1>i, <2>1
    <3>. QED BY <1>t, <3>1, LevelToOpenTypes
  <2>4. job[p].seen \in Source \cup {NoWork}
    BY <1>h, <2>1 DEF JobEarned, Job, WorkFile
  <2>5. work' = IF job[p].seen = NoWork THEN Sliced(LevelToOpen(job[p]))
                ELSE Merged(job[p].seen, LevelToOpen(job[p]))
    BY <1>3 DEF WriteWork
  <2>6. Covers(work', LevelToOpen(job[p]))
    BY <2>3, <2>4, <2>5, WorkTypes, WrittenCovers
  <2>7. FileFollows(job[p])'
    BY <2>2, <2>6 DEF FileFollows, LevelToOpen, Covers
  <2>8. desk' = desk
    BY <1>3 DEF WriteWork
  <2>. QED BY <1>d, <1>i, <1>h, <2>1, <2>2, <2>7, <2>8
           DEF Together, ClockFollows, ShownFollows, SaveStart, At
<1>4. CASE Shelve(p)
  <2>1. job[p].at = "shelve" /\ work' = work /\ desk' = desk
    BY <1>4 DEF Shelve, At
  <2>2. \/ job[p].cmd = "submit" /\ Go(p, "unlock")
        \/ job[p].cmd = "back" /\ Go(p, "reload") /\ ~noted'
    BY <1>4, <1>i, <1>t, FinishedEnds DEF Shelve
  <2>3. /\ job'[p].desk = job[p].desk /\ job'[p].cmd = job[p].cmd
        /\ job'[p].edited = job[p].edited
        /\ \/ job[p].cmd = "submit" /\ job'[p].at = "unlock"
           \/ job[p].cmd = "back" /\ job'[p].at = "reload"
    BY <1>i, <1>s, <1>t, <2>2, GoKeeps
  <2>4. Same(desk, job[p].desk) /\ job[p].desk.started = desk.started
    BY <1>d, <2>1 DEF SaveStart, At
  <2>6. ~noted' => cases' \in {NoWorkspace, LevelToOpen(job[p])}
    BY <1>4, <2>1, CallShows DEF Shelve, LevelToShow
  <2>7. FileFollows(job[p])'
    BY <1>h, <2>1, <2>3 DEF Together, FileFollows, Covers
  <2>8. ClockFollows(job[p])'
    BY <2>1, <2>3, <2>4 DEF ClockFollows
  <2>9. ShownFollows(job[p])'
    BY <2>1, <2>3, <2>4, <2>6 DEF ShownFollows, ShowsLevel, LevelToOpen, Same
  <2>. QED BY <2>7, <2>8, <2>9 DEF Together
<1>. QED BY <1>1, <1>2, <1>3, <1>4

(* The steps of the resets and of going back a level. *)
LEMMA TogetherReset ==
  ASSUME TogetherInv, NEW p \in Proc, ~Idle(p)',
         \/ SliceWork(p) \/ StartOver(p) \/ LockToLevel(p) \/ ChangeMinutes(p)
         \/ ReloadAfterBack(p) \/ Rewrite(p)
  PROVE  Together(job[p])'
<1>t. AloneInv /\ desk \in Desk \cup {NoDesk}
  BY DEF TogetherInv, AloneInv, EarnedInv, PracticeTypeOK
<1>s. {"start over", "lock", "rewrite"} \subseteq Steps
  BY DEF Steps
<1>i. ~Idle(p)
  BY DEF SliceWork, StartOver, LockToLevel, ChangeMinutes, ReloadAfterBack, Rewrite, At
<1>h. /\ job[p] \in Job /\ Follows(job[p], desk) /\ Together(job[p])
      /\ job \in [Proc -> Job \cup {NoJob}] /\ job[p].desk \in Desk
      /\ job[p].minutes \in Minutes \cup {NoMinutes}
  BY <1>i, <1>t, UnderWay DEF TogetherInv
<1>d. job[p].at \in {"slice", "lock", "change"} /\ job[p].cmd # "reset"
        => Same(desk, job[p].desk) /\ job[p].desk.started = desk.started
  BY <1>h DEF Follows, Together, ClockFollows
<1>1. CASE SliceWork(p)
  <2>1. desk' = desk /\ job[p].at = "slice"
    BY <1>1 DEF SliceWork, At
  <2>2. PICK step \in {"start over", "lock", "rewrite"} :
          /\ Go(p, step)
          /\ step = "start over" => job[p].cmd \in {"reset", "console all"}
          /\ step # "start over" => job[p].cmd # "reset"
    BY <1>1 DEF SliceWork
  <2>3. job'[p].at = step /\ job'[p].cmd = job[p].cmd /\ job'[p].desk = job[p].desk
    BY <1>i, <1>s, <1>t, <2>2, GoKeeps
  <2>4. ShownFollows(job[p])'
    BY <1>d, <2>1, <2>2, <2>3 DEF ShownFollows, Same
  <2>. QED BY <1>d, <2>1, <2>2, <2>3, <2>4 DEF Together, FileFollows, ClockFollows
<1>2. CASE StartOver(p)
  <2>. DEFINE fresh == NewDesk(IF job[p].cmd = "console all"
                               THEN job[p].desk.minutes ELSE job[p].minutes, now)
  <2>1. fresh \in Desk
    <3>1. job[p].desk.minutes \in Minutes \cup {NoMinutes, Default} /\ now \in 0..MaxNow
      BY <1>h, <1>t DEF Desk, AloneInv, EarnedInv, PracticeTypeOK
    <3>. QED BY <1>h, <3>1, NewDeskEarned
  <2>. HIDE DEF fresh
  <2>2. desk' = fresh /\ job' = [job EXCEPT ![p].desk = fresh, ![p].at = "rewrite"]
    BY <1>2 DEF StartOver, fresh, Save
  <2>3. job'[p] = [job[p] EXCEPT !.desk = fresh, !.at = "rewrite"]
    BY <1>h, <2>2
  <2>4. job'[p].at = "rewrite" /\ job'[p].desk = fresh
    BY <1>h, <2>3 DEF Job
  <2>. QED BY <2>1, <2>2, <2>4, DataAssumption
           DEF Together, FileFollows, ClockFollows, ShownFollows
<1>3. CASE LockToLevel(p)
  <2>. DEFINE lower == [job[p].desk EXCEPT !.level = @ - 1, !.cleared = FALSE]
  <2>1. lower.started = job[p].desk.started
    BY <1>h DEF Desk
  <2>2. desk' = lower /\ job' = [job EXCEPT ![p].desk = lower, ![p].at = "change"]
    BY <1>3 DEF LockToLevel, Save
  <2>. HIDE DEF lower
  <2>3. job'[p] = [job[p] EXCEPT !.desk = lower, !.at = "change"]
    BY <1>h, <2>2
  <2>4. job'[p].at = "change" /\ job'[p].desk = lower
    BY <1>h, <2>3 DEF Job
  <2>. QED BY <2>2, <2>4 DEF Together, FileFollows, ClockFollows, ShownFollows
<1>4. CASE ChangeMinutes(p)
  <2>. DEFINE changed == [job[p].desk EXCEPT !.minutes = Given(job[p].minutes, @)]
  <2>1. /\ job[p].at = "change" /\ job[p].cmd \notin {"reset", "submit"}
    BY <1>4, <1>h, <1>i, <1>t, UnderWay DEF ChangeMinutes, At, Follows, JobEarned, Starting
  <2>2. changed.started = job[p].desk.started
    BY <1>h, ClockTypes
  <2>. HIDE DEF changed
  <2>3. desk' \in {desk, changed} /\ job' = [job EXCEPT ![p].desk = changed, ![p].at = "shelve"]
    BY <1>4 DEF ChangeMinutes, changed
  <2>4. job'[p] = [job[p] EXCEPT !.desk = changed, !.at = "shelve"]
    BY <1>h, <2>3
  <2>5. job'[p].at = "shelve" /\ job'[p].desk = changed /\ job'[p].cmd = job[p].cmd
    BY <1>h, <2>4 DEF Job
  <2>. QED BY <1>d, <2>1, <2>2, <2>3, <2>5
           DEF Together, FileFollows, ClockFollows, ShownFollows
<1>5. CASE ReloadAfterBack(p)
  <2>. DEFINE again == Ensured(desk, job[p].minutes, now)
  <2>1. desk' = desk /\ now' = now /\ work' = work /\ cases' = cases
        /\ noted' = noted /\ job[p].at = "reload"
    BY <1>5 DEF ReloadAfterBack, At
  <2>2. desk # NoDesk => \/ again.started = desk.started
                         \/ ~Running(desk, now)
                         \/ ~Running([desk EXCEPT !.minutes = Given(job[p].minutes, @)], now)
    BY <1>h, <1>t, EnsuredClock
  <2>. HIDE DEF again
  <2>3. job'[p] = [job[p] EXCEPT !.desk = again, !.at = "save"]
    BY <1>5, <1>h DEF ReloadAfterBack, again
  <2>4. /\ job'[p].at = "save" /\ job'[p].cmd = job[p].cmd /\ job'[p].desk = again
        /\ job'[p].minutes = job[p].minutes /\ job'[p].edited = job[p].edited
    BY <1>h, <2>3 DEF Job
  <2>5. ClockFollows(job[p])'
    BY <2>1, <2>2, <2>4 DEF ClockFollows, Running
  <2>6. FileFollows(job[p])' /\ ShownFollows(job[p])'
    BY <1>h, <2>1, <2>4 DEF Together, FileFollows, ShownFollows, ShowsLevel
  <2>. QED BY <2>5, <2>6 DEF Together
<1>6. CASE Rewrite(p)
  BY <1>6, <1>i, <1>t, FinishedEnds DEF Rewrite
<1>. QED BY <1>1, <1>2, <1>3, <1>4, <1>5, <1>6

(* A clock that is over stays over. *)
LEMMA StaysOver ==
  ASSUME NEW d \in Desk, NEW t \in Nat, NEW u \in Nat, t <= u, Running(d, u)
  PROVE  Running(d, t)
BY ClockTypes DEF Running

(* The editor and the clock. *)
LEMMA TogetherAround ==
  ASSUME TogetherInv, NEW p \in Proc, ~Idle(p)',
         (\E w \in Edits : Edit(w)) \/ Tick \/ UNCHANGED vars
  PROVE  Together(job[p])'
<1>t. /\ AloneInv /\ desk \in Desk \cup {NoDesk} /\ now \in Nat
      /\ job \in [Proc -> Job \cup {NoJob}]
  BY ClockTypes DEF TogetherInv, AloneInv, EarnedInv, PracticeTypeOK
<1>i. ~Idle(p)
  BY DEF Edit, Tick, vars, Idle
<1>h. /\ job[p] \in Job /\ Together(job[p]) /\ job[p].desk \in Desk
      /\ job[p].minutes \in Minutes \cup {NoMinutes}
  BY <1>i, <1>t, UnderWay DEF TogetherInv
<1>1. ASSUME NEW w \in Edits, Edit(w)
      PROVE  Together(job[p])'
  <2>1. job'[p] = [job[p] EXCEPT !.edited = TRUE]
    BY <1>1, <1>i DEF Edit
  <2>2. /\ job'[p].at = job[p].at /\ job'[p].cmd = job[p].cmd /\ job'[p].desk = job[p].desk
        /\ job'[p].minutes = job[p].minutes /\ job'[p].edited = TRUE
    BY <1>h, <2>1 DEF Job
  <2>3. desk' = desk /\ now' = now /\ cases' = cases /\ noted' = noted
    BY <1>1 DEF Edit
  <2>4. ClockFollows(job[p])'
    BY <1>h, <2>2, <2>3 DEF Together, ClockFollows, Running
  <2>5. ShownFollows(job[p])'
    BY <1>h, <2>2, <2>3 DEF Together, ShownFollows, ShowsLevel
  <2>6. FileFollows(job[p])'
    BY <1>h, <2>2 DEF Together, FileFollows
  <2>. QED BY <2>4, <2>5, <2>6 DEF Together
<1>2. CASE Tick
  <2>1. now' = now + 1 /\ UNCHANGED <<desk, work, cases, noted, job>>
    BY <1>2 DEF Tick
  <2>2. \A d \in Desk : Running(d, now') => Running(d, now)
    BY <1>t, <2>1, StaysOver
  <2>3. desk # NoDesk => [desk EXCEPT !.minutes = Given(job[p].minutes, @)] \in Desk
    BY <1>h, <1>t, ClockTypes
  <2>4. ClockFollows(job[p])'
    <3>1. \A d : Running(d, now)' <=> Running(d, now')
      BY DEF Running
    <3>. QED BY <1>h, <1>t, <2>1, <2>2, <2>3, <3>1 DEF Together, ClockFollows
  <2>. QED BY <1>h, <2>1, <2>4
           DEF Together, FileFollows, ShownFollows, ShowsLevel, Covers
<1>3. CASE UNCHANGED vars
  BY <1>3, <1>h, ZenonT(60) DEF vars, Together, FileFollows, ClockFollows, ShownFollows, ShowsLevel,
                    Covers, Running
<1>. QED BY <1>1, <1>2, <1>3

LEMMA TogetherStep ==
  ASSUME \A p, q \in Proc : p = q,
         TogetherInv, [Next]_vars
  PROVE  TogetherInv'
<1>t. AloneInv /\ AloneInv'
  BY AloneStep DEF TogetherInv
<1>1. ASSUME NEW p \in Proc, ~Idle(p)'
      PROVE  Together(job[p])'
  <2>1. ASSUME NEW q \in Proc, Begin(q)
        PROVE  Together(job[p])'
    BY <1>1, <1>t, <2>1, TogetherBegin
  <2>2. ASSUME NEW q \in Proc, Continue(q)
        PROVE  Together(job[p])'
    BY <1>1, <2>2, TogetherRun, TogetherOpen, TogetherReset DEF Continue
  <2>3. ASSUME NEW q \in Proc, Fault(q)
        PROVE  FALSE
    BY <1>1, <1>t, <2>3, FinishedEnds DEF Fault
  <2>4. CASE (\E w \in Edits : Edit(w)) \/ Tick \/ UNCHANGED vars
    BY <1>1, <2>4, TogetherAround
  <2>. QED BY <2>1, <2>2, <2>3, <2>4 DEF Next
<1>. QED BY <1>1, <1>t DEF TogetherInv

(* Only a command that is under way moves the desk. *)
LEMMA MovesDesk ==
  ASSUME [Next]_vars, desk' # desk
  PROVE  \E q \in Proc : Continue(q)
BY DEF Next, Begin, BeginRun, BeginStart, BeginReset, BeginBack, BeginConsoleVscode,
       Fault, Edit, Tick, vars

-----------------------------------------------------------------------------
(* What a step may do *)

Opens(p) ==
  At(p, "unlock") /\ desk' # desk /\ ~job[p].edited => Covers(work, desk'.level)

Keeps(p) ==
  /\ ~Idle(p) /\ Cmd(p) \notin Destructive /\ work \in Source
  /\ job'[p] # job[p]
  /\ ~job[p].edited /\ (Idle(p)' \/ ~job'[p].edited)
  => /\ work' \in Source
     /\ \A l \in Levels : work[l] = "solved" => work'[l] = "solved"

SetsBack ==
  desk # NoDesk /\ desk' # NoDesk /\ Running(desk, now) /\ desk'.started # desk.started
    => \E p \in Proc :
         /\ ~Idle(p)
         /\ \/ job[p].cmd \in {"reset", "console all"}
            \/ ~Running([desk EXCEPT !.minutes = Given(job[p].minutes, @)], now)

Ends(p) ==
  ~Idle(p) /\ Idle(p)' /\ faults' = faults /\ ~noted'
    => cases' \in {NoWorkspace, desk'.level}

LEMMA OpensStep ==
  ASSUME \A p, q \in Proc : p = q,
         TogetherInv, [Next]_vars, NEW p \in Proc
  PROVE  Opens(p)
<1>. SUFFICES ASSUME At(p, "unlock"), desk' # desk, ~job[p].edited
              PROVE  Covers(work, desk'.level)
  BY DEF Opens
<1>t. AloneInv /\ ~Idle(p) /\ job[p].at = "unlock"
  BY DEF TogetherInv, At
<1>h. /\ job[p].desk \in Desk /\ job[p].desk.level \in Nat
      /\ Together(job[p]) /\ job[p].edited \in BOOLEAN
  BY <1>t, UnderWay DEF TogetherInv
<1>1. Continue(p)
  BY MovesDesk
<1>2. UnlockNext(p)
  BY <1>t, <1>1 DEF Continue, At, RefreshBeforeRun, PublicRun, RunFails, RecordPublic,
     HiddenRun, RecordHidden, MarkCleared, SaveStart, ReadWork, WriteWork, Shelve,
     SliceWork, StartOver, LockToLevel, ChangeMinutes, ReloadAfterBack, Rewrite
<1>3. desk'.level = job[p].desk.level + 1
  BY <1>2, <1>h DEF UnlockNext, Save, Desk
<1>4. Covers(work, job[p].desk.level + 1)
  BY <1>t, <1>h DEF Together, FileFollows
<1>. QED BY <1>3, <1>4

LEMMA KeepsStep ==
  ASSUME \A p, q \in Proc : p = q,
         TogetherInv, [Next]_vars, NEW p \in Proc
  PROVE  Keeps(p)
<1>. SUFFICES ASSUME ~Idle(p), Cmd(p) \notin Destructive, work \in Source,
                     job'[p] # job[p], ~job[p].edited, Idle(p)' \/ ~job'[p].edited
              PROVE  /\ work' \in Source
                     /\ \A l \in Levels : work[l] = "solved" => work'[l] = "solved"
  BY DEF Keeps
<1>t. AloneInv /\ EarnedInv
  BY DEF TogetherInv, AloneInv
<1>h. /\ job[p] \in Job /\ JobEarned(job[p], earned) /\ Together(job[p])
      /\ job \in [Proc -> Job \cup {NoJob}] /\ job[p].edited \in BOOLEAN
  BY <1>t, UnderWay DEF TogetherInv
<1>1. ASSUME NEW w \in Edits, Edit(w)
      PROVE  FALSE
  <2>1. job'[p] = [job[p] EXCEPT !.edited = TRUE]
    BY <1>1 DEF Edit
  <2>2. job'[p] \in Job /\ job'[p].edited = TRUE
    BY <1>h, <2>1 DEF Job
  <2>3. ~Idle(p)'
    BY <2>2, JobAssumption DEF Idle
  <2>. QED BY <2>2, <2>3
<1>2. CASE WriteWork(p)
  <2>1. job[p].at = "write" /\ job[p].seen = work
    BY <1>2, <1>h DEF WriteWork, At, Together, FileFollows
  <2>2. work # NoWork
    BY DataAssumption
  <2>3. work' = Merged(work, LevelToOpen(job[p]))
    BY <1>2, <2>1, <2>2 DEF WriteWork
  <2>4. LevelToOpen(job[p]) \in Levels
    <3>1. ~Idle(p) /\ job[p].at \in {"merge", "write", "shelve"}
      BY <2>1
    <3>. QED BY <1>t, <3>1, LevelToOpenTypes
  <2>. QED BY <2>3, <2>4, WorkTypes, WrittenCovers
<1>3. ~SliceWork(p)
  BY DEF SliceWork, Cmd, Destructive
<1>4. (\E w \in Edits : Edit(w)) \/ WriteWork(p) \/ SliceWork(p) \/ work' = work
  <2>1. ASSUME NEW q \in Proc, Continue(q)
        PROVE  WriteWork(p) \/ SliceWork(p) \/ work' = work
    <3>1. q = p
      OBVIOUS
    <3>. QED BY <2>1, <3>1 DEF Continue, RefreshBeforeRun, PublicRun, RunFails, RecordPublic,
         HiddenRun, RecordHidden, MarkCleared, UnlockNext, SaveStart, ReadWork, Shelve,
         StartOver, LockToLevel, ChangeMinutes, ReloadAfterBack, Rewrite
  <2>2. ASSUME NEW q \in Proc, Begin(q) \/ Fault(q)
        PROVE  work' = work
    BY <2>2 DEF Begin, BeginRun, BeginStart, BeginReset, BeginBack, BeginConsoleVscode, Fault
  <2>. QED BY <2>1, <2>2 DEF Next, Tick, vars
<1>. QED BY <1>1, <1>2, <1>3, <1>4

LEMMA SetsBackStep ==
  ASSUME \A p, q \in Proc : p = q,
         TogetherInv, [Next]_vars
  PROVE  SetsBack
<1>. SUFFICES ASSUME desk # NoDesk, Running(desk, now), desk'.started # desk.started
              PROVE  \E p \in Proc :
                /\ ~Idle(p)
                /\ \/ job[p].cmd \in {"reset", "console all"}
                   \/ ~Running([desk EXCEPT !.minutes = Given(job[p].minutes, @)], now)
  BY DEF SetsBack
<1>1. PICK p \in Proc : Continue(p)
  BY MovesDesk
<1>t. AloneInv
  BY DEF TogetherInv
<1>i. ~Idle(p)
  BY <1>1 DEF Continue, At, RefreshBeforeRun, PublicRun, RunFails, RecordPublic,
     HiddenRun, RecordHidden, MarkCleared, UnlockNext, SaveStart, ReadWork, WriteWork,
     Shelve, SliceWork, StartOver, LockToLevel, ChangeMinutes, ReloadAfterBack, Rewrite
<1>h. /\ job[p].desk \in Desk /\ Follows(job[p], desk) /\ Together(job[p])
      /\ job[p].minutes \in Minutes \cup {NoMinutes}
  BY <1>i, <1>t, UnderWay DEF TogetherInv
<1>2. CASE SaveStart(p)
  <2>1. job[p].at = "save" /\ desk' = job[p].desk
    BY <1>2 DEF SaveStart, At, Save
  <2>. QED BY <1>h, <1>i, <2>1 DEF Together, ClockFollows
<1>3. CASE StartOver(p)
  <2>1. job[p].at = "start over"
    BY <1>3 DEF StartOver, At
  <2>. QED BY <1>h, <1>i, <2>1 DEF Together, ClockFollows
<1>4. CASE RecordPublic(p) \/ RecordHidden(p) \/ MarkCleared(p) \/ UnlockNext(p)
           \/ LockToLevel(p) \/ ChangeMinutes(p)
  <2>1. job[p].at \in {"record", "record hidden", "clear", "unlock", "lock", "change"}
    BY <1>4 DEF RecordPublic, RecordHidden, MarkCleared, UnlockNext, LockToLevel,
                ChangeMinutes, At
  <2>2. job[p].desk.started = desk.started
    BY <1>h, <2>1 DEF Follows, Together, ClockFollows
  <2>3. desk' = desk \/ desk'.started = job[p].desk.started
    <3>1. CASE ChangeMinutes(p)
      BY <1>h, <3>1, ClockTypes DEF ChangeMinutes
    <3>2. CASE ~ChangeMinutes(p)
      BY <1>4, <1>h, <3>2 DEF RecordPublic, RecordHidden, MarkCleared, UnlockNext,
                              LockToLevel, Save, Desk
    <3>. QED BY <3>1, <3>2
  <2>. QED BY <2>2, <2>3
<1>5. CASE desk' = desk
  BY <1>5
<1>. QED BY <1>1, <1>2, <1>3, <1>4, <1>5
     DEF Continue, RefreshBeforeRun, PublicRun, RunFails, HiddenRun, ReadWork, WriteWork,
         Shelve, SliceWork, ReloadAfterBack, Rewrite

(* The copies that a command makes of its desk are desks. *)
LEMMA DesksHeld ==
  ASSUME AloneInv, NEW p \in Proc, ~Idle(p)
  PROVE  /\ [job[p].desk EXCEPT !.cleared = TRUE] \in Desk
         /\ NewDesk(IF job[p].cmd = "console all" THEN job[p].desk.minutes
                    ELSE job[p].minutes, now) \in Desk
         /\ job[p].at = "lock" => [job[p].desk EXCEPT !.level = @ - 1, !.cleared = FALSE] \in Desk
         /\ [job[p].desk EXCEPT !.minutes = Given(job[p].minutes, @)] \in Desk
         /\ Ensured(desk, job[p].minutes, now) \in Desk
<1>t. /\ job[p].desk \in Desk /\ job[p].minutes \in Minutes \cup {NoMinutes}
      /\ now \in 0..MaxNow /\ desk \in Desk \cup {NoDesk} /\ JobEarned(job[p], earned)
  BY UnderWay DEF AloneInv, EarnedInv, PracticeTypeOK
<1>1. [job[p].desk EXCEPT !.cleared = TRUE] \in Desk
  BY <1>t DEF Desk
<1>2. NewDesk(IF job[p].cmd = "console all" THEN job[p].desk.minutes
              ELSE job[p].minutes, now) \in Desk
  <2>1. job[p].desk.minutes \in Minutes \cup {NoMinutes, Default}
    BY <1>t DEF Desk
  <2>. QED BY <1>t, <2>1, NewDeskEarned
<1>3. ASSUME job[p].at = "lock"
      PROVE  [job[p].desk EXCEPT !.level = @ - 1, !.cleared = FALSE] \in Desk
  <2>1. job[p].desk.level \in Levels /\ job[p].desk.level > 1
    BY <1>3, <1>t DEF JobEarned, GoingBack, Desk
  <2>2. job[p].desk.level - 1 \in Levels
    BY <2>1, LevelsAreNumbers DEF Levels
  <2>. QED BY <1>t, <2>2 DEF Desk
<1>4. [job[p].desk EXCEPT !.minutes = Given(job[p].minutes, @)] \in Desk
  BY <1>t, ClockTypes
<1>5. Ensured(desk, job[p].minutes, now) \in Desk
  <2>1. desk # NoDesk => DeskEarned(desk, Levels)
    <3>1. \A l \in Levels : \A k \in 1..(l - 1) : k \in Levels
      BY LevelsAreNumbers DEF Levels
    <3>2. desk # NoDesk => desk.level \in Levels /\ (desk.cleared => desk.level = Top)
      BY <1>t DEF Desk, AloneInv, EarnedInv, EveryLevelEarned
    <3>. QED BY <3>1, <3>2, LevelsAreNumbers DEF DeskEarned
  <2>. QED BY <1>t, <2>1, EnsuredEarned
<1>. QED BY <1>1, <1>2, <1>3, <1>4, <1>5

LEMMA EndsStep ==
  ASSUME \A p, q \in Proc : p = q,
         TogetherInv, [Next]_vars, NEW p \in Proc
  PROVE  Ends(p)
<1>. SUFFICES ASSUME ~Idle(p), Idle(p)', faults' = faults, ~noted'
              PROVE  cases' \in {NoWorkspace, desk'.level}
  BY DEF Ends
<1>t. AloneInv /\ faults \in Nat /\ job \in [Proc -> Job \cup {NoJob}]
  <2>1. faults \in 0..MaxFaults /\ MaxFaults \in Nat
    BY PracticeAssumption DEF TogetherInv, AloneInv, EarnedInv, PracticeTypeOK
  <2>. QED BY <2>1, UnderWay DEF TogetherInv
<1>h. /\ job[p] \in Job /\ Follows(job[p], desk) /\ Together(job[p])
      /\ JobEarned(job[p], earned) /\ job[p].desk \in Desk
      /\ job[p].desk.level \in Nat /\ job[p].edited \in BOOLEAN
  BY <1>t, UnderWay DEF TogetherInv
<1>k. /\ ShownFollows(job[p]) /\ FileFollows(job[p])
      /\ job[p].at \in {"public", "record", "hidden", "record hidden"}
           => (~noted => ShowsLevel(job[p].desk.level)) /\ Same(desk, job[p].desk)
  BY <1>h DEF Together, ShownFollows, Follows
<1>1. Continue(p)
  <2>1. ASSUME NEW q \in Proc, Begin(q)
        PROVE  FALSE
    <3>1. Idle(p)
      BY <2>1 DEF Begin, BeginRun, BeginStart, BeginReset, BeginBack, BeginConsoleVscode, Take
    <3>. QED BY <3>1
  <2>2. ASSUME NEW q \in Proc, Fault(q)
        PROVE  FALSE
    BY <1>t, <2>2 DEF Fault
  <2>3. ASSUME NEW w \in Edits, Edit(w)
        PROVE  FALSE
    <3>1. job'[p] = [job[p] EXCEPT !.edited = TRUE]
      BY <2>3 DEF Edit
    <3>2. job'[p] \in Job
      BY <1>h, <3>1 DEF Job
    <3>. QED BY <3>2, JobAssumption DEF Idle
  <2>4. CASE Tick \/ UNCHANGED vars
    BY <2>4 DEF Tick, vars, Idle
  <2>. QED BY <2>1, <2>2, <2>3, <2>4 DEF Next
<1>g. \A step \in Steps : ~Go(p, step)
  BY <1>t, GoKeeps
<1>r. WorkspaceWritten(job[p]) \/ WorkspaceRefused(job[p])
        => cases' \in {NoWorkspace, LevelToShow(job[p])}
  BY CallShows
<1>2. CASE RunFails(p)
  BY <1>2, <1>k DEF RunFails, At, ShowsLevel, Same
<1>3. CASE RecordPublic(p) \/ RecordHidden(p)
  BY <1>3, <1>k DEF RecordPublic, RecordHidden, At, Save, ShowsLevel
<1>4. CASE UnlockNext(p)
  <2>1. desk'.level = job[p].desk.level + 1
    BY <1>4, <1>h DEF UnlockNext, Save, Desk
  <2>. QED BY <1>4, <1>k, <2>1 DEF UnlockNext, At, ShownFollows, ShowsLevel
<1>5. CASE SaveStart(p)
  <2>1. job[p].cmd = "back" /\ job[p].at = "save"
    BY <1>5, <1>g DEF SaveStart, At, Cmd, Steps
  <2>2. Same(desk, job[p].desk) /\ (~noted => cases \in {NoWorkspace, desk.level})
    BY <1>h, <1>k, <2>1 DEF ShownFollows, ShowsLevel, Follows
  <2>. QED BY <1>5, <2>2 DEF SaveStart, Save, Same
<1>6. CASE ReadWork(p)
  <2>1. CASE work = NoClass /\ job[p].cmd = "submit"
    BY <1>6, <1>h, <1>k, <2>1 DEF ReadWork, At, ShownFollows, ShowsLevel, Follows, Same
  <2>2. CASE ~(work = NoClass /\ job[p].cmd = "submit")
    <3>. DEFINE step == IF work = NoClass \/ Covers(work, LevelToOpen(job[p]))
                        THEN "shelve" ELSE "write"
                j == [job[p] EXCEPT !.seen = work, !.edited = FALSE, !.at = step]
    <3>1. job'[p] = j
      BY <1>6, <1>t, <2>2 DEF ReadWork
    <3>2. work \in WorkFile /\ step \in Steps
      BY DEF TogetherInv, AloneInv, EarnedInv, PracticeTypeOK, Steps
    <3>3. j \in Job
      BY <1>h, <3>2 DEF Job
    <3>. QED BY <3>1, <3>3, JobAssumption DEF Idle
  <2>. QED BY <2>1, <2>2
<1>7. CASE Shelve(p)
  <2>1. /\ job[p].at = "shelve" /\ desk' = desk /\ job[p].cmd # "submit"
        /\ cases' \in {NoWorkspace, LevelToShow(job[p])}
    BY <1>7, <1>g, <1>r DEF Shelve, At, Steps
  <2>2. Same(desk, job[p].desk)
    BY <1>h, <2>1 DEF Follows
  <2>. QED BY <2>1, <2>2 DEF LevelToShow, LevelToOpen, Same
<1>8. CASE Rewrite(p)
  <2>1. desk.level = job[p].desk.level /\ job[p].at = "rewrite"
    BY <1>8, <1>k DEF Rewrite, At, ShownFollows
  <2>. QED BY <1>8, <1>r, <2>1 DEF Rewrite, LevelToShow
<1>10. CASE \/ RefreshBeforeRun(p) \/ PublicRun(p) \/ HiddenRun(p) \/ MarkCleared(p)
            \/ WriteWork(p) \/ SliceWork(p) \/ StartOver(p) \/ LockToLevel(p)
            \/ ChangeMinutes(p) \/ ReloadAfterBack(p)
  <2>1. ~(RefreshBeforeRun(p) \/ WriteWork(p) \/ SliceWork(p))
    BY <1>g DEF RefreshBeforeRun, WriteWork, SliceWork, Steps
  <2>2. \A d \in Desk, step \in Steps :
          job'[p] # [job[p] EXCEPT !.desk = d, !.at = step]
    BY <1>h, JobAssumption DEF Idle, Job
  <2>k. \A ok \in BOOLEAN, step \in Steps :
          job'[p] # [job[p] EXCEPT !.ok = ok, !.at = step]
    BY <1>h, JobAssumption DEF Idle, Job
  <2>3. ~PublicRun(p)
    <3>1. CanPass(p) \in BOOLEAN
      BY DEF CanPass, Passes
    <3>2. PublicRun(p) => job'[p] = [job[p] EXCEPT !.ok = CanPass(p), !.at = "record"]
      BY <1>t DEF PublicRun
    <3>. QED BY <2>k, <3>1, <3>2 DEF Steps
  <2>4. ~HiddenRun(p)
    <3>1. HiddenRun(p) => \E passes \in BOOLEAN :
            job'[p] = [job[p] EXCEPT !.ok = passes, !.at = "record hidden"]
      BY <1>t DEF HiddenRun
    <3>. QED BY <2>k, <3>1 DEF Steps
  <2>5. ~MarkCleared(p)
    <3>. DEFINE d == [job[p].desk EXCEPT !.cleared = TRUE]
    <3>1. d \in Desk
      BY <1>t, DesksHeld
    <3>2. MarkCleared(p) => job'[p] = [job[p] EXCEPT !.desk = d, !.at = "rewrite"]
      BY <1>t, <1>h DEF MarkCleared, Job
    <3>. HIDE DEF d
    <3>. QED BY <2>2, <3>1, <3>2 DEF Steps
  <2>6. ~StartOver(p)
    <3>. DEFINE d == NewDesk(IF job[p].cmd = "console all" THEN job[p].desk.minutes
                             ELSE job[p].minutes, now)
    <3>1. d \in Desk
      BY <1>t, DesksHeld
    <3>2. StartOver(p) => job'[p] = [job[p] EXCEPT !.desk = d, !.at = "rewrite"]
      BY <1>t DEF StartOver
    <3>. HIDE DEF d
    <3>. QED BY <2>2, <3>1, <3>2 DEF Steps
  <2>7. ~LockToLevel(p)
    <3>. DEFINE d == [job[p].desk EXCEPT !.level = @ - 1, !.cleared = FALSE]
    <3>1. LockToLevel(p) => d \in Desk
      BY <1>t, DesksHeld DEF LockToLevel, At
    <3>2. LockToLevel(p) => job'[p] = [job[p] EXCEPT !.desk = d, !.at = "change"]
      BY <1>t DEF LockToLevel
    <3>. HIDE DEF d
    <3>. QED BY <2>2, <3>1, <3>2 DEF Steps
  <2>8. ~ChangeMinutes(p)
    <3>. DEFINE d == [job[p].desk EXCEPT !.minutes = Given(job[p].minutes, @)]
    <3>1. d \in Desk
      BY <1>t, DesksHeld
    <3>2. ChangeMinutes(p) => job'[p] = [job[p] EXCEPT !.desk = d, !.at = "shelve"]
      BY <1>t DEF ChangeMinutes
    <3>. HIDE DEF d
    <3>. QED BY <2>2, <3>1, <3>2 DEF Steps
  <2>9. ~ReloadAfterBack(p)
    <3>. DEFINE d == Ensured(desk, job[p].minutes, now)
    <3>1. d \in Desk
      BY <1>t, DesksHeld
    <3>2. ReloadAfterBack(p) => job'[p] = [job[p] EXCEPT !.desk = d, !.at = "save"]
      BY <1>t DEF ReloadAfterBack
    <3>. HIDE DEF d
    <3>. QED BY <2>2, <3>1, <3>2 DEF Steps
  <2>. QED BY <1>10, <2>1, <2>3, <2>4, <2>5, <2>6, <2>7, <2>8, <2>9
<1>. QED BY <1>1, <1>2, <1>3, <1>4, <1>5, <1>6, <1>7, <1>8, <1>10 DEF Continue

-----------------------------------------------------------------------------
(* Theorems *)

(* What a command read, saw and copied is so while it is alone.            *)
THEOREM TogetherInvariant ==
  ASSUME \A p, q \in Proc : p = q
  PROVE  Spec => []TogetherInv
<1>1. Init => TogetherInv
  BY TogetherInit
<1>2. TogetherInv /\ [Next]_vars => TogetherInv'
  BY TogetherStep
<1>. QED BY <1>1, <1>2, PTL DEF Spec

(* submit opens a level over a work file that has every method of it       *)
(* (cmd_submit merges before unlock_next is saved), for every way in which *)
(* levels are solved, spoilt and opened again.                             *)
THEOREM LevelsOpenOverMethods ==
  ASSUME \A p, q \in Proc : p = q
  PROVE  Spec => OpensOverItsMethods
<1>1. TogetherInv /\ [Next]_vars
        => [\A p \in Proc :
             At(p, "unlock") /\ desk' # desk /\ ~job[p].edited
               => Covers(work, desk'.level)]_vars
  BY OpensStep DEF Opens
<1>. QED BY <1>1, TogetherInvariant, PTL DEF Spec, OpensOverItsMethods

(* run, submit, start, console and vscode keep every method that is solved *)
(* (merge_unlocked_methods), unless the editor saves between their reading *)
(* and their writing.                                                      *)
THEOREM SolutionsAreKept ==
  ASSUME \A p, q \in Proc : p = q
  PROVE  Spec => KeepsSolutions
<1>1. TogetherInv /\ [Next]_vars
        => [\A p \in Proc :
             /\ ~Idle(p) /\ Cmd(p) \notin Destructive /\ work \in Source
             /\ job'[p] # job[p]
             /\ ~job[p].edited /\ (Idle(p)' \/ ~job'[p].edited)
             => /\ work' \in Source
                /\ \A l \in Levels : work[l] = "solved" => work'[l] = "solved"]_vars
  BY KeepsStep DEF Keeps
<1>. QED BY <1>1, TogetherInvariant, PTL DEF Spec, KeepsSolutions

(* A clock that runs is started again only by a reset or by --minutes that *)
(* are over already (ensure_session, new_session).                         *)
THEOREM ClocksKeepRunning ==
  ASSUME \A p, q \in Proc : p = q
  PROVE  Spec => ClockKeepsRunning
<1>1. TogetherInv /\ [Next]_vars
        => [desk # NoDesk /\ desk' # NoDesk /\ Running(desk, now)
            /\ desk'.started # desk.started
              => \E p \in Proc :
                   /\ ~Idle(p)
                   /\ \/ job[p].cmd \in {"reset", "console all"}
                      \/ ~Running([desk EXCEPT !.minutes = Given(job[p].minutes, @)], now)]_vars
  BY SetsBackStep DEF SetsBack
<1>. QED BY <1>1, TogetherInvariant, PTL DEF Spec, ClockKeepsRunning

(* A command that ends and was not told that the workspace failed leaves   *)
(* in it the public traces of the open level (cases.json), for every order *)
(* of commands that died and calls that failed before it                   *)
(* (refresh_workspace, write_workspace).                                   *)
THEOREM CommandsEndAtTheOpenLevel ==
  ASSUME \A p, q \in Proc : p = q
  PROVE  Spec => EndsAtTheOpenLevel
<1>1. TogetherInv /\ [Next]_vars
        => [\A p \in Proc :
             ~Idle(p) /\ Idle(p)' /\ faults' = faults /\ ~noted'
               => cases' \in {NoWorkspace, desk'.level}]_vars
  BY EndsStep DEF Ends
<1>. QED BY <1>1, TogetherInvariant, PTL DEF Spec, EndsAtTheOpenLevel
=============================================================================
