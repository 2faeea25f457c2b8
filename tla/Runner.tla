------------------------------- MODULE Runner ------------------------------
(***************************************************************************)
(* One run of the work file against the traces of a level (runner.py,      *)
(* _pyrun.py, traces.py): the command finds the pack's recipe and its      *)
(* tools, lays out or builds the file, starts one child that replays the   *)
(* cases, waits for it within a time limit and reads its report.  Around   *)
(* it the user saves the file, installs tools and presses Ctrl-C, and the  *)
(* child runs the user's code, which may do anything to it.                *)
(***************************************************************************)
EXTENDS PackMeta, FiniteSets

CONSTANTS
  Suite,     \* the cases of the problem: the file and the level of each
  Level,     \* the level that is run
  Text,      \* what the work file may hold
  RunLimit,  \* RUN_TIMEOUT_S, in ticks
  MaxRuns,   \* bound: how many runs the process makes
  NoText, NoRecipe, NoReport

VARIABLES
  file,     \* the work file
  tools,    \* whether the tools of the pack are on PATH
  at,       \* the step that the run is at
  recipe,   \* the recipe that it uses
  given,    \* whether its cases are given to it: those of the hidden suite
  tmp,      \* whether a temporary directory, or file of cases, of it is there
  stuck,    \* history: whether the system refused to remove it
  copied,   \* the text that it laid out in that directory
  left,     \* the ticks that the child still has
  child,    \* the child
  outcome,  \* what the run ended with
  runs      \* how many runs were begun

runVars == <<file, tools, at, recipe, given, tmp, stuck, copied, left, child, outcome, runs>>
vars == <<metaVars, runVars>>

-----------------------------------------------------------------------------
(* Types *)

(* _load_suite_cases: the files up to the level, and of them the cases up  *)
(* to the level.                                                           *)
CasesBelow(l) == {c \in Suite : c.file < l /\ c.level <= l}

LoadCases(l) == {c \in Suite : c.file <= l /\ c.level <= l}

Case == LoadCases(Level)

(* A text is what it does to the run: whether it compiles and declares the *)
(* class, how each case ends, whether it goes on printing after the report *)
(* (no second one), and whether it leaves a process that holds the pipe.   *)
TextRecord == [loads : BOOLEAN, does : [Suite -> {"right", "wrong", "hangs", "dies"}],
               late : BOOLEAN, leaves : BOOLEAN]

RecipeRecord == [kind : {"hook", "script", "compiled"}, tool : {"bare", "listed"},
                 steps : BOOLEAN, file : BOOLEAN]

(* Every case of a level is in the file of that level or an earlier one.   *)
ASSUME SuiteAssumption ==
  /\ IsFiniteSet(Suite)
  /\ Suite \subseteq [id : Nat, file : Nat, level : Nat]
  /\ \A c \in Suite : c.file <= c.level
  /\ Level \in Nat

ASSUME RunnerAssumption ==
  /\ Text \subseteq TextRecord /\ NoText \notin Text
  /\ Recipe \subseteq RecipeRecord /\ NoRecipe \notin Recipe
  /\ \A r \in Recipe : r.file => r.kind = "compiled"
  /\ RunLimit \in Nat /\ MaxRuns \in Nat
  /\ NoReport \notin [passed : Nat, failed : SUBSET Suite]

Steps == {"idle", "known", "recipe", "source", "tool", "fill", "layout", "build",
          "launch", "wait"}

Child == [at : {"none", "starting", "judging", "reported", "exited"},
          text : Text \cup {NoText}, right : SUBSET Case, wrong : SUBSET Case,
          report : [passed : Nat, failed : SUBSET Case] \cup {NoReport},
          late : BOOLEAN, held : BOOLEAN, code : {0, 1}]

RunnerTypeOK ==
  /\ MetaTypeOK
  /\ file \in Text \cup {NoText}
  /\ tools \in BOOLEAN
  /\ at \in Steps
  /\ recipe \in Recipe \cup {NoRecipe}
  /\ given \in BOOLEAN
  /\ tmp \in BOOLEAN
  /\ stuck \in BOOLEAN
  /\ copied \in Text \cup {NoText}
  /\ left \in 0..RunLimit
  /\ child \in Child
  /\ outcome \in {"idle", "none", "pass", "fail", "error", "interrupted"}
  /\ runs \in 0..MaxRuns

NoChild == [at |-> "none", text |-> NoText, right |-> {}, wrong |-> {},
            report |-> NoReport, late |-> FALSE, held |-> FALSE, code |-> 0]

Init ==
  /\ MetaInit
  /\ file \in Text \cup {NoText}
  /\ tools \in BOOLEAN
  /\ at = "idle"
  /\ recipe = NoRecipe
  /\ given = FALSE
  /\ tmp = FALSE
  /\ stuck = FALSE
  /\ copied = NoText
  /\ left = 0
  /\ child = NoChild
  /\ outcome = "idle"
  /\ runs = 0

-----------------------------------------------------------------------------
(* Helpers of the steps *)

Kill(ch) == IF ch.at = "none" THEN ch ELSE [ch EXCEPT !.at = "exited"]

(* The run ends, with what it made there or not; subprocess.run kills the  *)
(* child that it did not wait for.                                         *)
Stop(result, there) ==
  /\ at' = "idle"
  /\ outcome' = result
  /\ tmp' = there
  /\ child' = Kill(child)
  /\ UNCHANGED <<file, tools, recipe, given, copied, left, runs>>

(* The context manager or the finally clause takes away what the run made, *)
(* which the system may refuse: the finally clause of run_python passes    *)
(* over that, the directory's context manager raises an error of its own.  *)
End(result) ==
  \/ Stop(result, FALSE) /\ UNCHANGED stuck
  \/ /\ tmp /\ stuck' = TRUE
     /\ Stop(IF recipe.kind = "hook" THEN result ELSE "error", TRUE)

GoTo(step) ==
  /\ at' = step
  /\ UNCHANGED <<file, tools, recipe, given, stuck, copied, left, child, outcome, runs>>

-----------------------------------------------------------------------------
(* The command (run, _run_pack) *)

Begin(h) ==
  /\ at = "idle"
  /\ runs < MaxRuns
  /\ runs' = runs + 1
  /\ at' = "known"
  /\ given' = h
  /\ recipe' = NoRecipe /\ copied' = NoText /\ child' = NoChild /\ outcome' = "none"
  /\ tmp' = FALSE /\ stuck' = FALSE
  /\ UNCHANGED <<metaVars, file, tools, left>>

Ask == at \in {"known", "recipe"} /\ AskTime /\ UNCHANGED runVars

(* The pack is loaded twice: first to see that there is a runner, then for *)
(* the recipe.                                                             *)
KnowPack ==
  /\ at = "known"
  /\ Load
  /\ IF got' \in Recipe THEN GoTo("recipe") /\ UNCHANGED tmp ELSE End("error")

(* Mistake: what the second load finds is not looked at. *)
TakeAnything ==
  /\ at = "recipe"
  /\ Load
  /\ recipe' = got' /\ at' = "source"
  /\ UNCHANGED <<file, tools, given, tmp, stuck, copied, left, child, outcome, runs>>

TakeRecipe ==
  /\ at = "recipe"
  /\ Load
  /\ IF got' \in Recipe
     THEN /\ recipe' = got' /\ at' = "source"
          /\ UNCHANGED <<file, tools, given, tmp, stuck, copied, left, child, outcome, runs>>
     ELSE End("error")

(* pack_src, then what each kind of recipe makes first: the hook a file    *)
(* for the cases that are given, a build its directory.  Each may fail.    *)
CheckSource ==
  /\ at = "source"
  /\ UNCHANGED metaVars
  /\ \/ End("error")
     \/ /\ file # NoText
        /\ \/ recipe.kind = "hook" /\ given /\ GoTo("fill") /\ tmp' = TRUE
           \/ recipe.kind = "hook" /\ ~given /\ GoTo("launch") /\ UNCHANGED tmp
           \/ recipe.kind = "script" /\ GoTo("tool") /\ UNCHANGED tmp
           \/ recipe.kind = "compiled" /\ GoTo("layout") /\ tmp' = TRUE

(* run_python writes the cases before the try that takes their file away:  *)
(* a write that fails ends the run and leaves it.                          *)
FillCases ==
  /\ at = "fill"
  /\ UNCHANGED metaVars
  /\ \/ GoTo("launch") /\ UNCHANGED tmp
     \/ Stop("error", tmp) /\ UNCHANGED stuck

(* resolve_tool looks a tool up where the recipe lists several or has its  *)
(* own words for the error.  Then a script's directory is made.            *)
FindTool ==
  /\ at = "tool"
  /\ UNCHANGED metaVars
  /\ \/ End("error")
     \/ (recipe.tool = "listed" => tools) /\ GoTo("launch") /\ tmp' = TRUE

(* lay_out copies the file as it is now. *)
LayOut ==
  /\ at = "layout"
  /\ UNCHANGED metaVars
  /\ \/ End("error")
     \/ /\ file # NoText
        /\ copied' = file
        /\ at' = IF recipe.steps THEN "build" ELSE "launch"
        /\ UNCHANGED <<file, tools, recipe, given, tmp, stuck, left, child, outcome, runs>>

(* The build needs the tools and a text that compiles, and may always run  *)
(* past COMPILE_TIMEOUT_S.                                                 *)
Build ==
  /\ at = "build"
  /\ UNCHANGED metaVars
  /\ \/ End("error")
     \/ tools /\ copied.loads /\ GoTo("launch") /\ UNCHANGED tmp

(* What is started may be the tool, which is needed then, or what was      *)
(* built; the hook starts the interpreter that runs honepad.  The cases of *)
(* a directory may be refused before, and the child by the system.         *)
Launch ==
  /\ at = "launch"
  /\ UNCHANGED metaVars
  /\ \/ End("error")
     \/ /\ recipe.kind = "script" => tools
        /\ child' = [NoChild EXCEPT !.at = "starting"]
        /\ left' = RunLimit
        /\ at' = "wait"
        /\ UNCHANGED <<file, tools, recipe, given, tmp, stuck, copied, outcome, runs>>

-----------------------------------------------------------------------------
(* Reading the report (report_from_proc) *)

(* Mistake: the counts are not compared. *)
RefusedUncounted(ch) ==
  \/ ch.report = NoReport
  \/ ~recipe.file /\ ch.late
  \/ ch.code # 0 /\ ch.report.failed = {}

(* Mistake: an adapter that exits 1 has failed, whatever it reports. *)
RefusedByCode(ch) == RefusedUncounted(ch) \/ ch.code # 0

(* No report; a last line of standard output that is not the report, if it *)
(* is not in a file of its own; counts that are not those of the cases;    *)
(* an exit code that says otherwise.                                       *)
RefusesReport(ch) ==
  \/ ch.report = NoReport
  \/ ~recipe.file /\ ch.late
  \/ ch.report.passed + Cardinality(ch.report.failed) # Cardinality(Case)
  \/ ch.code # 0 /\ ch.report.failed = {}

Result(ch) ==
  IF RefusesReport(ch) THEN "error" ELSE IF ch.report.failed = {} THEN "pass" ELSE "fail"

(* subprocess.run returns when the child has exited and nobody holds its   *)
(* pipe any more.                                                          *)
Collect ==
  /\ at = "wait"
  /\ child.at = "exited" /\ ~child.held
  /\ UNCHANGED metaVars
  /\ End(Result(child))

(* Mistake: after the time limit the pipe is still read to its end. *)
TimeOutAtEnd ==
  /\ at = "wait"
  /\ left = 0 /\ ~child.held
  /\ UNCHANGED metaVars
  /\ End("error")

(* TimeoutExpired: the child is killed, what it started is not. *)
TimeOut ==
  /\ at = "wait"
  /\ left = 0
  /\ UNCHANGED metaVars
  /\ End("error")

(* run_python makes its file of cases, and fills it, before the try. *)
Unguarded == at = "fill" \/ (at = "launch" /\ recipe.kind = "hook" /\ given)

(* Mistake: the file of cases is only taken away when the child has ended. *)
InterruptNoFinally ==
  /\ at # "idle"
  /\ DropLoad
  /\ Stop("interrupted", tmp) /\ UNCHANGED stuck

(* Ctrl-C in the command *)
Interrupt ==
  /\ at # "idle"
  /\ DropLoad
  /\ \/ at # "fill" /\ End("interrupted")
     \/ Unguarded /\ Stop("interrupted", tmp) /\ UNCHANGED stuck

-----------------------------------------------------------------------------
(* The child: run_python_body in _pyrun, or the adapter of the pack *)

Lives == child.at \in {"starting", "judging", "reported"}

(* Only the child changes. *)
Becomes(ch) ==
  /\ Lives
  /\ child' = ch
  /\ UNCHANGED <<metaVars, file, tools, at, recipe, given, tmp, stuck, copied, left, outcome, runs>>

Exits(ch, code) == [ch EXCEPT !.at = "exited", !.code = code]

(* Mistake: the build's program reads the file itself. *)
SourceNow == file

Source == IF recipe.kind = "compiled" THEN copied ELSE file

(* The text is read once.  One that is gone, does not compile or lacks the *)
(* class ends the child without a report.                                  *)
ChildLoads ==
  /\ child.at = "starting"
  /\ IF Source # NoText /\ Source.loads
     THEN Becomes([child EXCEPT !.at = "judging", !.text = Source])
     ELSE Becomes(Exits(child, 1))

(* The first call of a case that fails ends the case.  Code that hangs     *)
(* takes no step; code that ends its process leaves any exit code.         *)
ChildJudges(c) ==
  /\ child.at = "judging"
  /\ c \in Case \ (child.right \cup child.wrong)
  /\ \/ child.text.does[c] = "right" /\ Becomes([child EXCEPT !.right = @ \cup {c}])
     \/ child.text.does[c] = "wrong" /\ Becomes([child EXCEPT !.wrong = @ \cup {c}])
     \/ child.text.does[c] = "dies" /\ \E code \in {0, 1} : Becomes(Exits(child, code))

(* The report counts the cases that passed and names those that failed.    *)
(* An adapter of a pack may lose some of either but invents none; _pyrun   *)
(* does neither.                                                           *)
ChildReports(passed, failed) ==
  /\ child.at = "judging"
  /\ child.right \cup child.wrong = Case
  /\ passed <= Cardinality(child.right) /\ failed \subseteq child.wrong
  /\ recipe.kind = "hook" => passed = Cardinality(child.right) /\ failed = child.wrong
  /\ Becomes([child EXCEPT !.at = "reported",
                           !.report = [passed |-> passed, failed |-> failed]])

(* _pyrun leaves with os._exit and the code of its report: nothing of the  *)
(* user's code runs, or prints, after it.  Another adapter may exit with   *)
(* any code, or stay.                                                      *)
ChildExits ==
  /\ child.at = "reported"
  /\ \E code \in {0, 1} :
       /\ recipe.kind = "hook" => code = IF child.wrong = {} THEN 0 ELSE 1
       /\ Becomes([child EXCEPT !.at = "exited", !.code = code, !.held = child.text.leaves,
                                !.late = child.text.late /\ recipe.kind # "hook"])

-----------------------------------------------------------------------------
(* What happens around the run *)

(* The process that the user's code left behind ends, or lets go of the    *)
(* pipe.                                                                   *)
LetGo ==
  /\ child.held
  /\ child' = [child EXCEPT !.held = FALSE]
  /\ UNCHANGED <<metaVars, file, tools, at, recipe, given, tmp, stuck, copied, left, outcome, runs>>

SaveFile(t) ==
  /\ file # t
  /\ file' = t
  /\ UNCHANGED <<metaVars, tools, at, recipe, given, tmp, stuck, copied, left, child, outcome, runs>>

ChangeTools ==
  /\ tools' = ~tools
  /\ UNCHANGED <<metaVars, file, at, recipe, given, tmp, stuck, copied, left, child, outcome, runs>>

WritePack(c) == WriteMeta(c) /\ UNCHANGED runVars

Tick ==
  /\ at = "wait" /\ left > 0
  /\ left' = left - 1
  /\ UNCHANGED <<metaVars, file, tools, at, recipe, given, tmp, stuck, copied, child, outcome, runs>>

-----------------------------------------------------------------------------

Command ==
  \/ Ask \/ KnowPack \/ TakeRecipe \/ CheckSource \/ FillCases \/ FindTool \/ LayOut
  \/ Build \/ Launch \/ Collect \/ TimeOut

ChildStep ==
  \/ ChildLoads
  \/ \E c \in Case : ChildJudges(c)
  \/ \E n \in 0..Cardinality(Case), f \in SUBSET Case : ChildReports(n, f)
  \/ ChildExits

Around ==
  \/ \E h \in BOOLEAN : Begin(h)
  \/ Interrupt
  \/ \E t \in Text \cup {NoText} : SaveFile(t)
  \/ \E c \in Content : WritePack(c)
  \/ ChangeTools
  \/ LetGo

Next == Command \/ ChildStep \/ Around \/ Tick

Spec == Init /\ [][Next]_vars

(* The command takes its next step and the clock goes on.  Nothing is      *)
(* asked of the child, of what it started, or of the user.                 *)
FairSpec == Spec /\ WF_vars(Command) /\ WF_vars(Tick)

-----------------------------------------------------------------------------
(* Properties *)

Solves(t) == \A c \in Suite : c.level <= Level => t.does[c] = "right"

(* A run that passes was of one text, and that text answers every case up  *)
(* to the level, whatever the adapter lost, the exit code said, or the     *)
(* user printed and saved meanwhile (report_from_proc).                    *)
PassMeansSolved == outcome = "pass" => child.text # NoText /\ Solves(child.text)

(* A run that has ended left no child running.  What it made on disk is    *)
(* left in two cases only: the system refused to remove it; or the run     *)
(* used the hook with cases given to it, and ended, by Ctrl-C or by an     *)
(* error, before it came to the try around the child (runner.py:521-528).  *)
(* And a directory that stays never goes with a verdict: only the file of  *)
(* cases, whose removal may fail unseen (runner.py:543), does.             *)
NothingLeft ==
  at = "idle" =>
    /\ ~Lives
    /\ tmp => \/ stuck
              \/ /\ recipe.kind = "hook" /\ given /\ child.at = "none"
                 /\ outcome \in {"error", "interrupted"}
    /\ tmp /\ outcome \in {"pass", "fail"} => recipe.kind = "hook" /\ given

(* A run ends though the user's code hangs, though what it started holds   *)
(* the pipe for ever, and whatever the user does to file, pack and tools.  *)
RunEnds == at # "idle" ~> at = "idle"

(* A text that is judged is not refused: where the report is whole and in  *)
(* time, the exit code agrees and nothing is printed after it, the run     *)
(* ends with a verdict (ADDING-A-LANGUAGE.md, Report line), unless its     *)
(* directory cannot be removed.                                            *)
Whole(ch) ==
  /\ ch.report = [passed |-> Cardinality(ch.right), failed |-> ch.wrong]
  /\ ~ch.late \/ recipe.file
  /\ (ch.code = 0) = (ch.wrong = {})

JudgedIfWhole ==
  [][at = "wait" /\ outcome' = "error" /\ ~stuck' /\ child.at = "exited" /\ left > 0
       => ~Whole(child)]_vars

(* The run looks at the work file at one moment, also when the user saves  *)
(* it while it is built and run: it does what Verdict allows.              *)
Verdict == INSTANCE Verdict WITH
  Solving <- {t \in Text : Solves(t)},
  seen    <- IF copied # NoText THEN copied ELSE child.text,
  verdict <- outcome

JudgesOneMoment == Verdict!VerdictSpec
=============================================================================
