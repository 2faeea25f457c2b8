---------------------------- MODULE RunnerProofs ---------------------------
(***************************************************************************)
(* Runner for every suite, text, recipe and time limit: a run passes only  *)
(* a text that solves the level, judges the file of one moment, uses the   *)
(* pack as it was during the load, and leaves on disk only what the system *)
(* keeps from it, or what it made before its try.                          *)
(***************************************************************************)
EXTENDS Runner, FiniteSetTheorems, TLAPS

-----------------------------------------------------------------------------
(* The pack's recipe *)

(* What memory holds for the present time is what the file holds, and it   *)
(* holds nothing for a time to come.                                       *)
MemoryIsTrue ==
  /\ \A t \in Time : t > meta.mtime => cache[t] = NoCopy
  /\ cache[meta.mtime] \in {NoCopy, meta.holds}
  /\ load # NoLoad => /\ load <= meta.mtime
                      /\ meta.holds \in held
                      /\ cache[load] \in {NoCopy} \cup held

MetaInv == MetaTypeOK /\ MemoryIsTrue /\ LoadsAreCurrent

MetaNext ==
  \/ AskTime \/ Load \/ DropLoad
  \/ \E c \in Content : WriteMeta(c)
  \/ UNCHANGED metaVars

LEMMA MetaStep == MetaInv /\ MetaNext => MetaInv'
<1>. SUFFICES ASSUME MetaInv, MetaNext PROVE MetaInv'
  OBVIOUS
<1>. USE MetaAssumption
<1>a. MetaTypeOK /\ MemoryIsTrue /\ LoadsAreCurrent
  BY DEF MetaInv
<1>0. /\ meta.mtime \in Time /\ meta.holds \in Content /\ MaxWrites \in Nat /\ Time \subseteq Nat
      /\ load # NoLoad => load \in Time
  BY <1>a DEF MetaTypeOK, Time
<1>1. CASE AskTime
  BY <1>a, <1>0, <1>1 DEF AskTime, MetaInv, MetaTypeOK, MemoryIsTrue, LoadsAreCurrent
<1>2. CASE Load
  <2>1. load \in Time /\ load' = NoLoad /\ meta' = meta /\ held' = held
    BY <1>0, <1>2 DEF Load
  <2>2. CASE cache[load] # NoCopy
    <3>1. got' = cache[load] /\ cache' = cache /\ cache[load] \in Content
      BY <1>a, <1>2, <2>1, <2>2 DEF Load, MetaTypeOK
    <3>. QED
      BY <1>a, <1>0, <2>1, <2>2, <3>1 DEF MetaInv, MetaTypeOK, MemoryIsTrue, LoadsAreCurrent
  <2>3. CASE cache[load] = NoCopy
    <3>1. got' = meta.holds /\ meta.holds \in held
          /\ cache' = IF meta.holds = Broken THEN cache ELSE [cache EXCEPT ![load] = meta.holds]
      BY <1>a, <1>2, <2>3 DEF Load, Remember, MemoryIsTrue
    <3>2. MetaTypeOK'
      BY <1>a, <1>0, <2>1, <3>1 DEF MetaTypeOK
    <3>3. MemoryIsTrue'
      <4>1. /\ \A t \in Time : t # load => cache'[t] = cache[t]
            /\ cache'[load] \in {NoCopy, meta.holds}
        BY <1>a, <1>0, <2>1, <2>3, <3>1 DEF MetaTypeOK
      <4>. QED
        BY <1>a, <1>0, <2>1, <4>1 DEF MemoryIsTrue, Time
    <3>. QED
      BY <2>1, <3>1, <3>2, <3>3 DEF MetaInv, LoadsAreCurrent
  <2>. QED BY <2>2, <2>3
<1>3. CASE DropLoad
  BY <1>a, <1>3 DEF MetaInv, DropLoad, MetaTypeOK, MemoryIsTrue, LoadsAreCurrent
<1>4. ASSUME NEW c \in Content, WriteMeta(c) PROVE MetaInv'
  <2>1. /\ meta' = [holds |-> c, mtime |-> meta.mtime + 1] /\ meta.mtime + 1 \in Time
        /\ cache' = cache /\ load' = load /\ got' = got
    BY <1>a, <1>0, <1>4 DEF WriteMeta, Time
  <2>2. held \subseteq held' /\ held' \subseteq Content /\ (load # NoLoad => c \in held')
    BY <1>a, <1>4 DEF WriteMeta, MetaTypeOK, MemoryIsTrue
  <2>3. MetaTypeOK'
    BY <1>a, <2>1, <2>2 DEF MetaTypeOK
  <2>4. MemoryIsTrue'
    BY <1>a, <1>0, <2>1, <2>2 DEF MemoryIsTrue, MetaTypeOK, Time
  <2>. QED BY <1>a, <2>1, <2>2, <2>3, <2>4 DEF MetaInv, LoadsAreCurrent
<1>5. CASE UNCHANGED metaVars
  BY <1>a, <1>5 DEF MetaInv, metaVars, MetaTypeOK, MemoryIsTrue, LoadsAreCurrent, Time
<1>. QED BY <1>1, <1>2, <1>3, <1>4, <1>5, Zenon DEF MetaNext

LEMMA MetaStarts == MetaInit => MetaInv
BY MetaAssumption DEF MetaInit, MetaInv, MetaTypeOK, MemoryIsTrue, LoadsAreCurrent, Time, Content

(* Every step of a run loads the pack, or leaves it alone.                 *)
LEMMA RunStepsMeta == [Next]_vars => MetaNext
<1>1. Command => MetaNext
  BY DEF Command, MetaNext, Ask, KnowPack, TakeRecipe, CheckSource, FillCases, FindTool, LayOut,
         Build, Launch, Collect, TimeOut
<1>2. ChildStep => MetaNext
  BY DEF ChildStep, MetaNext, ChildLoads, ChildJudges, ChildReports, ChildExits, Becomes, metaVars
<1>3. Around => MetaNext
  BY DEF Around, MetaNext, Begin, Interrupt, SaveFile, WritePack, ChangeTools, LetGo, metaVars
<1>4. Tick => MetaNext
  BY DEF Tick, MetaNext, metaVars
<1>. QED BY <1>1, <1>2, <1>3, <1>4 DEF Next, vars, MetaNext, metaVars

-----------------------------------------------------------------------------
(* Cases and texts *)

LEMMA CasesAreFinite ==
  /\ IsFiniteSet(Case) /\ Cardinality(Case) \in Nat
  /\ Case = {c \in Suite : c.level <= Level}
  /\ \A S \in SUBSET Case : IsFiniteSet(S) /\ Cardinality(S) \in Nat
  /\ \A S \in SUBSET Case : Cardinality(S) >= Cardinality(Case) => S = Case
<1>1. Case \subseteq Suite /\ IsFiniteSet(Case)
  BY SuiteAssumption, FS_Subset DEF Case, LoadCases
<1>2. Case = {c \in Suite : c.level <= Level}
  <2>1. ASSUME NEW c \in Suite, c.level <= Level PROVE c.file <= Level
    BY <2>1, SuiteAssumption
  <2>. QED BY <2>1 DEF Case, LoadCases
<1>3. \A S \in SUBSET Case : /\ IsFiniteSet(S) /\ Cardinality(S) <= Cardinality(Case)
                             /\ Cardinality(Case) = Cardinality(S) => S = Case
  BY <1>1, FS_Subset
<1>4. \A S : IsFiniteSet(S) => Cardinality(S) \in Nat
  BY FS_CardinalityType
<1>5. Cardinality(Case) \in Nat /\ \A S \in SUBSET Case : Cardinality(S) \in Nat
  BY <1>1, <1>3, <1>4
<1>6. \A S \in SUBSET Case : Cardinality(S) >= Cardinality(Case) => S = Case
  <2>. SUFFICES ASSUME NEW S \in SUBSET Case, Cardinality(S) >= Cardinality(Case) PROVE S = Case
    OBVIOUS
  <2>1. Cardinality(S) <= Cardinality(Case) /\ Cardinality(S) \in Nat
    BY <1>3, <1>5
  <2>2. Cardinality(Case) = Cardinality(S)
    BY <1>5, <2>1
  <2>. QED BY <1>3, <2>2
<1>. QED BY <1>1, <1>2, <1>3, <1>5, <1>6

(* A text that answers every case of the run solves the level. *)
LEMMA AllCasesSolve ==
  ASSUME NEW t, \A c \in Case : t.does[c] = "right"
  PROVE  Solves(t)
BY CasesAreFinite DEF Solves

-----------------------------------------------------------------------------
(* The run's own types *)

RunTypes ==
  /\ file \in Text \cup {NoText}
  /\ tools \in BOOLEAN
  /\ at \in Steps
  /\ recipe \in Recipe \cup {NoRecipe}
  /\ given \in BOOLEAN
  /\ tmp \in BOOLEAN
  /\ stuck \in BOOLEAN
  /\ copied \in Text \cup {NoText}
  /\ left \in 0..RunLimit
  /\ child \in Child
  /\ outcome \in {"idle", "none", "pass", "fail", "error", "interrupted"}
  /\ runs \in 0..MaxRuns

LEMMA NoChildIsChild == NoChild \in Child
BY DEF NoChild, Child

LEMMA KilledIsChild == ASSUME NEW ch \in Child PROVE Kill(ch) \in Child
BY DEF Kill, Child

(* What every end of a run does *)
Ended(r) ==
  /\ at' = "idle" /\ outcome' = r /\ child' = Kill(child)
  /\ UNCHANGED <<file, tools, recipe, given, copied, left, runs>>

Results == {"pass", "fail", "error", "interrupted"}

(* What the run made goes, or is refused, and then only the hook ends with *)
(* the result that it had.                                                 *)
LEMMA EndIs ==
  ASSUME RunTypes, NEW r \in Results, End(r)
  PROVE  /\ Ended(r) \/ (Ended("error") /\ stuck' = TRUE)
         /\ tmp' \in BOOLEAN /\ stuck' \in BOOLEAN
         /\ tmp' => tmp /\ stuck' /\ (outcome' \in {"pass", "fail"} => recipe.kind = "hook")
BY DEF RunTypes, End, Stop, Ended, Results

LEMMA StopIs ==
  ASSUME RunTypes, NEW r, Stop(r, tmp), UNCHANGED stuck
  PROVE  Ended(r) /\ tmp' = tmp /\ tmp' \in BOOLEAN /\ stuck' \in BOOLEAN
BY DEF RunTypes, Stop, Ended

(* What an end of a run leaves is well typed. *)
LEMMA EndedTypes ==
  ASSUME RunTypes, NEW r \in Results, Ended(r), tmp' \in BOOLEAN, stuck' \in BOOLEAN
  PROVE  RunTypes'
BY KilledIsChild DEF RunTypes, Ended, Steps, Results

LEMMA EndTypes == ASSUME RunTypes, NEW r \in Results, End(r) PROVE RunTypes'
<1>1. "error" \in Results
  BY DEF Results
<1>. QED BY <1>1, EndIs, EndedTypes

LEMMA StopTypes ==
  ASSUME RunTypes, NEW r \in Results, Stop(r, tmp), UNCHANGED stuck
  PROVE  RunTypes'
BY StopIs, EndedTypes

LEMMA GoTypes ==
  ASSUME RunTypes, NEW s \in Steps, GoTo(s), tmp' \in BOOLEAN
  PROVE  RunTypes'
BY DEF RunTypes, GoTo

LEMMA BecomesTypes == ASSUME RunTypes, NEW ch \in Child, Becomes(ch) PROVE RunTypes'
BY DEF RunTypes, Becomes

(* Once the recipe is taken, it is one that was accepted. *)
Taken == at \notin {"idle", "known", "recipe"} => recipe \in Recipe

LEMMA CommandTypes == RunTypes /\ Taken /\ Command => RunTypes'
<1>. SUFFICES ASSUME RunTypes, Taken, Command PROVE RunTypes'
  OBVIOUS
<1>0. /\ Results = {"pass", "fail", "error", "interrupted"}
      /\ {"recipe", "launch", "tool", "layout", "fill"} \subseteq Steps
      /\ given \in BOOLEAN /\ tmp \in BOOLEAN
  BY DEF RunTypes, Steps, Results
<1>1. CASE Ask
  BY <1>1 DEF RunTypes, Ask, runVars
<1>2. CASE KnowPack
  BY <1>0, <1>2, EndTypes, GoTypes DEF KnowPack
<1>3. CASE TakeRecipe
  <2>1. CASE End("error")
    BY <1>0, <2>1, EndTypes
  <2>2. CASE ~End("error")
    BY <1>3, <2>2 DEF TakeRecipe, RunTypes, Steps
  <2>. QED BY <2>1, <2>2
<1>4. CASE CheckSource
  BY <1>0, <1>4, EndTypes, GoTypes DEF CheckSource
<1>5. CASE FillCases
  BY <1>0, <1>5, StopTypes, GoTypes DEF FillCases
<1>6. CASE FindTool
  BY <1>0, <1>6, EndTypes, GoTypes DEF FindTool
<1>7. CASE LayOut
  <2>1. CASE End("error")
    BY <1>0, <2>1, EndTypes
  <2>2. CASE ~End("error")
    BY <1>7, <2>2 DEF LayOut, RunTypes, Steps
  <2>. QED BY <2>1, <2>2
<1>8. CASE Build
  BY <1>0, <1>8, EndTypes, GoTypes DEF Build
<1>9. CASE Launch
  <2>1. CASE End("error")
    BY <1>0, <2>1, EndTypes
  <2>2. CASE ~End("error")
    <3>1. [NoChild EXCEPT !.at = "starting"] \in Child
      BY NoChildIsChild DEF Child
    <3>. QED BY <1>9, <2>2, <3>1, RunnerAssumption DEF Launch, RunTypes, Steps
  <2>. QED BY <2>1, <2>2
<1>10. CASE Collect
  <2>1. Result(child) \in {"pass", "fail", "error"}
    BY DEF Result
  <2>. QED BY <1>0, <1>10, <2>1, EndTypes DEF Collect
<1>11. CASE TimeOut
  BY <1>0, <1>11, EndTypes DEF TimeOut
<1>. QED
  BY <1>1, <1>2, <1>3, <1>4, <1>5, <1>6, <1>7, <1>8, <1>9, <1>10, <1>11 DEF Command

(* A child that judges, or has judged, has a text. *)
Read == child.at \in {"judging", "reported"} => child.text # NoText

LEMMA ChildTypes == RunTypes /\ Read /\ ChildStep => RunTypes'
<1>. SUFFICES ASSUME RunTypes, Read, ChildStep PROVE RunTypes'
  OBVIOUS
<1>0. child \in Child /\ Source \in Text \cup {NoText} /\ child.text \in Text \cup {NoText}
  BY DEF RunTypes, Source, Child
<1>1. CASE ChildLoads
  <2>1. Exits(child, 1) \in Child /\ [child EXCEPT !.at = "judging", !.text = Source] \in Child
    BY <1>0 DEF Child, Exits
  <2>. QED BY <1>1, <2>1, BecomesTypes DEF ChildLoads
<1>2. ASSUME NEW c \in Case, ChildJudges(c) PROVE RunTypes'
  <2>1. /\ [child EXCEPT !.right = @ \cup {c}] \in Child
        /\ [child EXCEPT !.wrong = @ \cup {c}] \in Child
        /\ \A code \in {0, 1} : Exits(child, code) \in Child
    BY <1>0 DEF Child, Exits
  <2>. QED BY <1>2, <2>1, BecomesTypes DEF ChildJudges
<1>3. ASSUME NEW n \in 0..Cardinality(Case), NEW f \in SUBSET Case, ChildReports(n, f)
      PROVE  RunTypes'
  <2>1. n \in Nat /\ f \in SUBSET Suite
    BY CasesAreFinite
  <2>2. [passed |-> n, failed |-> f] \in [passed : Nat, failed : SUBSET Case]
    BY <2>1
  <2>3. [child EXCEPT !.at = "reported", !.report = [passed |-> n, failed |-> f]] \in Child
    BY <1>0, <2>2 DEF Child
  <2>. QED BY <1>3, <2>3, BecomesTypes DEF ChildReports
<1>4. CASE ChildExits
  <2>1. child.text \in Text /\ child.text.leaves \in BOOLEAN /\ child.text.late \in BOOLEAN
    BY <1>0, <1>4, RunnerAssumption DEF ChildExits, Read, TextRecord
  <2>2. ASSUME NEW code \in {0, 1}
        PROVE  [child EXCEPT !.at = "exited", !.code = code, !.held = child.text.leaves,
                             !.late = child.text.late /\ recipe.kind # "hook"] \in Child
    BY <1>0, <2>1 DEF Child
  <2>. QED BY <1>4, <2>2, BecomesTypes DEF ChildExits
<1>. QED BY <1>1, <1>2, <1>3, <1>4 DEF ChildStep

LEMMA AroundTypes == RunTypes /\ (Around \/ Tick \/ UNCHANGED vars) => RunTypes'
<1>. SUFFICES ASSUME RunTypes, Around \/ Tick \/ UNCHANGED vars PROVE RunTypes'
  OBVIOUS
<1>1. ASSUME NEW h \in BOOLEAN, Begin(h) PROVE RunTypes'
  <2>1. runs' \in 0..MaxRuns /\ left' \in 0..RunLimit
    BY <1>1, RunnerAssumption DEF Begin, RunTypes
  <2>2. child' \in Child /\ recipe' = NoRecipe /\ copied' = NoText
    BY <1>1, NoChildIsChild DEF Begin
  <2>3. /\ given' \in BOOLEAN /\ tmp' \in BOOLEAN /\ stuck' \in BOOLEAN
        /\ at' \in Steps /\ outcome' = "none"
    BY <1>1 DEF Begin, Steps
  <2>4. file' = file /\ tools' = tools
    BY <1>1 DEF Begin
  <2>. QED BY <2>1, <2>2, <2>3, <2>4 DEF RunTypes
<1>2. CASE Interrupt
  BY <1>2, EndTypes, StopTypes DEF Interrupt, Results
<1>3. ASSUME NEW t \in Text \cup {NoText}, SaveFile(t) PROVE RunTypes'
  BY <1>3 DEF SaveFile, RunTypes
<1>4. ASSUME NEW c \in Content, WritePack(c) PROVE RunTypes'
  BY <1>4 DEF WritePack, runVars, RunTypes
<1>5. CASE ChangeTools
  BY <1>5 DEF ChangeTools, RunTypes
<1>6. CASE LetGo
  <2>1. [child EXCEPT !.held = FALSE] \in Child
    BY DEF RunTypes, Child
  <2>. QED BY <1>6, <2>1 DEF LetGo, RunTypes
<1>7. CASE Tick
  BY <1>7, RunnerAssumption DEF Tick, RunTypes
<1>8. CASE UNCHANGED vars
  BY <1>8 DEF vars, runVars, RunTypes
<1>. QED BY <1>1, <1>2, <1>3, <1>4, <1>5, <1>6, <1>7, <1>8 DEF Around

-----------------------------------------------------------------------------
(* The stages of a run *)

(* What the run has at each of its steps *)
Stage ==
  /\ Taken
  /\ outcome = "none" <=> at # "idle"
  /\ at \notin {"idle", "wait"} => child = NoChild
  /\ Lives => at = "wait"
  /\ at = "tool" => recipe.kind = "script"
  /\ at \in {"layout", "build"} => recipe.kind = "compiled"
  /\ at = "fill" => recipe.kind = "hook" /\ given
  /\ at \in {"known", "recipe", "source", "tool"} => ~tmp
  /\ at \in {"launch", "wait"} /\ tmp /\ recipe.kind = "hook" => given
  /\ NothingLeft

LEMMA KilledIsDead == ASSUME NEW ch \in Child PROVE Kill(ch).at \in {"none", "exited"}
BY DEF Kill, Child

LEMMA EndStage ==
  ASSUME RunTypes, Stage, NEW r \in Results, End(r), r \in {"pass", "fail"} => at = "wait"
  PROVE  Stage'
<1>1. /\ child'.at \in {"none", "exited"} /\ at' = "idle" /\ outcome' \in Results
      /\ UNCHANGED <<recipe, given>> /\ outcome' \in {r, "error"}
  BY EndIs, KilledIsDead DEF Ended, RunTypes, Results
<1>2. ~(Lives')
  BY <1>1 DEF Lives
<1>3. tmp' => tmp /\ stuck' /\ (outcome' \in {"pass", "fail"} => recipe.kind = "hook")
  BY EndIs
<1>4. tmp' /\ outcome' \in {"pass", "fail"} => recipe'.kind = "hook" /\ given'
  BY <1>1, <1>3 DEF Stage
<1>5. NothingLeft'
  BY <1>1, <1>2, <1>3, <1>4 DEF NothingLeft
<1>. QED BY <1>1, <1>2, <1>5 DEF Stage, Taken, Results

(* A run that ends before its try leaves the file of its cases. *)
LEMMA StopStage ==
  ASSUME RunTypes, Stage, NEW r \in {"error", "interrupted"}, Unguarded,
         Stop(r, tmp), UNCHANGED stuck
  PROVE  Stage'
<1>1. /\ recipe.kind = "hook" /\ given /\ child = NoChild
  BY DEF Unguarded, Stage
<1>2. /\ child' = Kill(child) /\ at' = "idle" /\ outcome' = r
      /\ UNCHANGED <<recipe, given>>
  BY StopIs DEF Ended
<1>3. child'.at = "none"
  BY <1>1, <1>2 DEF Kill, NoChild
<1>4. ~(Lives')
  BY <1>3 DEF Lives
<1>5. NothingLeft'
  BY <1>1, <1>2, <1>3, <1>4 DEF NothingLeft
<1>. QED BY <1>2, <1>4, <1>5 DEF Stage, Taken

LEMMA InterruptStage == ASSUME RunTypes, Stage, Interrupt PROVE Stage'
<1>1. "interrupted" \in Results
  BY DEF Results
<1>. QED BY <1>1, EndStage, StopStage DEF Interrupt

(* A step that keeps to the run, its child, its recipe and its files *)
LEMMA SameStage ==
  ASSUME Stage, UNCHANGED <<at, outcome, child, recipe, given, tmp, stuck>>
  PROVE  Stage'
BY DEF Stage, Taken, Lives, NothingLeft

(* The run goes on to its next step before there is a child. *)
LEMMA GoStage ==
  ASSUME Stage, NEW s \in Steps \ {"idle", "wait"}, at' = s, at \notin {"idle", "wait"},
         UNCHANGED <<outcome, child>>,
         s \notin {"known", "recipe"} => recipe' \in Recipe,
         s = "tool" => recipe'.kind = "script",
         s \in {"layout", "build"} => recipe'.kind = "compiled",
         s = "fill" => recipe'.kind = "hook" /\ given',
         s \in {"known", "recipe", "source", "tool"} => ~tmp',
         s = "launch" /\ tmp' /\ recipe'.kind = "hook" => given'
  PROVE  Stage'
<1>1. child' = NoChild /\ outcome' = "none"
  BY DEF Stage
<1>2. ~(Lives')
  BY <1>1 DEF Lives, NoChild
<1>. QED BY <1>1, <1>2 DEF Stage, Taken, NothingLeft

LEMMA CommandStage == RunTypes /\ Stage /\ Command => Stage'
<1>. SUFFICES ASSUME RunTypes, Stage, Command PROVE Stage'
  OBVIOUS
<1>0. /\ Taken /\ Results = {"pass", "fail", "error", "interrupted"}
      /\ Steps = {"idle", "known", "recipe", "source", "tool", "fill", "layout", "build",
                  "launch", "wait"}
  BY DEF Stage, Steps, Results
<1>1. CASE Ask
  BY <1>1, SameStage DEF Ask, runVars
<1>2. CASE KnowPack
  <2>1. at = "known" /\ ~tmp
    BY <1>2 DEF KnowPack, Stage
  <2>. QED BY <1>0, <1>2, <2>1, EndStage, GoStage DEF KnowPack, GoTo
<1>3. CASE TakeRecipe
  <2>1. at = "recipe" /\ ~tmp
    BY <1>3 DEF TakeRecipe, Stage
  <2>. QED BY <1>0, <1>3, <2>1, EndStage, GoStage DEF TakeRecipe
<1>4. CASE CheckSource
  <2>1. at = "source" /\ recipe \in Recipe /\ ~tmp
    BY <1>0, <1>4 DEF CheckSource, Taken, Stage
  <2>2. CASE End("error")
    BY <1>0, <2>2, EndStage
  <2>3. CASE recipe.kind = "hook" /\ given /\ GoTo("fill")
    BY <1>0, <2>1, <2>3, GoStage DEF GoTo
  <2>4. CASE recipe.kind = "hook" /\ GoTo("launch") /\ UNCHANGED tmp
    BY <1>0, <2>1, <2>4, GoStage DEF GoTo
  <2>5. CASE recipe.kind = "script" /\ GoTo("tool") /\ UNCHANGED tmp
    BY <1>0, <2>1, <2>5, GoStage DEF GoTo
  <2>6. CASE recipe.kind = "compiled" /\ GoTo("layout")
    BY <1>0, <2>1, <2>6, GoStage DEF GoTo
  <2>. QED BY <1>4, <2>2, <2>3, <2>4, <2>5, <2>6 DEF CheckSource
<1>5. CASE FillCases
  <2>1. at = "fill" /\ recipe \in Recipe /\ recipe.kind = "hook" /\ given
    BY <1>0, <1>5 DEF FillCases, Taken, Stage
  <2>2. CASE GoTo("launch")
    BY <1>0, <2>1, <2>2, GoStage DEF GoTo
  <2>3. CASE Stop("error", tmp) /\ UNCHANGED stuck
    BY <2>1, <2>3, StopStage DEF Unguarded
  <2>. QED BY <1>5, <2>2, <2>3 DEF FillCases
<1>6. CASE FindTool
  <2>1. at = "tool" /\ recipe \in Recipe /\ recipe.kind = "script"
    BY <1>0, <1>6 DEF FindTool, Taken, Stage
  <2>2. CASE End("error")
    BY <1>0, <2>2, EndStage
  <2>3. CASE GoTo("launch")
    BY <1>0, <2>1, <2>3, GoStage DEF GoTo
  <2>. QED BY <1>6, <2>2, <2>3 DEF FindTool
<1>7. CASE LayOut
  <2>1. at = "layout" /\ recipe \in Recipe /\ recipe.kind = "compiled"
    BY <1>0, <1>7 DEF LayOut, Taken, Stage
  <2>2. CASE End("error")
    BY <1>0, <2>2, EndStage
  <2>3. CASE ~End("error")
    BY <1>0, <1>7, <2>1, <2>3, GoStage DEF LayOut
  <2>. QED BY <2>2, <2>3
<1>8. CASE Build
  <2>1. at = "build" /\ recipe \in Recipe /\ recipe.kind = "compiled"
    BY <1>0, <1>8 DEF Build, Taken, Stage
  <2>2. CASE End("error")
    BY <1>0, <2>2, EndStage
  <2>3. CASE GoTo("launch")
    BY <1>0, <2>1, <2>3, GoStage DEF GoTo
  <2>. QED BY <1>8, <2>2, <2>3 DEF Build
<1>9. CASE Launch
  <2>1. CASE End("error")
    BY <1>0, <2>1, EndStage
  <2>2. CASE ~End("error")
    <3>1. /\ at = "launch" /\ at' = "wait" /\ outcome' = "none"
          /\ UNCHANGED <<recipe, given, tmp>> /\ recipe \in Recipe
      BY <1>0, <1>9, <2>2 DEF Launch, Taken, Stage
    <3>. QED BY <3>1 DEF Stage, Taken, NothingLeft
  <2>. QED BY <2>1, <2>2
<1>10. CASE Collect
  <2>1. Result(child) \in {"pass", "fail", "error"} /\ at = "wait"
    BY <1>10 DEF Result, Collect
  <2>. QED BY <1>0, <1>10, <2>1, EndStage DEF Collect
<1>11. CASE TimeOut
  BY <1>0, <1>11, EndStage DEF TimeOut
<1>. QED
  BY <1>1, <1>2, <1>3, <1>4, <1>5, <1>6, <1>7, <1>8, <1>9, <1>10, <1>11 DEF Command

LEMMA ChildStage == Stage /\ ChildStep => Stage'
<1>. SUFFICES ASSUME Stage, ChildStep PROVE Stage'
  OBVIOUS
<1>1. \E ch : Becomes(ch)
  BY DEF ChildStep, ChildLoads, ChildJudges, ChildReports, ChildExits
<1>2. Lives /\ UNCHANGED <<at, outcome, recipe, given, tmp>>
  BY <1>1 DEF Becomes
<1>3. at = "wait"
  BY <1>2 DEF Stage
<1>. QED BY <1>2, <1>3 DEF Stage, Taken, NothingLeft

LEMMA AroundStage == RunTypes /\ Stage /\ (Around \/ Tick \/ UNCHANGED vars) => Stage'
<1>. SUFFICES ASSUME RunTypes, Stage, Around \/ Tick \/ UNCHANGED vars PROVE Stage'
  OBVIOUS
<1>1. ASSUME NEW h \in BOOLEAN, Begin(h) PROVE Stage'
  <2>1. at' = "known" /\ outcome' = "none" /\ child' = NoChild /\ tmp' = FALSE
    BY <1>1 DEF Begin
  <2>2. ~(Lives')
    BY <2>1 DEF Lives, NoChild
  <2>. QED BY <2>1, <2>2 DEF Stage, Taken, NothingLeft
<1>2. CASE Interrupt
  BY <1>2, InterruptStage
<1>3. ASSUME NEW t \in Text \cup {NoText}, SaveFile(t) PROVE Stage'
  BY <1>3, SameStage DEF SaveFile
<1>4. ASSUME NEW c \in Content, WritePack(c) PROVE Stage'
  BY <1>4, SameStage DEF WritePack, runVars
<1>5. CASE ChangeTools
  BY <1>5, SameStage DEF ChangeTools
<1>6. CASE LetGo
  <2>1. /\ child' = [child EXCEPT !.held = FALSE] /\ child.held
        /\ UNCHANGED <<at, outcome, recipe, given, tmp, stuck>>
    BY <1>6 DEF LetGo
  <2>2. child'.at = child.at /\ child # NoChild
    BY <2>1 DEF NoChild, RunTypes, Child
  <2>. QED BY <2>1, <2>2 DEF Stage, Taken, Lives, NothingLeft
<1>7. CASE Tick
  BY <1>7, SameStage DEF Tick
<1>8. CASE UNCHANGED vars
  BY <1>8, SameStage DEF vars, runVars
<1>. QED BY <1>1, <1>2, <1>3, <1>4, <1>5, <1>6, <1>7, <1>8 DEF Around

-----------------------------------------------------------------------------
(* What the child has judged, and of which text *)

(* The child judges one text, as that text answers, and reports no more.   *)
HonestChild(ch) ==
  /\ ch.at \in {"judging", "reported"} => ch.text # NoText
  /\ ch.at = "starting" => ch.text = NoText
  /\ ch.text = NoText => ch.right = {} /\ ch.wrong = {} /\ ch.report = NoReport
  /\ \A c \in ch.right : ch.text.does[c] = "right"
  /\ \A c \in ch.wrong : ch.text.does[c] = "wrong"
  /\ ch.report # NoReport => /\ ch.report.passed <= Cardinality(ch.right)
                            /\ ch.report.failed \subseteq ch.wrong
                            /\ ch.right \cup ch.wrong = Case
  /\ ch.at \in {"starting", "judging"} => ch.report = NoReport

(* A build has a copy, from the step that lays it out, and the child of a  *)
(* build judges that copy.                                                 *)
Copies ==
  /\ at \in {"known", "recipe", "source", "tool", "fill", "layout"} => copied = NoText
  /\ at \in {"build", "launch", "wait"} => (copied # NoText <=> recipe.kind = "compiled")
  /\ child.text # NoText /\ copied # NoText => child.text = copied

Judged == HonestChild(child) /\ Copies

LEMMA NoChildIsHonest ==
  HonestChild(NoChild) /\ HonestChild([NoChild EXCEPT !.at = "starting"])
BY DEF HonestChild, NoChild

LEMMA KilledIsHonest ==
  ASSUME NEW ch \in Child, HonestChild(ch)
  PROVE  HonestChild(Kill(ch)) /\ Kill(ch).text = ch.text
BY DEF HonestChild, Kill, Child

LEMMA EndedJudged == ASSUME RunTypes, Judged, NEW r, Ended(r) PROVE Judged'
<1>1. child' = Kill(child) /\ at' = "idle" /\ copied' = copied
  BY DEF Ended
<1>2. HonestChild(child)' /\ child'.text = child.text
  BY <1>1, KilledIsHonest DEF RunTypes, Judged, HonestChild
<1>. QED BY <1>1, <1>2 DEF Judged, Copies

LEMMA EndJudged == ASSUME RunTypes, Judged, NEW r \in Results, End(r) PROVE Judged'
BY EndIs, EndedJudged

LEMMA InterruptEnds == ASSUME RunTypes, Interrupt PROVE \E r \in {"error", "interrupted"} : Ended(r)
<1>1. "interrupted" \in Results
  BY DEF Results
<1>. QED BY <1>1, EndIs, StopIs DEF Interrupt

LEMMA CutJudged == ASSUME RunTypes, Judged, Interrupt PROVE Judged'
BY InterruptEnds, EndedJudged

LEMMA SameJudged == ASSUME Judged, UNCHANGED <<at, child, recipe, copied>> PROVE Judged'
BY DEF Judged, Copies, HonestChild

LEMMA CommandJudged == RunTypes /\ Stage /\ Judged /\ Command => Judged'
<1>. SUFFICES ASSUME RunTypes, Stage, Judged, Command PROVE Judged'
  OBVIOUS
<1>0. /\ at \notin {"idle", "wait"} => child = NoChild /\ child.text = NoText
      /\ Results = {"pass", "fail", "error", "interrupted"}
  BY DEF Stage, NoChild, Results
<1>1. CASE Ask
  BY <1>1, SameJudged DEF Ask, runVars
<1>2. CASE KnowPack
  <2>1. CASE End("error")
    BY <1>0, <2>1, EndJudged
  <2>2. CASE GoTo("recipe")
    BY <1>2, <2>2 DEF KnowPack, GoTo, Judged, Copies, HonestChild
  <2>. QED BY <1>2, <2>1, <2>2 DEF KnowPack
<1>3. CASE TakeRecipe
  <2>1. CASE End("error")
    BY <1>0, <2>1, EndJudged
  <2>2. CASE ~End("error")
    BY <1>3, <2>2 DEF TakeRecipe, Judged, Copies, HonestChild
  <2>. QED BY <2>1, <2>2
<1>4. CASE CheckSource
  <2>1. at = "source"
    BY <1>4 DEF CheckSource
  <2>2. CASE End("error")
    BY <1>0, <2>2, EndJudged
  <2>3. CASE recipe.kind = "hook" /\ GoTo("launch")
    BY <2>1, <2>3 DEF GoTo, Judged, Copies, HonestChild
  <2>4. CASE GoTo("tool")
    BY <2>1, <2>4 DEF GoTo, Judged, Copies, HonestChild
  <2>5. CASE GoTo("layout")
    BY <2>1, <2>5 DEF GoTo, Judged, Copies, HonestChild
  <2>6. CASE recipe.kind = "hook" /\ GoTo("fill")
    BY <2>1, <2>6 DEF GoTo, Judged, Copies, HonestChild
  <2>. QED BY <1>4, <2>2, <2>3, <2>4, <2>5, <2>6 DEF CheckSource
<1>5. CASE FindTool
  <2>1. CASE End("error")
    BY <1>0, <2>1, EndJudged
  <2>2. CASE GoTo("launch")
    <3>1. at = "tool" /\ recipe.kind = "script"
      BY <1>5 DEF FindTool, Stage
    <3>. QED BY <2>2, <3>1 DEF GoTo, Judged, Copies, HonestChild
  <2>. QED BY <1>5, <2>1, <2>2 DEF FindTool
<1>6. CASE LayOut
  <2>1. CASE End("error")
    BY <1>0, <2>1, EndJudged
  <2>2. CASE ~End("error")
    <3>1. at = "layout" /\ recipe.kind = "compiled" /\ file # NoText
      BY <1>6, <2>2 DEF LayOut, Stage
    <3>2. /\ copied' = file /\ at' \in {"build", "launch"}
          /\ recipe' = recipe /\ child' = child /\ child.text = NoText
      BY <1>0, <1>6, <2>2, <3>1 DEF LayOut
    <3>3. Copies'
      BY <3>1, <3>2 DEF Copies
    <3>. QED BY <3>2, <3>3 DEF Judged, HonestChild
  <2>. QED BY <2>1, <2>2
<1>7. CASE Build
  <2>1. CASE End("error")
    BY <1>0, <2>1, EndJudged
  <2>2. CASE GoTo("launch")
    BY <1>7, <2>2 DEF Build, GoTo, Judged, Copies, HonestChild
  <2>. QED BY <1>7, <2>1, <2>2 DEF Build
<1>8. CASE Launch
  <2>1. CASE End("error")
    BY <1>0, <2>1, EndJudged
  <2>2. CASE ~End("error")
    <3>1. /\ at = "launch" /\ at' = "wait" /\ recipe' = recipe /\ copied' = copied
          /\ child' = [NoChild EXCEPT !.at = "starting"]
      BY <1>8, <2>2 DEF Launch
    <3>2. HonestChild(child)' /\ child'.text = NoText
      BY <3>1, NoChildIsHonest DEF HonestChild, NoChild
    <3>. QED BY <3>1, <3>2 DEF Judged, Copies
  <2>. QED BY <2>1, <2>2
<1>9. CASE Collect
  <2>1. Result(child) \in {"pass", "fail", "error"}
    BY DEF Result
  <2>. QED BY <1>0, <1>9, <2>1, EndJudged DEF Collect
<1>10. CASE TimeOut
  BY <1>0, <1>10, EndJudged DEF TimeOut
<1>11. CASE FillCases
  <2>1. "error" \in Results
    BY <1>0
  <2>2. CASE Stop("error", tmp) /\ UNCHANGED stuck
    BY <2>1, <2>2, StopIs, EndedJudged
  <2>3. CASE GoTo("launch")
    <3>1. at = "fill" /\ recipe.kind = "hook"
      BY <1>11 DEF FillCases, Stage
    <3>. QED BY <2>3, <3>1 DEF GoTo, Judged, Copies, HonestChild
  <2>. QED BY <1>11, <2>2, <2>3 DEF FillCases
<1>. QED
  BY <1>1, <1>2, <1>3, <1>4, <1>5, <1>6, <1>7, <1>8, <1>9, <1>10, <1>11 DEF Command

LEMMA ChildJudged == RunTypes /\ Stage /\ Judged /\ ChildStep => Judged'
<1>. SUFFICES ASSUME RunTypes, Stage, Judged, ChildStep PROVE Judged'
  OBVIOUS
<1>0. child \in Child /\ HonestChild(child) /\ (Lives => at = "wait")
  BY DEF RunTypes, Judged, Stage
<1>1. ASSUME NEW ch, Becomes(ch), HonestChild(ch), ch.text = child.text PROVE Judged'
  <2>1. child' = ch /\ UNCHANGED <<at, recipe, copied>>
    BY <1>1 DEF Becomes
  <2>. QED BY <1>1, <2>1 DEF Judged, Copies, HonestChild
<1>2. ASSUME NEW code, Becomes(Exits(child, code)) PROVE Judged'
  <2>1. HonestChild(Exits(child, code)) /\ Exits(child, code).text = child.text
    BY <1>0 DEF Exits, HonestChild, Child
  <2>. QED BY <1>1, <1>2, <2>1
<1>3. CASE ChildLoads
  <2>1. CASE Becomes(Exits(child, 1))
    BY <1>2, <2>1
  <2>2. CASE ~Becomes(Exits(child, 1))
    <3>1. /\ child.at = "starting" /\ child.text = NoText /\ Source # NoText
          /\ child' = [child EXCEPT !.at = "judging", !.text = Source]
          /\ Lives /\ UNCHANGED <<at, recipe, copied>>
      BY <1>0, <1>3, <2>2 DEF ChildLoads, Becomes, HonestChild
    <3>2. HonestChild(child)'
      BY <1>0, <3>1 DEF HonestChild, Child
    <3>3. at = "wait" /\ (copied # NoText <=> recipe.kind = "compiled")
      BY <1>0, <3>1 DEF Judged, Copies
    <3>4. child'.text = Source
      BY <1>0, <3>1 DEF Child
    <3>5. copied # NoText => Source = copied
      BY <3>3 DEF Source
    <3>. QED BY <3>1, <3>2, <3>3, <3>4, <3>5 DEF Judged, Copies
  <2>. QED BY <2>1, <2>2
<1>4. ASSUME NEW c \in Case, ChildJudges(c) PROVE Judged'
  <2>1. child.at = "judging" /\ child.text # NoText
    BY <1>0, <1>4 DEF ChildJudges, HonestChild
  <2>2. IsFiniteSet(child.right) /\ child.right \in SUBSET Case
        /\ Cardinality(child.right) <= Cardinality(child.right \cup {c})
    <3>1. child.right \in SUBSET Case /\ child.right \cup {c} \in SUBSET Case
      BY <1>0 DEF Child
    <3>. QED BY <3>1, CasesAreFinite, FS_Subset
  <2>3. CASE child.text.does[c] = "right" /\ Becomes([child EXCEPT !.right = @ \cup {c}])
    <3>1. child.report # NoReport => child.report.passed \in Nat
      BY <1>0 DEF Child
    <3>2. Cardinality(child.right) \in Nat /\ Cardinality(child.right \cup {c}) \in Nat
      BY <1>0, CasesAreFinite DEF Child
    <3>3. HonestChild([child EXCEPT !.right = @ \cup {c}])
      BY <1>0, <2>1, <2>2, <2>3, <3>1, <3>2 DEF HonestChild, Child
    <3>. QED BY <1>0, <1>1, <2>3, <3>3 DEF Child
  <2>4. CASE child.text.does[c] = "wrong" /\ Becomes([child EXCEPT !.wrong = @ \cup {c}])
    <3>1. HonestChild([child EXCEPT !.wrong = @ \cup {c}])
      BY <1>0, <2>1, <2>4 DEF HonestChild, Child
    <3>. QED BY <1>0, <1>1, <2>4, <3>1 DEF Child
  <2>. QED BY <1>2, <1>4, <2>3, <2>4 DEF ChildJudges
<1>5. ASSUME NEW n \in 0..Cardinality(Case), NEW f \in SUBSET Case, ChildReports(n, f)
      PROVE  Judged'
  <2>1. /\ child.at = "judging" /\ child.text # NoText
        /\ n <= Cardinality(child.right) /\ f \subseteq child.wrong
        /\ child.right \cup child.wrong = Case
    BY <1>0, <1>5 DEF ChildReports, HonestChild
  <2>2. HonestChild([child EXCEPT !.at = "reported", !.report = [passed |-> n, failed |-> f]])
    BY <1>0, <2>1 DEF HonestChild, Child
  <2>. QED BY <1>0, <1>1, <1>5, <2>2 DEF ChildReports, Child
<1>6. CASE ChildExits
  <2>1. PICK code \in {0, 1} :
          Becomes([child EXCEPT !.at = "exited", !.code = code, !.held = child.text.leaves,
                                !.late = child.text.late /\ recipe.kind # "hook"])
    BY <1>6 DEF ChildExits
  <2>2. HonestChild([child EXCEPT !.at = "exited", !.code = code, !.held = child.text.leaves,
                                  !.late = child.text.late /\ recipe.kind # "hook"])
    BY <1>0 DEF HonestChild, Child
  <2>. QED BY <1>0, <1>1, <2>1, <2>2 DEF Child
<1>. QED BY <1>3, <1>4, <1>5, <1>6 DEF ChildStep

LEMMA AroundJudged == RunTypes /\ Judged /\ (Around \/ Tick \/ UNCHANGED vars) => Judged'
<1>. SUFFICES ASSUME RunTypes, Judged, Around \/ Tick \/ UNCHANGED vars PROVE Judged'
  OBVIOUS
<1>1. ASSUME NEW h \in BOOLEAN, Begin(h) PROVE Judged'
  <2>1. at' = "known" /\ copied' = NoText /\ child' = NoChild
    BY <1>1 DEF Begin
  <2>2. HonestChild(child)'
    BY <2>1, NoChildIsHonest DEF HonestChild
  <2>. QED BY <2>1, <2>2 DEF Judged, Copies
<1>2. CASE Interrupt
  BY <1>2, CutJudged
<1>3. ASSUME NEW t \in Text \cup {NoText}, SaveFile(t) PROVE Judged'
  BY <1>3, SameJudged DEF SaveFile
<1>4. ASSUME NEW c \in Content, WritePack(c) PROVE Judged'
  BY <1>4, SameJudged DEF WritePack, runVars
<1>5. CASE ChangeTools
  BY <1>5, SameJudged DEF ChangeTools
<1>6. CASE LetGo
  <2>1. child' = [child EXCEPT !.held = FALSE] /\ UNCHANGED <<at, recipe, copied>>
    BY <1>6 DEF LetGo
  <2>. QED BY <2>1 DEF RunTypes, Child, Judged, Copies, HonestChild
<1>7. CASE Tick
  BY <1>7, SameJudged DEF Tick
<1>8. CASE UNCHANGED vars
  BY <1>8, SameJudged DEF vars, runVars
<1>. QED BY <1>1, <1>2, <1>3, <1>4, <1>5, <1>6, <1>7, <1>8 DEF Around

-----------------------------------------------------------------------------
(* The verdict *)

(* What the run says of a child that has ended is true of the child's text.*)
LEMMA ResultIsTrue ==
  ASSUME NEW ch \in Child, HonestChild(ch)
  PROVE  /\ Result(ch) = "pass" => ch.text # NoText /\ Solves(ch.text)
         /\ Result(ch) = "fail" => ch.text # NoText /\ ~Solves(ch.text)
<1>. SUFFICES ASSUME Result(ch) # "error"
              PROVE  /\ Result(ch) = "pass" => ch.text # NoText /\ Solves(ch.text)
                     /\ Result(ch) = "fail" => ch.text # NoText /\ ~Solves(ch.text)
  OBVIOUS
<1>1. /\ ch.report # NoReport /\ ch.text # NoText
      /\ ch.report.passed + Cardinality(ch.report.failed) = Cardinality(Case)
  BY DEF Result, RefusesReport, HonestChild
<1>2. /\ ch.right \in SUBSET Case /\ ch.wrong \in SUBSET Case
      /\ ch.report.passed \in Nat /\ ch.report.failed \subseteq ch.wrong
      /\ ch.report.passed <= Cardinality(ch.right)
  BY <1>1 DEF Child, HonestChild
<1>3. ASSUME Result(ch) = "pass" PROVE Solves(ch.text)
  <2>1. Cardinality(ch.report.failed) = 0
    BY <1>3, FS_EmptySet DEF Result
  <2>2. Cardinality(ch.right) >= Cardinality(Case)
    BY <1>1, <1>2, <2>1, CasesAreFinite
  <2>3. ch.right = Case
    BY <1>2, <2>2, CasesAreFinite
  <2>. QED BY <2>3, AllCasesSolve DEF HonestChild
<1>4. ASSUME Result(ch) = "fail" PROVE ~Solves(ch.text)
  <2>1. PICK c \in ch.report.failed : TRUE
    BY <1>4 DEF Result
  <2>2. c \in Suite /\ c.level <= Level /\ ch.text.does[c] = "wrong"
    BY <1>2, <2>1, CasesAreFinite DEF HonestChild
  <2>. QED BY <2>2 DEF Solves
<1>. QED BY <1>1, <1>3, <1>4

(* What a whole report says is not refused. *)
LEMMA WholeIsNotRefused ==
  ASSUME NEW ch \in Child, HonestChild(ch), Whole(ch)
  PROVE  ~RefusesReport(ch)
<1>1. /\ ch.right \in SUBSET Case /\ ch.wrong \in SUBSET Case
      /\ Cardinality(ch.right) \in Nat /\ Cardinality(ch.wrong) \in Nat
      /\ IsFiniteSet(ch.right) /\ IsFiniteSet(ch.wrong)
  BY CasesAreFinite DEF Child
<1>2. ch.report \in [passed : Nat, failed : SUBSET Suite] /\ ch.report # NoReport
  <2>1. ch.wrong \in SUBSET Suite
    BY <1>1, CasesAreFinite
  <2>2. ch.report \in [passed : Nat, failed : SUBSET Suite]
    BY <1>1, <2>1 DEF Whole
  <2>. QED BY <2>2, RunnerAssumption
<1>3. ch.right \cup ch.wrong = Case /\ ch.right \cap ch.wrong = {}
  BY <1>2 DEF HonestChild
<1>4. Cardinality(ch.right) + Cardinality(ch.wrong) = Cardinality(Case)
  <2>1. Cardinality(ch.right \cup ch.wrong)
          = Cardinality(ch.right) + Cardinality(ch.wrong) - Cardinality(ch.right \cap ch.wrong)
    BY <1>1, FS_Union
  <2>2. Cardinality(ch.right \cap ch.wrong) = 0
    BY <1>3, FS_EmptySet
  <2>3. Cardinality(ch.right \cup ch.wrong) = Cardinality(Case)
    BY <1>3
  <2>. QED BY <1>1, <2>1, <2>2, <2>3, SMT
<1>5. ch.report.passed = Cardinality(ch.right) /\ ch.report.failed = ch.wrong
  BY DEF Whole
<1>. QED BY <1>2, <1>4, <1>5 DEF Whole, RefusesReport

-----------------------------------------------------------------------------
(* The invariant of a run, and what follows from it *)

RunnerInv == MetaInv /\ RunTypes /\ Stage /\ Judged /\ PassMeansSolved

LEMMA InvStarts == Init => RunnerInv
<1>. SUFFICES ASSUME Init PROVE RunnerInv
  OBVIOUS
<1>1. RunTypes
  <2>1. child \in Child /\ 0 \in 0..RunLimit /\ 0 \in 0..MaxRuns
    BY NoChildIsChild, RunnerAssumption DEF Init
  <2>2. at \in Steps
    BY DEF Init, Steps
  <2>. QED BY <2>1, <2>2 DEF Init, RunTypes
<1>2. Stage
  BY DEF Init, Stage, Taken, Lives, NothingLeft, NoChild
<1>3. Judged
  BY NoChildIsHonest DEF Init, Judged, Copies, NoChild
<1>. QED BY <1>1, <1>2, <1>3, MetaStarts DEF Init, RunnerInv, PassMeansSolved

(* A verdict comes with the step that collects the child.                  *)
LEMMA VerdictsAreCollected ==
  ASSUME RunnerInv, [Next]_vars, outcome' \in {"pass", "fail"}, outcome' # outcome
  PROVE  Collect
<1>1. CASE Command
  BY <1>1 DEF Command, Ask, runVars, KnowPack, TakeRecipe, CheckSource, FillCases, FindTool,
              LayOut, Build, Launch, TimeOut, GoTo, End, Stop
<1>2. CASE ChildStep
  BY <1>2 DEF ChildStep, ChildLoads, ChildJudges, ChildReports, ChildExits, Becomes
<1>3. CASE Around
  BY <1>3 DEF Around, Begin, Interrupt, End, Stop, SaveFile, WritePack, runVars, ChangeTools,
              LetGo
<1>4. CASE Tick \/ UNCHANGED vars
  BY <1>4 DEF Tick, vars, runVars
<1>. QED BY <1>1, <1>2, <1>3, <1>4 DEF Next

(* The text of the child stays, once the run has a verdict.                *)
LEMMA TextStays ==
  ASSUME RunnerInv, [Next]_vars, outcome' = outcome, at = "idle"
  PROVE  child'.text = child.text
<1>0. ~Lives /\ outcome # "none" /\ child \in Child
  BY DEF RunnerInv, RunTypes, Stage
<1>1. CASE Command
  BY <1>0, <1>1 DEF Command, Ask, runVars, KnowPack, TakeRecipe, CheckSource, FillCases,
                    FindTool, LayOut, Build, Launch, Collect, TimeOut
<1>2. CASE ChildStep
  BY <1>0, <1>2 DEF ChildStep, ChildLoads, ChildJudges, ChildReports, ChildExits, Becomes
<1>3. CASE Around
  <2>1. CASE LetGo
    BY <1>0, <2>1 DEF LetGo, Child
  <2>. QED BY <1>0, <1>3, <2>1 DEF Around, Begin, Interrupt, SaveFile, WritePack, runVars,
                                   ChangeTools
<1>4. CASE Tick \/ UNCHANGED vars
  BY <1>4 DEF Tick, vars, runVars
<1>. QED BY <1>1, <1>2, <1>3, <1>4 DEF Next

LEMMA PassStep == RunnerInv /\ [Next]_vars => PassMeansSolved'
<1>. SUFFICES ASSUME RunnerInv, [Next]_vars, outcome' = "pass"
              PROVE  child'.text # NoText /\ Solves(child'.text)
  BY DEF PassMeansSolved, Solves
<1>1. CASE outcome = "pass"
  <2>1. at = "idle"
    BY <1>1 DEF RunnerInv, Stage
  <2>. QED BY <1>1, <2>1, TextStays DEF RunnerInv, PassMeansSolved
<1>2. CASE outcome # "pass"
  <2>1. Collect
    BY <1>2, VerdictsAreCollected
  <2>2. Result(child) = "pass" /\ child' = Kill(child)
    BY <1>2, <2>1 DEF Collect, End, Stop
  <2>3. HonestChild(child) /\ child \in Child
    BY DEF RunnerInv, RunTypes, Judged
  <2>. QED BY <2>2, <2>3, ResultIsTrue, KilledIsHonest
<1>. QED BY <1>1, <1>2

LEMMA InvStep == RunnerInv /\ [Next]_vars => RunnerInv'
<1>. SUFFICES ASSUME RunnerInv, [Next]_vars PROVE RunnerInv'
  OBVIOUS
<1>0. MetaInv /\ RunTypes /\ Stage /\ Judged /\ Taken /\ Read
  BY DEF RunnerInv, Stage, Judged, HonestChild, Read
<1>1. Command \/ ChildStep \/ (Around \/ Tick \/ UNCHANGED vars)
  BY DEF Next
<1>2. MetaInv'
  BY <1>0, MetaStep, RunStepsMeta
<1>3. RunTypes'
  BY <1>0, <1>1, CommandTypes, ChildTypes, AroundTypes
<1>4. Stage'
  BY <1>0, <1>1, CommandStage, ChildStage, AroundStage
<1>5. Judged'
  BY <1>0, <1>1, CommandJudged, ChildJudged, AroundJudged
<1>. QED BY <1>2, <1>3, <1>4, <1>5, PassStep DEF RunnerInv

LEMMA RunnerInvariant == Spec => []RunnerInv
BY InvStarts, InvStep, PTL DEF Spec

(* The run, its child and the pack's metadata stay well formed, for every  *)
(* suite, text, recipe and limit.                                          *)
THEOREM RunnerTypes == Spec => []RunnerTypeOK
<1>1. RunnerInv => RunnerTypeOK
  BY DEF RunnerInv, MetaInv, RunTypes, RunnerTypeOK
<1>. QED BY <1>1, RunnerInvariant, PTL

(* However the author's saves fall between the steps of load_meta, a load  *)
(* returns what the file held during it.                                   *)
THEOREM PacksAreCurrent == Spec => []LoadsAreCurrent
<1>1. RunnerInv => LoadsAreCurrent
  BY DEF RunnerInv, MetaInv
<1>. QED BY <1>1, RunnerInvariant, PTL

(* A pass is a pass of one text on every case up to the level: an adapter  *)
(* that loses cases, an exit code and saves in between cannot change that. *)
THEOREM PassesSolve == Spec => []PassMeansSolved
<1>1. RunnerInv => PassMeansSolved
  BY DEF RunnerInv
<1>. QED BY <1>1, RunnerInvariant, PTL

(* A run that is over has no child.  What it made on disk is there only if *)
(* the system refused to remove it, or if it is the file of the cases of   *)
(* the hook and the run ended, by Ctrl-C or by an error, before the try    *)
(* around the child (runner.py:521-528); a verdict leaves no directory.    *)
THEOREM NothingStays == Spec => []NothingLeft
<1>1. RunnerInv => NothingLeft
  BY DEF RunnerInv, Stage
<1>. QED BY <1>1, RunnerInvariant, PTL

(* A whole report that is in time gets a verdict.                          *)
THEOREM WholeIsJudged == Spec => JudgedIfWhole
<1>1. ASSUME RunnerInv, [Next]_vars, at = "wait", outcome' = "error", ~stuck',
             child.at = "exited", left > 0
      PROVE  ~Whole(child)
  <2>0. child \in Child /\ HonestChild(child) /\ outcome = "none" /\ ~Lives
    BY <1>1 DEF RunnerInv, RunTypes, Stage, Judged, Lives
  <2>1. Collect
    <3>1. CASE Command
      BY <1>1, <2>0, <3>1 DEF Command, Ask, runVars, KnowPack, TakeRecipe, CheckSource, FillCases,
                              FindTool, LayOut, Build, Launch, TimeOut
    <3>2. CASE ChildStep
      BY <2>0, <3>2 DEF ChildStep, ChildLoads, ChildJudges, ChildReports, ChildExits, Becomes
    <3>3. CASE Around
      BY <1>1, <2>0, <3>3 DEF Around, Begin, Interrupt, End, Stop, SaveFile, WritePack,
                              runVars, ChangeTools, LetGo
    <3>4. CASE Tick \/ UNCHANGED vars
      BY <1>1, <2>0, <3>4 DEF Tick, vars, runVars
    <3>. QED BY <1>1, <3>1, <3>2, <3>3, <3>4 DEF Next
  <2>2. RefusesReport(child)
    BY <1>1, <2>1 DEF Collect, End, Stop, Result
  <2>. QED BY <2>0, <2>2, WholeIsNotRefused
<1>. QED BY <1>1, RunnerInvariant, PTL DEF Spec, JudgedIfWhole

-----------------------------------------------------------------------------
(* The run implements a verdict on the file of one moment *)

Seen == IF copied # NoText THEN copied ELSE child.text

Solving == {t \in Text : Solves(t)}

LEMMA SeenWhenJudged ==
  ASSUME RunTypes, Judged, child.text # NoText
  PROVE  Seen = child.text /\ Seen \in Text
BY DEF RunTypes, Judged, Copies, Seen, Child

(* How a run that ends looks from above *)
LEMMA EndedTells ==
  ASSUME RunnerInv, at # "idle", NEW r \in Results, Ended(r),
         r \in {"pass", "fail"} => r = Result(child)
  PROVE  Verdict!Tell
<1>0. outcome = "none" /\ child \in Child /\ HonestChild(child) /\ RunTypes /\ Judged
  BY DEF RunnerInv, RunTypes, Stage, Judged
<1>1. child' = Kill(child) /\ UNCHANGED <<copied, file>> /\ outcome' = r
  BY DEF Ended
<1>2. Seen' = Seen
  BY <1>0, <1>1, KilledIsHonest DEF Seen
<1>3. \/ outcome' = "pass" /\ Seen \in Solving
      \/ outcome' = "fail" /\ Seen \in Text \ Solving
      \/ outcome' \in {"error", "interrupted"}
  BY <1>0, <1>1, ResultIsTrue, SeenWhenJudged DEF Solving, Results
<1>. QED BY <1>0, <1>1, <1>2, <1>3 DEF Verdict!Tell, Seen, Solving

LEMMA EndTells ==
  ASSUME RunnerInv, at # "idle",
         \/ Collect
         \/ End("error")
         \/ \E r \in {"error", "interrupted"} : Ended(r)
  PROVE  Verdict!Tell
<1>0. Results = {"pass", "fail", "error", "interrupted"} /\ RunTypes
      /\ Result(child) \in {"pass", "fail", "error"}
  BY DEF Results, Result, RunnerInv
<1>1. CASE Collect
  <2>1. End(Result(child)) /\ Result(child) \in Results
    BY <1>0, <1>1 DEF Collect
  <2>2. Ended(Result(child)) \/ Ended("error")
    BY <1>0, <2>1, EndIs
  <2>. QED BY <1>0, <2>2, EndedTells
<1>2. CASE End("error")
  BY <1>0, <1>2, EndIs, EndedTells
<1>3. CASE \E r \in {"error", "interrupted"} : Ended(r)
  BY <1>0, <1>3, EndedTells
<1>. QED BY <1>1, <1>2, <1>3

LEMMA CommandVerdict ==
  ASSUME RunnerInv, Command
  PROVE  [Verdict!Save \/ Verdict!Ask \/ Verdict!Look \/ Verdict!Tell]_Verdict!verdictVars
<1>0. file' = file /\ (at \notin {"idle", "wait"} => child = NoChild /\ outcome = "none")
  <2>1. file' = file
    BY DEF Command, Ask, runVars, KnowPack, TakeRecipe, CheckSource, FillCases, FindTool, LayOut,
           Build, Launch, Collect, TimeOut, GoTo, End, Stop
  <2>. QED BY <2>1 DEF RunnerInv, Stage
<1>1. at # "idle" \/ Ask
  BY DEF Command, KnowPack, TakeRecipe, CheckSource, FillCases, FindTool, LayOut, Build, Launch,
         Collect, TimeOut
<1>2. CASE Collect \/ End("error") \/ Ended("error")
  <2>1. at # "idle"
    <3>1. CASE Ask
      <4>1. at' = at /\ at # "idle"
        BY <3>1 DEF Ask, runVars
      <4>. QED BY <4>1
    <3>. QED BY <1>1, <3>1
  <2>. QED BY <1>2, <2>1, EndTells
<1>3. CASE LayOut /\ ~End("error")
  <2>1. /\ at = "layout" /\ copied' = file /\ file # NoText /\ child' = child
        /\ outcome' = outcome
    BY <1>3 DEF LayOut
  <2>2. copied = NoText /\ child.text = NoText /\ outcome = "none"
    BY <1>0, <2>1 DEF RunnerInv, Judged, Copies, NoChild
  <2>. QED BY <1>0, <2>1, <2>2 DEF Verdict!Look
<1>4. CASE ~LayOut /\ ~Collect /\ ~End("error") /\ ~Ended("error")
  <2>0. RunTypes
    BY DEF RunnerInv
  <2>1. UNCHANGED <<copied, outcome>> /\ (FillCases => GoTo("launch"))
    <3>1. FillCases => GoTo("launch")
      BY <1>4, <2>0, StopIs DEF FillCases
    <3>. QED
      BY <1>4, <3>1 DEF Command, Ask, runVars, KnowPack, TakeRecipe, CheckSource, FindTool, Build,
                        Launch, TimeOut, GoTo
  <2>2. child'.text = child.text
    <3>1. CASE Launch
      BY <1>0, <1>4, <3>1 DEF Launch, NoChild
    <3>2. CASE ~Launch
      BY <1>4, <2>1, <3>2 DEF Command, Ask, runVars, KnowPack, TakeRecipe, CheckSource, FindTool,
                              Build, TimeOut, GoTo
    <3>. QED BY <3>1, <3>2
  <2>. QED BY <1>0, <2>1, <2>2 DEF Verdict!verdictVars
<1>. QED BY <1>2, <1>3, <1>4

LEMMA ChildVerdict ==
  ASSUME RunnerInv, ChildStep
  PROVE  [Verdict!Save \/ Verdict!Ask \/ Verdict!Look \/ Verdict!Tell]_Verdict!verdictVars
<1>0. UNCHANGED <<file, outcome, copied>> /\ at = "wait" /\ outcome = "none" /\ child \in Child
  <2>1. Lives /\ UNCHANGED <<file, outcome, copied>>
    BY DEF ChildStep, ChildLoads, ChildJudges, ChildReports, ChildExits, Becomes
  <2>. QED BY <2>1 DEF RunnerInv, RunTypes, Stage
<1>1. CASE child'.text = child.text
  BY <1>0, <1>1 DEF Verdict!verdictVars
<1>2. CASE child'.text # child.text
  <2>1. ChildLoads
    BY <1>0, <1>2 DEF ChildStep, ChildJudges, ChildReports, ChildExits, Becomes, Exits, Child
  <2>2. child.at = "starting" /\ child' = [child EXCEPT !.at = "judging", !.text = Source]
    BY <1>0, <1>2, <2>1 DEF ChildLoads, Becomes, Exits, Child
  <2>3. child.text = NoText /\ child'.text = Source
    BY <1>0, <2>2 DEF RunnerInv, Judged, HonestChild, Child
  <2>4. copied # NoText <=> recipe.kind = "compiled"
    BY <1>0 DEF RunnerInv, Judged, Copies
  <2>5. CASE copied # NoText
    BY <1>0, <2>5 DEF Verdict!verdictVars
  <2>6. CASE copied = NoText
    <3>1. child'.text = file
      BY <2>3, <2>4, <2>6 DEF Source
    <3>. QED BY <1>0, <2>3, <2>6, <3>1 DEF Verdict!Look
  <2>. QED BY <2>5, <2>6
<1>. QED BY <1>1, <1>2

LEMMA AroundVerdict ==
  ASSUME RunnerInv, Around \/ Tick \/ UNCHANGED vars
  PROVE  [Verdict!Save \/ Verdict!Ask \/ Verdict!Look \/ Verdict!Tell]_Verdict!verdictVars
<1>1. ASSUME NEW h \in BOOLEAN, Begin(h) PROVE Verdict!Ask
  BY <1>1 DEF Begin, NoChild, Verdict!Ask, RunnerInv, Stage
<1>2. CASE Interrupt
  <2>1. at # "idle" /\ RunTypes
    BY <1>2 DEF Interrupt, RunnerInv
  <2>. QED BY <1>2, <2>1, InterruptEnds, EndTells
<1>3. ASSUME NEW t \in Text \cup {NoText}, SaveFile(t) PROVE Verdict!Save
  BY <1>3 DEF SaveFile, Verdict!Save
<1>4. CASE \/ \E c \in Content : WritePack(c)
           \/ ChangeTools
           \/ Tick
           \/ UNCHANGED vars
  BY <1>4 DEF WritePack, runVars, ChangeTools, Tick, vars, Verdict!verdictVars
<1>5. CASE LetGo
  <2>1. child'.text = child.text /\ UNCHANGED <<file, outcome, copied>>
    BY <1>5 DEF LetGo, RunnerInv, RunTypes, Child
  <2>. QED BY <2>1 DEF Verdict!verdictVars
<1>. QED BY <1>1, <1>2, <1>3, <1>4, <1>5 DEF Around

(* Whatever the user saves while a file is built and run, the run does     *)
(* what Verdict allows: it looks once, and what it says is true of what it *)
(* saw.                                                                    *)
THEOREM RunImplementsVerdict == Spec => JudgesOneMoment
<1>1. Init => Verdict!VerdictInit
  BY DEF Init, NoChild, Verdict!VerdictInit
<1>2. RunnerInv /\ [Next]_vars
        => [Verdict!Save \/ Verdict!Ask \/ Verdict!Look \/ Verdict!Tell]_Verdict!verdictVars
  BY CommandVerdict, ChildVerdict, AroundVerdict DEF Next
<1>. QED BY <1>1, <1>2, RunnerInvariant, PTL DEF Spec, JudgesOneMoment, Verdict!VerdictSpec

=============================================================================
