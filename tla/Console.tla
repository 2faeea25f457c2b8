------------------------------ MODULE Console ------------------------------
(***************************************************************************)
(* The live menu of one console (console.py), on a terminal.  Keys are     *)
(* read in two ways: the menu takes bytes from the file descriptor         *)
(* (_next_char), the questions take characters from the text stream        *)
(* (stdin.read, stdin.readline), which keeps in a buffer of its own what   *)
(* it read and did not hand out.  Entering the menu, or the question       *)
(* whether to unlock, puts the terminal in cbreak mode and discards what   *)
(* was typed before (tty.setcbreak flushes).                               *)
(*                                                                         *)
(* Meanwhile time passes, and other commands change session.json.  What a  *)
(* run or a save does step by step is Practice and SessionStore; here it   *)
(* is one step.  The session file can be read.                             *)
(***************************************************************************)
EXTENDS Naturals, Sequences

CONSTANTS
  Top,       \* max_level of the problems
  Minutes,   \* bound: what a new clock has
  Place,     \* problem and language of a desk
  Key,       \* the keys and words the user types
  MaxTyped,  \* bound: how many of them wait to be read
  NoKey

ASSUME ConsoleAssumption ==
  /\ Top \in Nat \ {0}
  /\ Minutes \in Nat \ {0}
  /\ Place # {}
  /\ {"1", "2", "3", "6", "y", "Enter"} \subseteq Key
  /\ MaxTyped \in Nat
  /\ NoKey \notin [key : Key, fresh : BOOLEAN]

VARIABLES
  file,      \* the desk in session.json
  session,   \* the console's copy
  pc,        \* where the console is
  tty,       \* keys typed and not read from the terminal
  buf,       \* keys that the text stream read and did not hand out
  choice,    \* the key whose command is going on
  answer,    \* what the question was answered with
  bannered,  \* a banner was printed
  shown,     \* the _banner_key it had
  timeUp,    \* shown_time_up
  told,      \* history: a banner said TIME UP since the clock ran out
  looked,    \* history: the console saw this clock running, or forgot the latch
  stale      \* history: another command saved since the session was read

vars == <<file, session, pc, tty, buf, choice, answer, bannered, shown, timeUp,
          told, looked, stale>>
screen == <<bannered, shown, timeUp>>

-----------------------------------------------------------------------------
(* Types *)

Desk ==
  {d \in [place : Place, level : 1..Top, cleared : BOOLEAN, left : 0..Minutes] :
     d.cleared => d.level = Top}

Typed == [key : Key, fresh : BOOLEAN]     \* fresh: typed at this prompt

Places == {"top", "prompt", "unlock", "reset", "problem", "language", "go", "gone"}

BannerKey(d) == [place |-> d.place, level |-> d.level, cleared |-> d.cleared]

ConsoleTypeOK ==
  /\ file \in Desk /\ session \in Desk
  /\ pc \in Places
  /\ tty \in Seq(Typed) /\ buf \in Seq(Typed)
  /\ Len(tty) + Len(buf) <= MaxTyped
  /\ choice \in Typed \cup {NoKey} /\ answer \in Typed \cup {NoKey}
  /\ shown \in {BannerKey(d) : d \in Desk}
  /\ bannered \in BOOLEAN /\ timeUp \in BOOLEAN
  /\ told \in BOOLEAN /\ looked \in BOOLEAN /\ stale \in BOOLEAN

(* The banner says TIME UP. *)
Up(d) == d.left = 0 /\ d.level < Top

Aged(s) == [i \in DOMAIN s |-> [s[i] EXCEPT !.fresh = FALSE]]

-----------------------------------------------------------------------------
(* cmd_console, and the top of the loop *)

(* ensure_session gives a new clock for one that ran out. *)
Started(d) == [d EXCEPT !.left = IF @ = 0 THEN Minutes ELSE @]

Loop(d) ==
  /\ session' = d
  /\ pc' = "top"
  /\ choice' = NoKey /\ answer' = NoKey
  /\ bannered' = FALSE /\ shown' = BannerKey(d) /\ timeUp' = FALSE
  /\ told' = FALSE /\ looked' = TRUE /\ stale' = FALSE

Init ==
  /\ file \in Desk
  /\ session = Started(file)
  /\ pc = "gone"
  /\ tty = <<>> /\ buf = <<>>
  /\ choice = NoKey /\ answer = NoKey
  /\ bannered = FALSE /\ shown = BannerKey(file) /\ timeUp = FALSE
  /\ told = FALSE /\ looked = TRUE /\ stale = FALSE

Open ==
  /\ pc = "gone"
  /\ file' = Started(file)
  /\ Loop(Started(file))
  /\ tty' = <<>> /\ buf' = <<>>

(* Reload, print a banner if there is none yet, if it shows something else, *)
(* or if the clock ran out, and ask for a key.                             *)
LoopTop ==
  LET due == file.left = 0 /\ ~timeUp
      other == shown # BannerKey(file)
      prints == ~bannered \/ other \/ due IN
  /\ pc = "top"
  /\ pc' = "prompt"
  /\ session' = file
  /\ bannered' = TRUE
  /\ shown' = IF ~bannered \/ other THEN BannerKey(file) ELSE shown
  /\ timeUp' = IF ~bannered THEN timeUp
               ELSE file.left = 0 /\ (timeUp \/ ~other)
  /\ told' = (told \/ (prints /\ Up(file)))
  /\ looked' = (looked \/ (bannered /\ file.left > 0))
  /\ stale' = FALSE
  /\ tty' = <<>>
  /\ buf' = Aged(buf)
  /\ answer' = NoKey
  /\ UNCHANGED <<file, choice>>

-----------------------------------------------------------------------------
(* _read_choice, live *)

(* Mistake: the latch stays for good. *)
PollLatched ==
  /\ pc = "prompt"
  /\ tty = <<>>
  /\ session' = file
  /\ timeUp' = (timeUp \/ file.left = 0)
  /\ told' = (told \/ (~timeUp /\ Up(file)))
  /\ looked' = (looked \/ file.left > 0)
  /\ stale' = FALSE
  /\ UNCHANGED <<file, pc, tty, buf, choice, answer, bannered, shown>>

(* A second without a key. *)
Poll ==
  /\ pc = "prompt"
  /\ tty = <<>>
  /\ session' = file
  /\ timeUp' = (file.left = 0)
  /\ told' = (told \/ (~timeUp /\ Up(file)))
  /\ looked' = (looked \/ file.left > 0)
  /\ stale' = FALSE
  /\ UNCHANGED <<file, pc, tty, buf, choice, answer, bannered, shown>>

(* Enter, and anything blank, redraws the prompt. *)
Redraw ==
  /\ pc = "prompt" /\ tty # <<>> /\ Head(tty).key = "Enter"
  /\ tty' = Tail(tty)
  /\ UNCHANGED <<file, session, pc, buf, choice, answer, screen, told, looked, stale>>

(* Where a key leads: a submit is asked about as long as it may unlock. *)
Asks(d) == d.level < Top /\ d.left > 0

(* Mistake: asks only when the clock has run out. *)
LedUnasked(key) ==
  CASE key = "3" -> "reset"
    [] key = "6" -> "problem"
    [] key = "2" /\ session.level < Top /\ session.left = 0 -> "unlock"
    [] OTHER -> "go"

Led(key) ==
  CASE key = "3" -> "reset"
    [] key = "6" -> "problem"
    [] key = "2" /\ Asks(session) -> "unlock"
    [] OTHER -> "go"

(* Mistake: the menu reads from the text stream as the questions do. *)
ReadStream ==
  LET all == buf \o tty IN
  /\ pc = "prompt" /\ all # <<>> /\ Head(all).key # "Enter"
  /\ choice' = Head(all)
  /\ answer' = NoKey
  /\ pc' = Led(Head(all).key)
  /\ tty' = <<>>
  /\ buf' = Aged(Tail(all))
  /\ UNCHANGED <<file, session, screen, told, looked, stale>>

(* One byte from the terminal, and what follows at once is dropped. *)
ReadKey ==
  /\ pc = "prompt" /\ tty # <<>> /\ Head(tty).key # "Enter"
  /\ choice' = Head(tty)
  /\ answer' = NoKey
  /\ pc' = Led(Head(tty).key)
  /\ tty' = <<>>
  /\ buf' = Aged(buf)
  /\ UNCHANGED <<file, session, screen, told, looked, stale>>

-----------------------------------------------------------------------------
(* The questions *)

(* Unlock? y / n, in cbreak mode: a character from the stream, which reads *)
(* all there is when its buffer is empty.  Then the terminal is drained.   *)
AnswerUnlock ==
  LET from == IF buf # <<>> THEN buf ELSE tty IN
  /\ pc = "unlock" /\ from # <<>>
  /\ answer' = Head(from)
  /\ buf' = Aged(Tail(from))
  /\ tty' = <<>>
  /\ pc' = IF Head(from).key = "y" THEN "go" ELSE "top"
  /\ choice' = IF Head(from).key = "y" THEN choice ELSE NoKey
  /\ UNCHANGED <<file, session, screen, told, looked, stale>>

(* readline: the buffer first, then the terminal, up to an Enter. *)
Waiting == buf \o tty

ReadLine(end) ==
  /\ end \in DOMAIN Waiting
  /\ Waiting[end].key = "Enter"
  /\ \A i \in 1..(end - 1) : Waiting[i].key # "Enter"
  /\ buf' = Aged(SubSeq(buf, end + 1, Len(buf)))
  /\ tty' = Aged(SubSeq(tty, IF end > Len(buf) THEN end - Len(buf) + 1 ELSE 1, Len(tty)))

ReadAnyLine == \E end \in DOMAIN Waiting : ReadLine(end)

(* The words that the questions know are single keys here. *)
Word(end) == IF end = 2 THEN Waiting[1].key ELSE "Enter"

(* Mistake: back below level 1. *)
ResetDeskLow(word) ==
  CASE word = "back" -> [session EXCEPT !.level = @ - 1, !.cleared = FALSE]
    [] word = "all" ->
         [place |-> session.place, level |-> 1, cleared |-> FALSE, left |-> Minutes]
    [] OTHER -> session

(* What 3 leaves in the session: nothing new after y. *)
ResetDesk(word) ==
  CASE word = "back" /\ session.level > 1 ->
         [session EXCEPT !.level = @ - 1, !.cleared = FALSE]
    [] word = "all" ->
         [place |-> session.place, level |-> 1, cleared |-> FALSE, left |-> Minutes]
    [] OTHER -> session

(* 3 reset.  Anything but these words cancels.  A reset that fails leaves  *)
(* the latches alone, and may have saved the session or not.               *)
AnswerReset ==
  /\ pc = "reset"
  /\ pc' = "top"
  /\ \E end \in DOMAIN Waiting :
       LET word == Word(end)
           saves == ResetDesk(word) # session IN
       /\ ReadLine(end)
       /\ answer' = IF end = 2 THEN Waiting[1] ELSE NoKey
       /\ \/ /\ word \in {"y", "back", "all"}
             /\ file' = IF saves THEN ResetDesk(word) ELSE file
             /\ session' = ResetDesk(word)
             /\ told' = (told /\ ~saves)
             /\ UNCHANGED shown
             /\ \/ bannered' = FALSE /\ timeUp' = FALSE /\ looked' = TRUE
                \/ UNCHANGED <<bannered, timeUp>> /\ looked' = (looked /\ ~saves)
          \/ UNCHANGED <<file, session, screen, told, looked>>
  /\ choice' = NoKey
  /\ UNCHANGED stale

-----------------------------------------------------------------------------
(* dispatch, and what follows it in the loop *)

(* What a run or a submit may leave: cmd_run reads the session again, and  *)
(* refuses another problem's.                                              *)
Passed(d) ==
  CASE d.level = Top -> [d EXCEPT !.cleared = TRUE]
    [] choice.key = "2" /\ d.level < Top /\ d.left > 0 -> [d EXCEPT !.level = @ + 1]
    [] OTHER -> d

Ran ==
  IF choice.key \in {"1", "2"} /\ file.place = session.place THEN {file, Passed(file)}
  ELSE {file}

(* Reload; the banner again, except over a win and over the list of keys.  *)
AfterDispatch(d) ==
  LET won == d.cleared /\ ~session.cleared IN
  /\ file' = d /\ session' = d
  /\ shown' = BannerKey(d)
  /\ pc' = "top"
  /\ told' = ((told /\ d.left = 0)
              \/ (~won /\ choice.key \in {"1", "2", "6"} /\ Up(d)))
  /\ stale' = FALSE
  /\ choice' = NoKey /\ answer' = NoKey

Dispatch ==
  /\ pc = "go"
  /\ \E d \in Ran :
       /\ AfterDispatch(d)
       /\ tty' = IF d.cleared /\ ~session.cleared THEN <<>> ELSE tty
  /\ UNCHANGED <<buf, bannered, timeUp, looked>>

(* 6 switch asks for the problem, then for the language, again after a     *)
(* typing error.                                                           *)
AskAgain ==
  /\ pc \in {"problem", "language"}
  /\ ReadAnyLine
  /\ pc' \in {pc, "language"}
  /\ UNCHANGED <<file, session, choice, answer, screen, told, looked, stale>>

(* Cancelled, the same desk, or one that cannot be had. *)
SwitchNothing ==
  /\ pc \in {"problem", "language"}
  /\ ReadAnyLine
  /\ AfterDispatch(file)
  /\ UNCHANGED <<bannered, timeUp, looked>>

Switch ==
  /\ pc = "language"
  /\ ReadAnyLine
  /\ \E d \in Desk : d.place # session.place /\ AfterDispatch(Started(d))
  /\ looked' = FALSE
  /\ UNCHANGED <<bannered, timeUp>>

(* Ctrl-C after the switch was saved. *)
SwitchCut ==
  /\ pc = "language"
  /\ ReadAnyLine
  /\ pc' = "top"
  /\ \E d \in Desk : d.place # session.place /\ file' = Started(d)
  /\ told' = FALSE /\ looked' = FALSE
  /\ choice' = NoKey /\ answer' = NoKey
  /\ UNCHANGED <<session, screen, stale>>

(* Ctrl-C during a command, before or after it saved. *)
Interrupt ==
  /\ pc \in {"go", "problem", "language"}
  /\ pc' = "top"
  /\ file' \in IF pc = "go" THEN Ran ELSE {file}
  /\ choice' = NoKey /\ answer' = NoKey
  /\ UNCHANGED <<session, tty, buf, screen, told, looked, stale>>

(* q, Ctrl-D, Ctrl-C, or the terminal goes away. *)
Leave ==
  /\ pc \in {"prompt", "unlock", "reset"}
  /\ pc' = "gone"
  /\ tty' = <<>> /\ buf' = <<>>
  /\ choice' = NoKey /\ answer' = NoKey
  /\ UNCHANGED <<file, session, screen, told, looked, stale>>

-----------------------------------------------------------------------------
(* What happens around the console *)

(* What is typed at the top of the loop is discarded there. *)
Type(key) ==
  /\ pc \notin {"top", "gone"}
  /\ Len(tty) + Len(buf) < MaxTyped
  /\ tty' = Append(tty, [key |-> key, fresh |-> TRUE])
  /\ UNCHANGED <<file, session, pc, buf, choice, answer, screen, told, looked, stale>>

Later(d) == [d EXCEPT !.left = IF @ = 0 THEN 0 ELSE @ - 1]

Tick ==
  /\ pc # "gone"
  /\ Later(file) # file \/ Later(session) # session
  /\ file' = Later(file) /\ session' = Later(session)
  /\ UNCHANGED <<pc, tty, buf, choice, answer, screen, told, looked, stale>>

(* Another command saves whatever commands save: once between two times    *)
(* that the console reads the file, which cannot see more.                 *)
OtherSaves ==
  /\ pc # "gone" /\ ~stale
  /\ file' \in Desk \ {file}
  /\ told' = FALSE /\ looked' = FALSE /\ stale' = TRUE
  /\ UNCHANGED <<session, pc, tty, buf, choice, answer, screen>>

Loops == LoopTop \/ Poll \/ Redraw \/ ReadKey
Answers == AnswerUnlock \/ AnswerReset
Switches == AskAgain \/ SwitchNothing \/ Switch \/ SwitchCut

Next ==
  \/ Open \/ Loops \/ Answers \/ Dispatch \/ Switches \/ Interrupt \/ Leave
  \/ \E key \in Key : Type(key)
  \/ Tick \/ OtherSaves

(* The console runs on when it can.  The user, the clock and the other     *)
(* commands need not.                                                      *)
Spec == Init /\ [][Next]_vars /\ WF_vars(Loops) /\ WF_vars(Dispatch)

-----------------------------------------------------------------------------
(* Properties *)

(* A command of the menu starts by a key that was typed at this menu, and  *)
(* not by one left over from a question or from the time of a run or a win *)
(* (console.py:304).                                                       *)
CommandsAreFresh == choice # NoKey => choice.fresh

(* If no other command saved since the console last read the session, a    *)
(* submit from the menu opens a level only after the question was answered *)
(* with y (console.py:280).                                                *)
NothingUnasked ==
  [][pc = "go" /\ ~stale /\ ~stale' /\ file'.place = file.place /\ file'.level > file.level
       => answer # NoKey /\ answer.key = "y"]_vars

(* When a clock that the console saw running is over, a console that waits *)
(* for a key says so, in a banner, unless it said so already.  A user who   *)
(* holds Enter for ever keeps it from looking at the clock.                *)
TimeUpIsTold ==
  <>[](tty = <<>>) =>
    (pc = "prompt" /\ looked /\ Up(file)
       ~> told \/ ~looked \/ ~Up(file) \/ pc # "prompt")

(* What answers a question was typed at that question                      *)
(* (test_console.py:1291).  It may be what the stream kept from the last   *)
(* one.                                                                    *)
AnswersAreTyped == answer # NoKey => answer.fresh
=============================================================================
