--------------------------- MODULE ConsoleProofs ---------------------------
(***************************************************************************)
(* Proofs about Console.  ConsoleInv says what is known where.  At the     *)
(* menu every key that waits was typed there, because the terminal is      *)
(* emptied on the way to it.  In between, the console's copy is the file,  *)
(* unless another command saved; and a submit that goes on unasked goes on *)
(* with a desk that it cannot raise.                                       *)
(***************************************************************************)
EXTENDS Console, SequenceTheorems, TLAPS

(* At the menu only what was typed there waits. *)
FreshAtPrompt ==
  /\ pc = "prompt" => \A i \in DOMAIN tty : tty[i].fresh
  /\ choice # NoKey => choice.fresh

(* Where a command was chosen and may go on to open a level. *)
Commanding == {"prompt", "unlock", "reset", "problem", "language", "go"}

CopyIsCurrent == pc \in Commanding /\ ~stale => session = file

Unraised ==
  pc = "go" /\ choice.key = "2" =>
    ~Asks(session) \/ (answer # NoKey /\ answer.key = "y")

-----------------------------------------------------------------------------
(* Lemmas about desks and keys *)

LEMMA DeskFields ==
  ASSUME NEW d \in Desk
  PROVE  /\ d.place \in Place /\ d.level \in 1..Top
         /\ d.cleared \in BOOLEAN /\ d.left \in 0..Minutes
         /\ d.cleared => d.level = Top
         /\ d = [place |-> d.place, level |-> d.level,
                 cleared |-> d.cleared, left |-> d.left]
  BY DEF Desk

LEMMA MakeDesk ==
  ASSUME NEW p \in Place, NEW l \in 1..Top, NEW c \in BOOLEAN, NEW t \in 0..Minutes,
         c => l = Top
  PROVE  [place |-> p, level |-> l, cleared |-> c, left |-> t] \in Desk
  BY DEF Desk

(* A new clock, a tick, a reset and a pass leave a desk a desk. *)
LEMMA DeskChanges ==
  ASSUME NEW d \in Desk
  PROVE  /\ Started(d) \in Desk
         /\ Later(d) \in Desk /\ Later(d).left <= d.left
         /\ Later(d).level = d.level /\ Later(d).place = d.place
         /\ Passed(d) \in Desk
         /\ BannerKey(d) \in {BannerKey(e) : e \in Desk}
<1>1. Started(d) \in Desk
  BY DeskFields, ConsoleAssumption DEF Started, Desk
<1>2. Later(d) \in Desk /\ Later(d).left <= d.left
      /\ Later(d).level = d.level /\ Later(d).place = d.place
  BY DeskFields, ConsoleAssumption DEF Later, Desk
<1>3. Passed(d) \in Desk
  <2>1. CASE d.level = Top
    <3>0. ~(d.level < Top)
      BY <2>1, ConsoleAssumption
    <3>1. Passed(d) = [d EXCEPT !.cleared = TRUE]
      BY <2>1, <3>0 DEF Passed
    <3>2. QED
      BY <2>1, <3>1, DeskFields DEF Desk
  <2>2. CASE d.level < Top /\ choice.key = "2" /\ d.left > 0
    <3>1. d.level \in 1..Top /\ d.level # Top /\ ~d.cleared /\ d.level + 1 \in 1..Top
      BY <2>2, DeskFields, ConsoleAssumption
    <3>2. Passed(d) = [d EXCEPT !.level = @ + 1]
      BY <2>2, <3>1 DEF Passed
    <3>3. QED
      BY <3>1, <3>2, DeskFields DEF Desk
  <2>3. CASE d.level # Top /\ ~(d.level < Top /\ choice.key = "2" /\ d.left > 0)
    <3>1. Passed(d) = d
      BY <2>3 DEF Passed
    <3>2. QED
      BY <3>1
  <2>4. QED
    BY <2>1, <2>2, <2>3
<1>4. QED
  BY <1>1, <1>2, <1>3

LEMMA ResetIsDesk ==
  ASSUME session \in Desk, NEW word
  PROVE  ResetDesk(word) \in Desk
<1>1. CASE word = "back" /\ session.level > 1
  <2>1. ResetDesk(word) = [session EXCEPT !.level = @ - 1, !.cleared = FALSE]
    BY <1>1 DEF ResetDesk
  <2>2. session.level - 1 \in 1..Top
    BY <1>1, DeskFields, ConsoleAssumption
  <2>3. QED
    BY <2>1, <2>2, DeskFields DEF Desk
<1>2. CASE word = "all"
  <2>1. ResetDesk(word) = [place |-> session.place, level |-> 1,
                           cleared |-> FALSE, left |-> Minutes]
    BY <1>2 DEF ResetDesk
  <2>2. 1 \in 1..Top /\ Minutes \in 0..Minutes
    BY ConsoleAssumption
  <2>3. QED
    BY <2>1, <2>2, DeskFields DEF Desk
<1>3. CASE ~(word = "back" /\ session.level > 1) /\ word # "all"
  BY <1>3 DEF ResetDesk
<1>4. QED
  BY <1>1, <1>2, <1>3

LEMMA AgedTyped ==
  ASSUME NEW s \in Seq(Typed)
  PROVE  Aged(s) \in Seq(Typed) /\ Len(Aged(s)) = Len(s)
<1>1. Len(s) \in Nat /\ DOMAIN s = 1..Len(s) /\ \A i \in 1..Len(s) : s[i] \in Typed
  OBVIOUS
<1>2. \A t \in Typed : [t EXCEPT !.fresh = FALSE] \in Typed
  BY DEF Typed
<1>3. Aged(s) \in [1..Len(s) -> Typed]
  BY <1>1, <1>2 DEF Aged
<1>4. QED
  BY <1>1, <1>3, LenProperties, IsASeq

(* What a run leaves is a desk, and it is higher only after a submit. *)
LEMMA RanIsDesk ==
  ASSUME file \in Desk, NEW d \in Ran
  PROVE  /\ d \in Desk
         /\ d.level > file.level => choice.key = "2" /\ Asks(file)
                                    /\ file.place = session.place
<1>1. d = file \/ (d = Passed(file) /\ file.place = session.place)
  BY DEF Ran
<1>2. Passed(file).level > file.level => choice.key = "2" /\ Asks(file)
  BY DeskFields DEF Passed, Asks, Desk
<1>3. file.level \in Nat
  BY DeskFields, ConsoleAssumption
<1>4. QED
  BY <1>1, <1>2, <1>3, DeskChanges

LEMMA TailTyped ==
  ASSUME NEW s \in Seq(Typed), s # <<>>
  PROVE  /\ Head(s) \in Typed /\ Tail(s) \in Seq(Typed)
         /\ Len(Tail(s)) <= Len(s) /\ Len(Tail(s)) \in Nat /\ Len(s) \in Nat
  BY HeadTailProperties, LenProperties

LEMMA SubSeqTyped ==
  ASSUME NEW s \in Seq(Typed), NEW m \in Nat \ {0}
  PROVE  /\ Aged(SubSeq(s, m, Len(s))) \in Seq(Typed)
         /\ Len(Aged(SubSeq(s, m, Len(s)))) <= Len(s)
<1>1. Len(s) \in Nat /\ \A i \in m..Len(s) : s[i] \in Typed
  BY LenProperties, ElementOfSeq
<1>2. /\ SubSeq(s, m, Len(s)) \in Seq(Typed)
      /\ Len(SubSeq(s, m, Len(s))) = IF m <= Len(s) THEN Len(s) - m + 1 ELSE 0
  BY <1>1, SubSeqProperties
<1>3. Len(SubSeq(s, m, Len(s))) <= Len(s)
  BY <1>1, <1>2
<1>4. /\ Aged(SubSeq(s, m, Len(s))) \in Seq(Typed)
      /\ Len(Aged(SubSeq(s, m, Len(s)))) = Len(SubSeq(s, m, Len(s)))
  BY <1>2, AgedTyped
<1>5. QED
  BY <1>3, <1>4

(* A line read leaves well-typed queues, and no more than there was. *)
LEMMA ReadLineTyped ==
  ASSUME ConsoleTypeOK, NEW end, ReadLine(end)
  PROVE  /\ tty' \in Seq(Typed) /\ buf' \in Seq(Typed)
         /\ Len(tty') + Len(buf') <= MaxTyped
         /\ Waiting[1] \in Typed
<1>1. /\ tty \in Seq(Typed) /\ buf \in Seq(Typed)
      /\ Len(tty) \in Nat /\ Len(buf) \in Nat
  BY LenProperties DEF ConsoleTypeOK
<1>2. Waiting \in Seq(Typed) /\ Len(Waiting) = Len(buf) + Len(tty)
  BY <1>1, ConcatProperties DEF Waiting
<1>3. end \in 1..(Len(buf) + Len(tty))
  BY <1>1, <1>2, LenProperties DEF ReadLine
<1>4. Waiting[1] \in Typed
  BY <1>1, <1>2, <1>3, ElementOfSeq
<1>5. end + 1 \in Nat \ {0}
      /\ (IF end > Len(buf) THEN end - Len(buf) + 1 ELSE 1) \in Nat \ {0}
  BY <1>1, <1>3
<1>6. buf' \in Seq(Typed) /\ Len(buf') <= Len(buf)
  BY <1>1, <1>5, SubSeqTyped DEF ReadLine
<1>7. tty' \in Seq(Typed) /\ Len(tty') <= Len(tty)
  BY <1>1, <1>5, SubSeqTyped DEF ReadLine
<1>8. QED
  BY <1>1, <1>4, <1>6, <1>7, LenProperties, ConsoleAssumption DEF ConsoleTypeOK

-----------------------------------------------------------------------------
(* Types *)

(* After a command the console has what it reads from the file.            *)
LEMMA AfterDispatchTyped ==
  ASSUME ConsoleTypeOK, NEW d \in Desk, AfterDispatch(d),
         tty' \in Seq(Typed), buf' \in Seq(Typed),
         Len(tty') + Len(buf') <= MaxTyped,
         bannered' = bannered, timeUp' = timeUp, looked' \in BOOLEAN
  PROVE  ConsoleTypeOK'
<1>1. told' \in BOOLEAN
  BY DEF AfterDispatch, ConsoleTypeOK
<1>2. shown' \in {BannerKey(e) : e \in Desk}
  BY DEF AfterDispatch
<1>3. QED
  BY <1>1, <1>2 DEF AfterDispatch, ConsoleTypeOK, Places

(* Init gives good types, and every step keeps them (console.py:201). *)
THEOREM ConsoleTypes == Spec => []ConsoleTypeOK
<1>1. Init => ConsoleTypeOK
  <2>1. SUFFICES ASSUME Init PROVE ConsoleTypeOK
    OBVIOUS
  <2>2. session \in Desk /\ shown \in {BannerKey(d) : d \in Desk}
    BY <2>1, DeskChanges DEF Init
  <2>3. tty \in Seq(Typed) /\ buf \in Seq(Typed) /\ Len(tty) + Len(buf) <= MaxTyped
    BY <2>1, ConsoleAssumption, EmptySeq DEF Init
  <2>4. /\ bannered \in BOOLEAN /\ timeUp \in BOOLEAN
        /\ told \in BOOLEAN /\ looked \in BOOLEAN /\ stale \in BOOLEAN
    BY <2>1, Zenon DEF Init
  <2>5. file \in Desk /\ pc \in Places /\ choice = NoKey /\ answer = NoKey
    BY <2>1 DEF Init, Places
  <2>6. QED
    BY <2>2, <2>3, <2>4, <2>5, Zenon DEF ConsoleTypeOK
<1>2. ConsoleTypeOK /\ [Next]_vars => ConsoleTypeOK'
  <2> SUFFICES ASSUME ConsoleTypeOK, [Next]_vars PROVE ConsoleTypeOK'
    OBVIOUS
  <2> USE DEF ConsoleTypeOK
  <2>q. /\ Len(tty) \in Nat /\ Len(buf) \in Nat
        /\ Aged(buf) \in Seq(Typed) /\ Len(Aged(buf)) = Len(buf)
        /\ <<>> \in Seq(Typed) /\ Len(<<>>) = 0
    BY LenProperties, AgedTyped, EmptySeq
  <2>p. \A x \in Nat : x <= Len(tty) => x + Len(buf) <= MaxTyped
    BY <2>q, ConsoleAssumption
  <2>1. CASE Open
    <3>1. Started(file) \in Desk /\ BannerKey(Started(file)) \in {BannerKey(d) : d \in Desk}
      BY DeskChanges
    <3>2. tty' \in Seq(Typed) /\ buf' \in Seq(Typed) /\ Len(tty') + Len(buf') <= MaxTyped
      BY <2>1, <2>q, ConsoleAssumption DEF Open
    <3>3. /\ bannered' \in BOOLEAN /\ timeUp' \in BOOLEAN
          /\ told' \in BOOLEAN /\ looked' \in BOOLEAN /\ stale' \in BOOLEAN
      BY <2>1, Zenon DEF Open, Loop
    <3>4. /\ file' \in Desk /\ session' \in Desk /\ pc' \in Places
          /\ choice' = NoKey /\ answer' = NoKey
          /\ shown' \in {BannerKey(d) : d \in Desk}
      BY <2>1, <3>1 DEF Open, Loop, Places
    <3>5. QED
      BY <3>2, <3>3, <3>4, Zenon
  <2>2. CASE LoopTop
    <3>1. BannerKey(file) \in {BannerKey(d) : d \in Desk}
      BY DeskChanges
    <3>2. shown' \in {BannerKey(d) : d \in Desk}
      BY <2>2, <3>1 DEF LoopTop
    <3>3. told' \in BOOLEAN /\ timeUp' \in BOOLEAN /\ looked' \in BOOLEAN
      BY <2>2, Zenon DEF LoopTop, Up
    <3>4. tty' \in Seq(Typed) /\ buf' \in Seq(Typed) /\ Len(tty') + Len(buf') <= MaxTyped
      BY <2>2, <2>q, <2>p DEF LoopTop
    <3>5. /\ file' = file /\ session' = file /\ pc' \in Places /\ choice' = choice
          /\ answer' = NoKey /\ bannered' = TRUE /\ stale' = FALSE
      BY <2>2 DEF LoopTop, Places
    <3>6. QED
      BY <3>2, <3>3, <3>4, <3>5, Zenon
  <2>3. CASE Poll
    <3>1. told' \in BOOLEAN /\ timeUp' \in BOOLEAN /\ looked' \in BOOLEAN
      BY <2>3, Zenon DEF Poll, Up
    <3>2. QED
      BY <2>3, <3>1 DEF Poll
  <2>4. CASE Redraw
    BY <2>4, <2>q, <2>p, TailTyped DEF Redraw, screen
  <2>5. CASE ReadKey
    <3>1. Head(tty) \in Typed /\ Led(Head(tty).key) \in Places
      BY <2>5, TailTyped DEF ReadKey, Led, Places
    <3>2. QED
      BY <2>5, <3>1, <2>q, <2>p DEF ReadKey, screen
  <2>6. CASE AnswerUnlock
    <3> DEFINE from == IF buf # <<>> THEN buf ELSE tty
    <3>1. from \in Seq(Typed) /\ from # <<>>
      BY <2>6, Zenon DEF AnswerUnlock
    <3>2. Len(from) <= MaxTyped
      BY <2>q, ConsoleAssumption
    <3> HIDE DEF from
    <3>3. /\ Head(from) \in Typed /\ Tail(from) \in Seq(Typed)
          /\ Len(Tail(from)) <= Len(from) /\ Len(Tail(from)) \in Nat /\ Len(from) \in Nat
      BY <3>1, TailTyped
    <3>4. Aged(Tail(from)) \in Seq(Typed) /\ Len(Aged(Tail(from))) = Len(Tail(from))
      BY <3>3, AgedTyped
    <3>5. /\ Head(from) \in Typed
          /\ Aged(Tail(from)) \in Seq(Typed) /\ Len(Aged(Tail(from))) <= MaxTyped
          /\ Len(Aged(Tail(from))) \in Nat
      BY <3>2, <3>3, <3>4, ConsoleAssumption
    <3>6. answer' = Head(from) /\ buf' = Aged(Tail(from))
      BY <2>6 DEF AnswerUnlock, from
    <3>7. QED
      BY <2>6, <3>5, <3>6, <2>q, ConsoleAssumption DEF AnswerUnlock, screen, Places
  <2>7. CASE AnswerReset
    <3>1. PICK end \in DOMAIN Waiting :
            /\ ReadLine(end)
            /\ answer' = IF end = 2 THEN Waiting[1] ELSE NoKey
            /\ \/ /\ file' \in {file, ResetDesk(Word(end))}
                  /\ session' = ResetDesk(Word(end))
                  /\ told' \in BOOLEAN
                  /\ shown' = shown
                  /\ bannered' \in BOOLEAN /\ timeUp' \in BOOLEAN /\ looked' \in BOOLEAN
               \/ UNCHANGED <<file, session, screen, told, looked>>
      BY <2>7, Zenon DEF AnswerReset
    <3>2. ResetDesk(Word(end)) \in Desk
      BY ResetIsDesk
    <3>3. /\ tty' \in Seq(Typed) /\ buf' \in Seq(Typed)
          /\ Len(tty') + Len(buf') <= MaxTyped
          /\ Waiting[1] \in Typed
      BY <3>1, ReadLineTyped
    <3>4. pc' = "top" /\ choice' = NoKey /\ stale' = stale
      BY <2>7 DEF AnswerReset
    <3>5. QED
      BY <3>1, <3>2, <3>3, <3>4 DEF screen, Places
  <2>8. CASE Dispatch
    <3>1. PICK d \in Ran : AfterDispatch(d) /\ tty' \in {<<>>, tty}
      BY <2>8 DEF Dispatch
    <3>2. d \in Desk
      BY RanIsDesk
    <3>3. tty' \in Seq(Typed) /\ Len(tty') + Len(buf') <= MaxTyped /\ buf' = buf
      BY <2>8, <3>1, <2>q, <2>p DEF Dispatch
    <3>4. QED
      BY <2>8, <3>1, <3>2, <3>3, AfterDispatchTyped DEF Dispatch
  <2>9. CASE Switches
    <3>1. PICK end \in DOMAIN Waiting : ReadLine(end)
      BY <2>9 DEF Switches, AskAgain, SwitchNothing, Switch, SwitchCut, ReadAnyLine
    <3>2. /\ tty' \in Seq(Typed) /\ buf' \in Seq(Typed)
          /\ Len(tty') + Len(buf') <= MaxTyped
      BY <3>1, ReadLineTyped
    <3>3. CASE AskAgain
      BY <3>2, <3>3 DEF AskAgain, screen, Places
    <3>4. CASE SwitchNothing
      BY <3>2, <3>4, AfterDispatchTyped DEF SwitchNothing
    <3>5. CASE Switch
      <4>1. PICK d \in Desk : AfterDispatch(Started(d))
        BY <3>5 DEF Switch
      <4>2. Started(d) \in Desk
        BY DeskChanges
      <4>3. QED
        BY <3>2, <3>5, <4>1, <4>2, AfterDispatchTyped DEF Switch
    <3>6. CASE SwitchCut
      <4>1. file' \in Desk
        BY <3>6, DeskChanges DEF SwitchCut
      <4>2. QED
        BY <3>2, <3>6, <4>1 DEF SwitchCut, screen, Places
    <3>7. QED
      BY <2>9, <3>3, <3>4, <3>5, <3>6 DEF Switches
  <2>10. CASE Interrupt
    <3>1. file' \in Desk
      BY <2>10, RanIsDesk DEF Interrupt
    <3>2. QED
      BY <2>10, <3>1 DEF Interrupt, screen, Places
  <2>11. CASE Leave
    BY <2>11, <2>q, ConsoleAssumption DEF Leave, screen, Places
  <2>12. ASSUME NEW key \in Key, Type(key) PROVE ConsoleTypeOK'
    <3>1. [key |-> key, fresh |-> TRUE] \in Typed
      BY DEF Typed
    <3>2. tty' \in Seq(Typed) /\ Len(tty') = Len(tty) + 1
      BY <2>12, <3>1, AppendProperties DEF Type
    <3>3. QED
      BY <2>12, <3>2, <2>q, ConsoleAssumption DEF Type, screen
  <2>13. CASE Tick
    <3>1. Later(file) \in Desk /\ Later(session) \in Desk
      BY DeskChanges
    <3>2. QED
      BY <2>13, <3>1 DEF Tick, screen
  <2>14. CASE OtherSaves
    BY <2>14 DEF OtherSaves, screen
  <2>15. CASE UNCHANGED vars
    BY <2>15 DEF vars
  <2>16. QED
    BY <2>1, <2>2, <2>3, <2>4, <2>5, <2>6, <2>7, <2>8, <2>9, <2>10, <2>11, <2>12,
       <2>13, <2>14, <2>15 DEF Next, Loops, Answers
<1>3. QED
  BY <1>1, <1>2, PTL DEF Spec

-----------------------------------------------------------------------------
(* Commands *)

(* The keys that lead to a command were typed at the menu: the way there   *)
(* empties the terminal, and the menu does not read the stream's buffer    *)
(* (console.py:704).                                                       *)
THEOREM CommandsStayFresh == Spec => []CommandsAreFresh
<1>1. Init => FreshAtPrompt
  BY DEF Init, FreshAtPrompt
<1>2. ConsoleTypeOK /\ FreshAtPrompt /\ [Next]_vars => FreshAtPrompt'
  <2> SUFFICES ASSUME ConsoleTypeOK, FreshAtPrompt, [Next]_vars PROVE FreshAtPrompt'
    OBVIOUS
  <2> USE DEF FreshAtPrompt
  <2>1. CASE Open
    BY <2>1 DEF Open, Loop
  <2>2. CASE LoopTop
    <3>1. pc' = "prompt" /\ tty' = <<>> /\ choice' = choice
      BY <2>2 DEF LoopTop
    <3>2. QED
      BY <3>1
  <2>3. CASE Poll
    BY <2>3 DEF Poll
  <2>4. CASE Redraw
    <3>1. tty \in Seq(Typed) /\ tty # <<>> /\ tty' = Tail(tty)
          /\ pc = "prompt" /\ choice' = choice
      BY <2>4 DEF Redraw, ConsoleTypeOK
    <3>2. \A i \in 1..Len(tty') : tty'[i] = tty[i + 1] /\ i + 1 \in DOMAIN tty
      BY <3>1, HeadTailProperties, LenProperties
    <3>3. DOMAIN tty' = 1..Len(tty')
      BY <3>1, TailTyped, LenProperties
    <3>4. QED
      BY <3>1, <3>2, <3>3
  <2>5. CASE ReadKey
    <3>1. tty \in Seq(Typed) /\ tty # <<>> /\ choice' = Head(tty) /\ tty' = <<>>
          /\ pc = "prompt"
      BY <2>5 DEF ReadKey, ConsoleTypeOK
    <3>2. 1 \in DOMAIN tty /\ Head(tty) = tty[1]
      BY <3>1, LenProperties, EmptySeq
    <3>3. QED
      BY <3>1, <3>2
  <2>6. CASE AnswerUnlock
    BY <2>6 DEF AnswerUnlock
  <2>7. CASE AnswerReset
    BY <2>7 DEF AnswerReset
  <2>8. CASE Dispatch
    BY <2>8 DEF Dispatch, AfterDispatch
  <2>9. CASE Switches
    BY <2>9 DEF Switches, AskAgain, SwitchNothing, Switch, SwitchCut, AfterDispatch
  <2>10. CASE Interrupt
    BY <2>10 DEF Interrupt
  <2>11. CASE Leave
    BY <2>11 DEF Leave
  <2>12. ASSUME NEW key \in Key, Type(key) PROVE FreshAtPrompt'
    <3>1. [key |-> key, fresh |-> TRUE] \in Typed
      BY DEF Typed
    <3>2. tty \in Seq(Typed) /\ tty' = Append(tty, [key |-> key, fresh |-> TRUE])
      BY <2>12 DEF Type, ConsoleTypeOK
    <3>3. /\ Len(tty) \in Nat /\ DOMAIN tty = 1..Len(tty)
          /\ DOMAIN tty' = 1..(Len(tty) + 1)
          /\ \A i \in 1..Len(tty) : tty'[i] = tty[i]
          /\ tty'[Len(tty) + 1] = [key |-> key, fresh |-> TRUE]
      BY <3>1, <3>2, AppendProperties, LenProperties
    <3>4. \A i \in DOMAIN tty' : i \in DOMAIN tty \/ i = Len(tty) + 1
      BY <3>3
    <3>5. pc' = pc /\ choice' = choice
      BY <2>12 DEF Type
    <3>6. QED
      BY <3>3, <3>4, <3>5
  <2>13. CASE Tick
    BY <2>13 DEF Tick
  <2>14. CASE OtherSaves
    BY <2>14 DEF OtherSaves
  <2>15. CASE UNCHANGED vars
    BY <2>15 DEF vars
  <2>16. QED
    BY <2>1, <2>2, <2>3, <2>4, <2>5, <2>6, <2>7, <2>8, <2>9, <2>10, <2>11, <2>12,
       <2>13, <2>14, <2>15 DEF Next, Loops, Answers
<1>3. FreshAtPrompt => CommandsAreFresh
  BY DEF FreshAtPrompt, CommandsAreFresh
<1>4. QED
  BY <1>1, <1>2, <1>3, ConsoleTypes, PTL DEF Spec

-----------------------------------------------------------------------------
(* Submits *)

(* The copy is the file's desk, unless another command saved, and a submit *)
(* that was not asked about could not have opened a level.                 *)
AskedInv == CopyIsCurrent /\ Unraised

LEMMA AskedInvHolds == Spec => []AskedInv
<1>1. Init => AskedInv
  BY DEF Init, AskedInv, CopyIsCurrent, Unraised, Commanding
<1>2. ConsoleTypeOK /\ AskedInv /\ [Next]_vars => AskedInv'
  <2> SUFFICES ASSUME ConsoleTypeOK, AskedInv, [Next]_vars PROVE AskedInv'
    OBVIOUS
  <2> USE DEF AskedInv, CopyIsCurrent, Unraised, Commanding
  <2>1. CASE Open
    BY <2>1 DEF Open, Loop
  <2>2. CASE LoopTop
    <3>1. pc' = "prompt" /\ session' = file /\ file' = file
      BY <2>2 DEF LoopTop
    <3>2. QED
      BY <3>1
  <2>3. CASE Poll
    BY <2>3 DEF Poll
  <2>4. CASE Redraw
    BY <2>4 DEF Redraw
  <2>5. CASE ReadKey
    <3>1. /\ pc = "prompt" /\ pc' = Led(choice'.key)
          /\ file' = file /\ session' = session /\ stale' = stale
      BY <2>5 DEF ReadKey
    <3>2. pc' = "go" /\ choice'.key = "2" => ~Asks(session')
      BY <3>1 DEF Led, Asks
    <3>3. QED
      BY <3>1, <3>2
  <2>6. CASE AnswerUnlock
    <3>1. /\ pc = "unlock"
          /\ pc' = "go" => answer'.key = "y"
          /\ file' = file /\ session' = session /\ stale' = stale
      BY <2>6 DEF AnswerUnlock
    <3>2. answer' \in Typed
      <4>1. Head(IF buf # <<>> THEN buf ELSE tty) \in Typed
        BY <2>6, TailTyped DEF AnswerUnlock, ConsoleTypeOK
      <4>2. QED
        BY <2>6, <4>1 DEF AnswerUnlock
    <3>3. answer' # NoKey
      BY <3>2, ConsoleAssumption DEF Typed
    <3>4. QED
      BY <2>6, <3>1, <3>3 DEF AnswerUnlock
  <2>7. CASE AnswerReset
    BY <2>7 DEF AnswerReset
  <2>8. CASE Dispatch
    BY <2>8 DEF Dispatch, AfterDispatch
  <2>9. CASE Switches
    BY <2>9 DEF Switches, AskAgain, SwitchNothing, Switch, SwitchCut, AfterDispatch
  <2>10. CASE Interrupt
    BY <2>10 DEF Interrupt
  <2>11. CASE Leave
    BY <2>11 DEF Leave
  <2>12. ASSUME NEW key \in Key, Type(key) PROVE AskedInv'
    BY <2>12 DEF Type, Asks
  <2>13. CASE Tick
    <3>1. /\ file' = Later(file) /\ session' = Later(session)
          /\ UNCHANGED <<pc, choice, answer, stale>>
      BY <2>13 DEF Tick
    <3>2. Asks(session') => Asks(session)
      <4>1. /\ session \in Desk /\ Later(session) \in Desk
            /\ Later(session).level = session.level /\ Later(session).left <= session.left
        BY DeskChanges DEF ConsoleTypeOK
      <4>2. session.left \in Nat /\ Later(session).left \in Nat
        BY <4>1, DeskFields, ConsoleAssumption
      <4>3. QED
        BY <3>1, <4>1, <4>2 DEF Asks
    <3>3. QED
      BY <3>1, <3>2
  <2>14. CASE OtherSaves
    BY <2>14 DEF OtherSaves, Asks
  <2>15. CASE UNCHANGED vars
    BY <2>15 DEF vars, Asks
  <2>16. QED
    BY <2>1, <2>2, <2>3, <2>4, <2>5, <2>6, <2>7, <2>8, <2>9, <2>10, <2>11, <2>12,
       <2>13, <2>14, <2>15 DEF Next, Loops, Answers
<1>3. QED
  BY <1>1, <1>2, ConsoleTypes, PTL DEF Spec

(* No level opens by a submit from the menu that was not confirmed, unless *)
(* another command saved after the console last looked (console.py:280).   *)
THEOREM SubmitsAreAsked == Spec => NothingUnasked
<1>1. ASSUME ConsoleTypeOK, AskedInv, [Next]_vars,
             pc = "go", ~stale, ~stale', file'.place = file.place,
             file'.level > file.level
      PROVE  answer # NoKey /\ answer.key = "y"
  <2>1. file' \in Ran
    <3>1. CASE Dispatch
      BY <3>1, <1>1 DEF Dispatch, AfterDispatch
    <3>2. CASE Interrupt
      BY <3>2, <1>1 DEF Interrupt
    <3>3. CASE Tick
      BY <3>3, <1>1, DeskChanges, DeskFields, ConsoleAssumption, SMTT(30) DEF Tick, ConsoleTypeOK
    <3>4. CASE file' = file
      BY <3>4, <1>1, DeskFields, ConsoleAssumption DEF ConsoleTypeOK
    <3>5. QED
      BY <1>1, <3>1, <3>2, <3>3, <3>4
      DEF Next, Loops, Answers, Switches, Open, LoopTop, Poll, Redraw, ReadKey, AnswerUnlock,
          AnswerReset, AskAgain, SwitchNothing, Switch, SwitchCut, Leave, Type, OtherSaves, vars
  <2>2. choice.key = "2" /\ Asks(file)
    BY <1>1, <2>1, RanIsDesk DEF ConsoleTypeOK
  <2>3. session = file
    BY <1>1 DEF AskedInv, CopyIsCurrent, Commanding
  <2>4. QED
    BY <1>1, <2>2, <2>3 DEF AskedInv, Unraised
<1>2. QED
  BY <1>1, ConsoleTypes, AskedInvHolds, PTL DEF Spec, NothingUnasked
=============================================================================
