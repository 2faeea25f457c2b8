------------------------- MODULE SessionStoreProofs ------------------------
(***************************************************************************)
(* The commands that share session.json implement Desks, for any number of *)
(* commands, problems and desks, as long as no command is killed; or, when *)
(* there is only one command at a time, even when commands are killed.     *)
(***************************************************************************)
EXTENDS SessionStore, SessionLockProofs

Calm == MaxCrashes = 0 \/ \A p, q \in Proc : p = q

(* A command that is saving has a session; its place in save_session and   *)
(* its place in the lock agree.                                            *)
PlacesAgree ==
  \A p \in Proc : /\ pc[p] # "idle" => mem[p] # NoSession
                  /\ pc[p] = "critical" <=> phase[p] # "none"

(* What a command has in memory of other problems is on disk as well ...   *)
MemoryKnown ==
  \A p \in Proc, q \in Problem :
    mem[p] # NoSession /\ mem[p].desks[q] # NoDesk /\ q # mem[p].problem
      => KeptDesks[q] # NoDesk

(* ... and as long as nobody has replaced a missing or unreadable file it  *)
(* is what the file still holds of them.                                   *)
MemorySalvaged ==
  ~Good(file) =>
    \A p \in Proc, q \in Problem :
      mem[p] # NoSession /\ q # mem[p].problem => mem[p].desks[q] = KeptDesks[q]

(* A command about to replace the file has merged what the file now holds. *)
MergeIsFresh ==
  \A p \in Proc :
    phase[p] = "replace"
      => mem[p].desks = [KeptDesks EXCEPT ![mem[p].problem] = mem[p].top]

StoreInv ==
  /\ StoreTypeOK
  /\ PlacesAgree
  /\ MemoryKnown
  /\ MemorySalvaged
  /\ MergeIsFresh

-----------------------------------------------------------------------------
(* The operators on files *)

(* A file holds one desk or none for each problem, however it is read. *)
LEMMA FileTypes ==
  ASSUME NEW f \in SessionFile \cup {NoSession}
  PROVE  /\ ReadableDesks(f) \in Shelf
         /\ \A q \in Problem : OtherDesks(f, q) \in Shelf /\ DesksForStart(f, q) \in Shelf
BY StoreAssumption
   DEF SessionFile, Shelf, Empty, ReadableDesks, LoadedDesks, SalvagedDesks, Good,
       OtherDesks, DesksForStart

(* The file of a first command is one a save left, spoiled or not. *)
LEMMA FirstFile == Files \subseteq SessionFile \cup {NoSession}
BY StoreAssumption DEF SavedFile

(* Leaving "desks" out of a file that has a single desk loses nothing: the *)
(* file reads back as what was written (_save_session_locked, load).       *)
LEMMA WrittenReadsBack ==
  ASSUME NEW q \in Problem, NEW d \in Desk, NEW desks \in Shelf
  PROVE  /\ Written(q, d, desks) \in SessionFile
         /\ Good(Written(q, d, desks))
         /\ ReadableDesks(Written(q, d, desks)) = [desks EXCEPT ![q] = d]
<1> DEFINE W == Written(q, d, desks)
<1>1. /\ W \in SessionFile /\ W.status = "good" /\ W.problem = q /\ W.top = d
      /\ W.parked = IF \E r \in Problem \ {q} : desks[r] # NoDesk THEN desks ELSE Empty
  BY DEF Written, SessionFile, Shelf, Empty
<1>2. Good(W)
  BY <1>1, StoreAssumption DEF Good
<1>3. [W.parked EXCEPT ![q] = d] = [desks EXCEPT ![q] = d]
  BY <1>1 DEF Shelf, Empty
<1>4. QED
  BY <1>1, <1>2, <1>3 DEF ReadableDesks, LoadedDesks

(* The merge of a save is made of desks. *)
LEMMA MergeTypes ==
  ASSUME NEW s \in Session, NEW f \in SessionFile \cup {NoSession}
  PROVE  DesksForSave(s, f) \in Shelf
<1>1. /\ s.desks \in Shelf /\ s.problem \in Problem /\ s.top \in Desk
      /\ Good(f) => LoadedDesks(f) \in Shelf
  BY StoreAssumption DEF Session, SessionFile, LoadedDesks, Good, Shelf
<1>2. QED
  BY <1>1 DEF DesksForSave, Shelf

(* _desks_for_save returns the file's desks with the command's own put in, *)
(* provided the command knows of no other problem than the file does.      *)
LEMMA MergeIsPut ==
  ASSUME NEW s \in Session, NEW f \in SessionFile \cup {NoSession},
         \A q \in Problem : s.desks[q] # NoDesk /\ q # s.problem
                              => ReadableDesks(f)[q] # NoDesk,
         ~Good(f) => \A q \in Problem : q # s.problem => s.desks[q] = ReadableDesks(f)[q]
  PROVE  DesksForSave(s, f) = [ReadableDesks(f) EXCEPT ![s.problem] = s.top]
<1>1. s.desks \in Shelf /\ s.problem \in Problem /\ ReadableDesks(f) \in Shelf
  BY FileTypes DEF Session
<1>2. CASE Good(f)
  <2>1. ReadableDesks(f) = LoadedDesks(f)
    BY <1>2 DEF ReadableDesks
  <2>2. QED
    BY <1>1, <1>2, <2>1 DEF DesksForSave, Shelf
<1>3. CASE ~Good(f)
  BY <1>1, <1>3 DEF DesksForSave, Shelf
<1>4. QED
  BY <1>2, <1>3

-----------------------------------------------------------------------------
(* The steps of the commands *)

(* What a command does to the lock it does by the steps of SessionLock. *)
LEMMA StoreStepIsLockStep == [Next]_vars => [LockNext]_lockVars
BY DEF Next, vars, Command, Load, Exit, Update, StartOther, Reset, Lock, ReadFresh,
       Replace, Unlock, WaitForLock, Die, LockNext, Wait

(* Of several commands at most one is in save_session, if none is killed. *)
LEMMA CalmIsExclusive ==
  ASSUME Calm, LockInv
  PROVE  \A p, q \in Proc : pc[p] = "critical" /\ pc[q] = "critical" => p = q
BY LockAssumption
   DEF Calm, LockInv, LockTypeOK, MakerIsInside, Critical

(* Initially no command has a session: StoreInv holds. *)
LEMMA StoreInvInit == Init => StoreInv
BY FirstFile
   DEF Init, LockInit, StoreInv, StoreTypeOK, PlacesAgree, MemoryKnown, MemorySalvaged,
       MergeIsFresh

(* Taking a session from the file, when the command is not saving.  The    *)
(* session's desks of other problems are the file's.                       *)
LEMMA SessionFromFile ==
  ASSUME StoreInv, NEW p \in Proc, NEW s \in Session,
         pc[p] = "idle", pc' \in [Proc -> Places],
         \A q \in Proc \ {p} : pc'[q] = pc[q],
         pc'[p] \in {"idle", "open"},
         \A q \in Problem : q # s.problem => s.desks[q] \in {NoDesk, KeptDesks[q]},
         ~Good(file) => \A q \in Problem : q # s.problem => s.desks[q] = KeptDesks[q],
         mem' = [mem EXCEPT ![p] = s], UNCHANGED <<file, phase>>
  PROVE  StoreInv'
<1> USE DEF StoreInv
<1>1. phase[p] = "none" /\ s # NoSession
  BY StoreAssumption DEF PlacesAgree
<1>2. StoreTypeOK'
  BY DEF StoreTypeOK
<1>3. /\ mem'[p] = s
      /\ \A q \in Proc \ {p} : mem'[q] = mem[q]
      /\ KeptDesks' = KeptDesks /\ Good(file)' = Good(file)
  BY DEF StoreTypeOK, KeptDesks, Good
<1>4. PlacesAgree'
  BY <1>1, <1>3 DEF PlacesAgree
<1>5. MemoryKnown' /\ MemorySalvaged'
  BY <1>3 DEF MemoryKnown, MemorySalvaged
<1>6. MergeIsFresh'
  BY <1>1, <1>3 DEF MergeIsFresh
<1>7. QED
  BY <1>2, <1>4, <1>5, <1>6

(* A step that touches neither the sessions nor the file, and moves no     *)
(* command into or out of save_session, keeps StoreInv.                    *)
LEMMA WaitingKeeps ==
  ASSUME StoreInv, UNCHANGED storeVars,
         \A p \in Proc : /\ pc'[p] = "critical" <=> pc[p] = "critical"
                         /\ pc'[p] # "idle" => pc[p] # "idle"
  PROVE  StoreInv'
BY DEF StoreInv, storeVars, StoreTypeOK, PlacesAgree, MemoryKnown, MemorySalvaged,
       MergeIsFresh, KeptDesks, Good

(* A step that leaves the file alone and brings no command a desk of       *)
(* another problem, unless it is the file's, keeps what is known of the    *)
(* sessions.                                                               *)
LEMMA SessionsKeep ==
  ASSUME StoreInv, KeptDesks' = KeptDesks, Good(file)' = Good(file),
         \A p \in Proc : mem'[p] # NoSession =>
           /\ mem[p] # NoSession
           /\ mem'[p].problem = mem[p].problem
           /\ \A r \in Problem : r # mem[p].problem =>
                mem'[p].desks[r] = mem[p].desks[r] \/ mem'[p].desks[r] = KeptDesks[r]
  PROVE  MemoryKnown' /\ MemorySalvaged'
<1>1. MemoryKnown'
  <2> SUFFICES ASSUME NEW p \in Proc, NEW r \in Problem,
                      mem'[p] # NoSession, mem'[p].desks[r] # NoDesk, r # mem'[p].problem
               PROVE  KeptDesks'[r] # NoDesk
    BY DEF MemoryKnown
  <2> QED
    BY DEF StoreInv, MemoryKnown
<1>2. MemorySalvaged'
  <2> SUFFICES ASSUME ~Good(file), NEW p \in Proc, NEW r \in Problem,
                      mem'[p] # NoSession, r # mem'[p].problem
               PROVE  mem'[p].desks[r] = KeptDesks'[r]
    BY DEF MemorySalvaged
  <2> QED
    BY DEF StoreInv, MemorySalvaged
<1>3. QED
  BY <1>1, <1>2

(* Every step of every command keeps StoreInv. *)
LEMMA StoreInvStep ==
  ASSUME Calm, LockInv, StoreInv, [Next]_vars
  PROVE  StoreInv'
<1> USE DEF StoreInv
<1>1. CASE UNCHANGED vars
  BY <1>1, WaitingKeeps DEF vars, lockVars
<1>2. CASE Tick /\ UNCHANGED storeVars
  BY <1>2, WaitingKeeps DEF Tick
<1> SUFFICES ASSUME NEW p \in Proc, Command(p) PROVE StoreInv'
  BY <1>1, <1>2 DEF Next
<1>t. /\ pc \in [Proc -> Places] /\ file \in SessionFile \cup {NoSession}
      /\ mem \in [Proc -> Session \cup {NoSession}] /\ NoSession \notin Session
      /\ phase \in [Proc -> {"none", "read", "replace", "done"}]
      /\ KeptDesks \in Shelf
  BY StoreAssumption, FileTypes DEF LockInv, LockTypeOK, StoreTypeOK, KeptDesks
<1>e. /\ UNCHANGED lockVars \/ Begin(p) => pc' \in [Proc -> Places]
      /\ Begin(p) => /\ pc[p] = "idle" /\ pc'[p] = "open"
                     /\ \A q \in Proc \ {p} : pc'[q] = pc[q]
  BY <1>t DEF lockVars, Begin, Goto, Places, Waiting
<1>3. CASE Load(p)
  <2> DEFINE s == [problem |-> file.problem, top |-> file.top, desks |-> LoadedDesks(file)]
  <2>1. KeptDesks = LoadedDesks(file) /\ Good(file) /\ file \in SessionFile
    BY <1>3, <1>t DEF Load, KeptDesks, ReadableDesks, Good
  <2>2. s \in Session
    BY <1>t, <2>1 DEF Session, SessionFile
  <2>3. QED
    BY <1>3, <1>t, <1>e, <2>1, <2>2, SessionFromFile DEF Load, lockVars
<1>4. CASE Exit(p)
  BY <1>4, <1>t
     DEF Exit, lockVars, StoreTypeOK, PlacesAgree, MemoryKnown, MemorySalvaged,
         MergeIsFresh, KeptDesks, Good
<1>5. ASSUME NEW d \in Desk, Update(p, d) PROVE StoreInv'
  <2> DEFINE s == [mem[p] EXCEPT !.top = d]
  <2>1. mem[p] \in Session /\ s \in Session
        /\ s.problem = mem[p].problem /\ s.desks = mem[p].desks
    BY <1>5, <1>t DEF Update, Session
  <2>2. mem' = [mem EXCEPT ![p] = s]
    BY <1>5, <1>t DEF Update
  <2>3. mem[p] # NoSession
    BY <1>5 DEF Update
  <2>4. phase[p] = "none"
    BY <1>5, <1>e, <1>t DEF Update, PlacesAgree
  <2>5. /\ mem'[p] = s /\ \A q \in Proc \ {p} : mem'[q] = mem[q]
        /\ KeptDesks' = KeptDesks /\ Good(file)' = Good(file)
        /\ UNCHANGED <<file, phase>>
    BY <1>5, <1>t, <2>2 DEF Update, KeptDesks, Good
  <2>6. StoreTypeOK'
    BY <1>t, <2>1, <2>2, <2>5 DEF StoreTypeOK
  <2>7. PlacesAgree'
    BY <1>5, <1>e, <1>t, <2>1, <2>4, <2>5 DEF PlacesAgree, Update
  <2>8. MemoryKnown' /\ MemorySalvaged'
    BY <2>1, <2>3, <2>5, SessionsKeep
  <2>9. MergeIsFresh'
    BY <2>4, <2>5 DEF MergeIsFresh
  <2>10. QED
    BY <2>6, <2>7, <2>8, <2>9
<1>6. ASSUME NEW q \in Problem, NEW d \in Desk, StartOther(p, q, d) PROVE StoreInv'
  <2> DEFINE s == [problem |-> q, top |-> d, desks |-> DesksForStart(file, q)]
  <2>1. s \in Session
    BY <1>t, FileTypes DEF Session
  <2>2. \A r \in Problem : r # q => s.desks[r] = KeptDesks[r]
    BY <1>t, FileTypes DEF DesksForStart, OtherDesks, KeptDesks, Shelf
  <2>3. QED
    BY <1>6, <1>e, <2>1, <2>2, SessionFromFile DEF StartOther
<1>7. ASSUME NEW q \in Problem, NEW d \in Desk, Reset(p, q, d) PROVE StoreInv'
  <2> DEFINE s == [problem |-> q, top |-> d, desks |-> OtherDesks(file, q)]
  <2>1. s \in Session
    BY <1>t, FileTypes DEF Session
  <2>2. \A r \in Problem : r # q => s.desks[r] = KeptDesks[r]
    BY <1>t, FileTypes DEF OtherDesks, KeptDesks, Shelf
  <2>3. QED
    BY <1>7, <1>e, <2>1, <2>2, SessionFromFile DEF Reset
<1>8. CASE Lock(p)
  <2>1. /\ pc[p] = "open" /\ pc'[p] = "critical"
        /\ \A q \in Proc \ {p} : pc'[q] = pc[q] /\ phase'[q] = phase[q]
        /\ phase'[p] = "read" /\ UNCHANGED <<file, mem>>
        /\ KeptDesks' = KeptDesks /\ Good(file)' = Good(file)
    BY <1>8, <1>t DEF Lock, Enter, Goto, KeptDesks, Good
  <2>2. StoreTypeOK'
    BY <1>8, <1>t DEF Lock, StoreTypeOK
  <2>3. PlacesAgree'
    BY <2>1, <1>t DEF PlacesAgree
  <2>4. MemoryKnown' /\ MemorySalvaged'
    BY <2>1, SessionsKeep
  <2>5. MergeIsFresh'
    BY <2>1 DEF MergeIsFresh
  <2>6. QED
    BY <2>2, <2>3, <2>4, <2>5
<1>9. CASE ReadFresh(p)
  <2> DEFINE s == mem[p]
             merge == DesksForSave(s, file)
  <2>1. s \in Session /\ s # NoSession
    BY <1>9, <1>t DEF ReadFresh, PlacesAgree
  <2>2. merge = [KeptDesks EXCEPT ![s.problem] = s.top]
    <3>1. \A q \in Problem : s.desks[q] # NoDesk /\ q # s.problem
                                => ReadableDesks(file)[q] # NoDesk
      BY <2>1 DEF MemoryKnown, KeptDesks
    <3>2. ~Good(file) => \A q \in Problem : q # s.problem
                                => s.desks[q] = ReadableDesks(file)[q]
      BY <2>1 DEF MemorySalvaged, KeptDesks
    <3>3. QED
      BY <1>t, <2>1, <3>1, <3>2, MergeIsPut DEF KeptDesks
  <2>3. merge \in Shelf
    BY <1>t, <2>1, MergeTypes
  <2>4. /\ mem'[p] = [s EXCEPT !.desks = merge]
        /\ \A q \in Proc \ {p} : mem'[q] = mem[q]
        /\ \A q \in Proc \ {p} : phase'[q] = phase[q]
        /\ UNCHANGED <<lockVars, file>> /\ phase'[p] = "replace"
        /\ KeptDesks' = KeptDesks /\ Good(file)' = Good(file)
        /\ phase[p] = "read" /\ pc[p] = "critical"
    BY <1>9, <1>t DEF ReadFresh, KeptDesks, Good
  <2>5. /\ mem'[p] \in Session /\ mem'[p].problem = s.problem /\ mem'[p].top = s.top
        /\ mem'[p].desks = merge
    BY <2>1, <2>3, <2>4 DEF Session
  <2>6. StoreTypeOK'
    BY <1>9, <1>t, <2>1, <2>3 DEF ReadFresh, StoreTypeOK, Session
  <2>7. PlacesAgree'
    BY <1>t, <2>4, <2>5 DEF PlacesAgree, lockVars
  <2>8. MemoryKnown' /\ MemorySalvaged'
    <3>1. \A r \in Problem : r # s.problem => mem'[p].desks[r] = KeptDesks[r]
      BY <1>t, <2>2, <2>5 DEF Shelf
    <3>2. QED
      BY <2>1, <2>4, <2>5, <3>1, SessionsKeep
  <2>9. MergeIsFresh'
    <3> SUFFICES ASSUME NEW q \in Proc, phase'[q] = "replace"
                 PROVE  mem'[q].desks = [KeptDesks' EXCEPT ![mem'[q].problem] = mem'[q].top]
      BY DEF MergeIsFresh
    <3>1. CASE q = p
      BY <2>2, <2>4, <2>5, <3>1
    <3>2. CASE q # p
      BY <2>4, <3>2 DEF MergeIsFresh
    <3>3. QED
      BY <3>1, <3>2
  <2>10. QED
    BY <2>6, <2>7, <2>8, <2>9
<1>10. CASE Replace(p)
  <2> DEFINE s == mem[p]
  <2>1. s \in Session /\ s # NoSession
    BY <1>10, <1>t DEF Replace, PlacesAgree
  <2>2. /\ s.problem \in Problem /\ s.top \in Desk /\ s.desks \in Shelf
        /\ s.desks = [KeptDesks EXCEPT ![s.problem] = s.top]
    BY <1>10, <2>1 DEF Replace, MergeIsFresh, Session
  <2>3. file' = Written(s.problem, s.top, s.desks)
    BY <1>10 DEF Replace
  <2>4. /\ file' \in SessionFile /\ Good(file')
        /\ ReadableDesks(file') = [s.desks EXCEPT ![s.problem] = s.top]
    BY <2>2, <2>3, WrittenReadsBack
  <2>5. KeptDesks' = [KeptDesks EXCEPT ![s.problem] = s.top]
    <3>1. KeptDesks' = [s.desks EXCEPT ![s.problem] = s.top]
      BY <2>4 DEF KeptDesks
    <3>2. QED
      BY <1>t, <2>2, <3>1 DEF Shelf
  <2>6. /\ UNCHANGED <<lockVars, mem>> /\ phase'[p] = "done"
        /\ \A q \in Proc \ {p} : phase'[q] = phase[q]
        /\ pc[p] = "critical" /\ phase[p] = "replace"
    BY <1>10, <1>t DEF Replace
  <2>7. StoreTypeOK'
    BY <1>10, <1>t, <2>4 DEF Replace, StoreTypeOK
  <2>8. PlacesAgree'
    BY <1>t, <2>6 DEF PlacesAgree, lockVars
  <2>9. MemoryKnown'
    BY <1>t, <2>2, <2>5, <2>6, StoreAssumption DEF MemoryKnown, Shelf
  <2>10. MemorySalvaged'
    BY <2>4 DEF MemorySalvaged, Good
  <2>11. MergeIsFresh'
    <3>1. \A q \in Proc \ {p} : phase'[q] = "none"
      BY <2>6, CalmIsExclusive DEF PlacesAgree
    <3>2. QED
      BY <2>6, <3>1 DEF MergeIsFresh
  <2>12. QED
    BY <2>7, <2>8, <2>9, <2>10, <2>11
<1>11. CASE Unlock(p)
  <2>1. /\ pc[p] = "critical" /\ pc'[p] = "idle"
        /\ \A q \in Proc \ {p} : pc'[q] = pc[q] /\ phase'[q] = phase[q]
        /\ phase'[p] = "none" /\ UNCHANGED <<file, mem>>
        /\ KeptDesks' = KeptDesks /\ Good(file)' = Good(file)
    BY <1>11, <1>t DEF Unlock, Release, Goto, KeptDesks, Good
  <2>2. StoreTypeOK'
    BY <1>11, <1>t DEF Unlock, StoreTypeOK
  <2>3. PlacesAgree'
    BY <2>1, <1>t DEF PlacesAgree
  <2>4. MemoryKnown' /\ MemorySalvaged'
    BY <2>1, SessionsKeep
  <2>5. MergeIsFresh'
    BY <2>1 DEF MergeIsFresh
  <2>6. QED
    BY <2>2, <2>3, <2>4, <2>5
<1>12. CASE WaitForLock(p)
  <2>1. UNCHANGED storeVars
    BY <1>12 DEF WaitForLock
  <2>2. \A q \in Proc : /\ pc'[q] = "critical" <=> pc[q] = "critical"
                        /\ pc'[q] # "idle" => pc[q] # "idle"
    BY <1>12, <1>t DEF WaitForLock, Overdue, GiveUp, FindStale, Break, Goto
  <2>3. QED
    BY <2>1, <2>2, WaitingKeeps
<1>13. CASE Die(p)
  <2>1. /\ pc'[p] = "idle" /\ phase'[p] = "none" /\ mem'[p] = NoSession
        /\ \A q \in Proc \ {p} : pc'[q] = pc[q] /\ phase'[q] = phase[q] /\ mem'[q] = mem[q]
        /\ KeptDesks' = KeptDesks /\ Good(file)' = Good(file)
    BY <1>13, <1>t DEF Die, Crash, KeptDesks, Good
  <2>2. StoreTypeOK'
    BY <1>13, <1>t DEF Die, StoreTypeOK
  <2>3. PlacesAgree'
    BY <2>1, <1>t DEF PlacesAgree
  <2>4. MemoryKnown' /\ MemorySalvaged'
    BY <2>1, SessionsKeep
  <2>5. MergeIsFresh'
    BY <2>1 DEF MergeIsFresh
  <2>6. QED
    BY <2>2, <2>3, <2>4, <2>5
<1>14. QED
  BY <1>3, <1>4, <1>5, <1>6, <1>7, <1>8, <1>9, <1>10, <1>11, <1>12, <1>13 DEF Command

-----------------------------------------------------------------------------
(* The theorems *)

(* LockInv and StoreInv hold in every state that the commands reach. *)
THEOREM StoreInvariant ==
  ASSUME Calm
  PROVE  Spec => [](LockInv /\ StoreInv)
<1>1. Init => LockInv /\ StoreInv
  BY LockInvInit, StoreInvInit DEF Init
<1>2. LockInv /\ StoreInv /\ [Next]_vars => (LockInv /\ StoreInv)'
  BY LockInvStep, StoreStepIsLockStep, StoreInvStep
<1>3. QED
  BY <1>1, <1>2, PTL DEF Spec

(* The file and the sessions keep their types (load_session, save_session). *)
THEOREM StoreTypes ==
  ASSUME Calm
  PROVE  Spec => []StoreTypeOK
<1>1. StoreInv => StoreTypeOK
  BY DEF StoreInv
<1>2. QED
  BY <1>1, StoreInvariant, PTL

(* A merge never brings a desk back that the file has lost: no command has *)
(* another problem in memory than the file has (_desks_for_save).          *)
THEOREM MemoryStaysOnDisk ==
  ASSUME Calm
  PROVE  Spec => []MemoryIsOnDisk
<1>1. StoreInv => MemoryIsOnDisk
  BY DEF StoreInv, MemoryKnown, MemoryIsOnDisk
<1>2. QED
  BY <1>1, StoreInvariant, PTL

(* The first file is a store of desks. *)
LEMMA PromisedInit == Init => Promise!DesksInit
BY FirstFile, FileTypes
   DEF Init, Promise!DesksInit, Promise!DesksTypeOK, KeptDesks, Good, SessionFile, Shelf

(* Replacing the file puts one desk; every other step leaves the desks as  *)
(* they are.                                                               *)
LEMMA PromisedStep ==
  ASSUME LockInv, StoreInv, [Next]_vars
  PROVE  [\E q \in Problem, d \in Desk : Promise!Put(q, d)]_Promise!deskVars
<1>1. CASE UNCHANGED file
  BY <1>1 DEF Promise!deskVars, KeptDesks, Good
<1>2. CASE file' # file
  <2>1. PICK p \in Proc : Replace(p)
    BY <1>2 DEF Next, vars, storeVars, Command, Load, Exit, Update, StartOther, Reset,
                Lock, ReadFresh, Unlock, WaitForLock, Die
  <2> DEFINE s == mem[p]
  <2>2. s \in Session /\ KeptDesks \in Shelf
    BY <2>1, FileTypes
       DEF Replace, StoreInv, StoreTypeOK, PlacesAgree, KeptDesks
  <2>3. /\ s.problem \in Problem /\ s.top \in Desk /\ s.desks \in Shelf
        /\ s.desks = [KeptDesks EXCEPT ![s.problem] = s.top]
    BY <2>1, <2>2 DEF Replace, StoreInv, MergeIsFresh, Session
  <2>4. /\ Good(file') /\ file'.problem = s.problem
        /\ KeptDesks' = [s.desks EXCEPT ![s.problem] = s.top]
    <3>1. file' = Written(s.problem, s.top, s.desks)
      BY <2>1 DEF Replace
    <3>2. file'.problem = s.problem
      BY <3>1 DEF Written
    <3>3. Good(file') /\ ReadableDesks(file') = [s.desks EXCEPT ![s.problem] = s.top]
      BY <2>3, <3>1, WrittenReadsBack
    <3>4. QED
      BY <3>2, <3>3 DEF KeptDesks
  <2>5. KeptDesks' = [KeptDesks EXCEPT ![s.problem] = s.top]
    BY <2>2, <2>3, <2>4 DEF Shelf
  <2>6. Promise!Put(s.problem, s.top)
    BY <2>4, <2>5 DEF Promise!Put, Good
  <2>7. QED
    BY <2>3, <2>6
<1>3. QED
  BY <1>1, <1>2

(* The commands implement a store in which every save is one atomic Put of *)
(* one desk: none of them can drop or revert another's (session.py:474).   *)
THEOREM StoreImplementsDesks ==
  ASSUME Calm
  PROVE  Spec => Promised
<1>1. LockInv /\ StoreInv /\ [Next]_vars
        => [\E q \in Problem, d \in Desk : Promise!Put(q, d)]_Promise!deskVars
  BY PromisedStep
<1>2. QED
  BY <1>1, PromisedInit, StoreInvariant, PTL DEF Spec, Promised, Promise!DesksSpec

(* Of several saves none drops the desk of a problem (session.py:474). *)
THEOREM NoDeskIsDropped ==
  ASSUME Calm
  PROVE  Spec => NoDeskDropped
<1> DEFINE Keep == \A q \in Problem : KeptDesks[q] # NoDesk => KeptDesks'[q] # NoDesk
<1>1. ASSUME LockInv, StoreInv, [Next]_vars
      PROVE  [Keep]_vars
  <2>1. KeptDesks \in Shelf
    BY <1>1, FileTypes DEF StoreInv, StoreTypeOK, KeptDesks
  <2>2. CASE \E q \in Problem, d \in Desk : Promise!Put(q, d)
    BY <2>1, <2>2, StoreAssumption DEF Promise!Put, Shelf
  <2>3. CASE UNCHANGED Promise!deskVars
    BY <2>3 DEF Promise!deskVars
  <2>4. QED
    BY <1>1, <2>2, <2>3, PromisedStep
<1>2. LockInv /\ StoreInv /\ [Next]_vars => [Keep]_vars
  BY <1>1
<1>3. QED
  BY <1>2, StoreInvariant, PTL DEF Spec, NoDeskDropped
=============================================================================
