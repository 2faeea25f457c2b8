------------------------- MODULE SessionLockProofs -------------------------
(***************************************************************************)
(* What the session lock promises for any number of commands and any       *)
(* values of its timing constants that satisfy LockAssumption.             *)
(***************************************************************************)
EXTENDS SessionLock, TLAPS

(* The lock file of a live command has not reached the age at which a      *)
(* waiter removes it, and until a command is killed the file and the place *)
(* of its maker agree, so that nobody is on the way to remove it.          *)
LiveLockIsFresh == owner \in Proc => age <= MaxHold

MakerIsInside ==
  crashes = 0 =>
    /\ owner # Dead
    /\ \A p \in Proc : Critical(p) <=> owner = p
    /\ \A p \in Proc : pc[p] # "unlink"

LockInv == LockTypeOK /\ LiveLockIsFresh /\ MakerIsInside

(* Initially there is no lock file and nobody is saving: LockInv holds. *)
LEMMA LockInvInit == LockInit => LockInv
BY LockAssumption
   DEF LockInit, LockInv, LockTypeOK, Places, Waiting, LiveLockIsFresh,
       MakerIsInside, Critical

(* No step of a command, no kill and no tick of the clock breaks LockInv. *)
LEMMA LockInvStep == LockInv /\ [LockNext]_lockVars => LockInv'
<1> SUFFICES ASSUME LockInv, [LockNext]_lockVars PROVE LockInv'
  OBVIOUS
<1> USE LockAssumption
    DEF LockInv, LockTypeOK, Places, Waiting, LiveLockIsFresh, MakerIsInside, Critical
<1>1. CASE UNCHANGED lockVars
  BY <1>1 DEF lockVars
<1>2. ASSUME NEW p \in Proc, Begin(p) PROVE LockInv'
  BY <1>2 DEF Begin, Goto
<1>3. ASSUME NEW p \in Proc, Enter(p) PROVE LockInv'
  BY <1>3 DEF Enter, Goto
<1>4. ASSUME NEW p \in Proc, Overdue(p) PROVE LockInv'
  BY <1>4 DEF Overdue, Goto
<1>5. ASSUME NEW p \in Proc, GiveUp(p) PROVE LockInv'
  BY <1>5 DEF GiveUp, Goto
<1>6. ASSUME NEW p \in Proc, FindStale(p) PROVE LockInv'
  \* A stale lock has no live maker, so some command was killed.
  <2>1. age > MaxHold /\ owner \notin Proc
    BY <1>6 DEF FindStale
  <2>2. crashes # 0
    BY <1>6, <2>1 DEF FindStale
  <2>3. QED
    BY <1>6, <2>2 DEF FindStale, Goto
<1>7. ASSUME NEW p \in Proc, Break(p) PROVE LockInv'
  <2>1. crashes # 0
    BY <1>7 DEF Break, Goto
  <2>2. QED
    BY <1>7, <2>1 DEF Break, Goto
<1>8. ASSUME NEW p \in Proc, Release(p) PROVE LockInv'
  BY <1>8 DEF Release, Goto
<1>9. ASSUME NEW p \in Proc, Crash(p) PROVE LockInv'
  BY <1>9 DEF Crash
<1>10. CASE Tick
  BY <1>10 DEF Tick
<1>11. QED
  BY <1>1, <1>2, <1>3, <1>4, <1>5, <1>6, <1>7, <1>8, <1>9, <1>10 DEF LockNext, Wait

(* LockInv is an invariant of every behaviour of the lock. *)
THEOREM LockInvariant == LockSpec => []LockInv
BY LockInvInit, LockInvStep, PTL DEF LockSpec

(* The state of the lock keeps its types (_session_lock, save_session). *)
THEOREM LockTypes == LockSpec => []LockTypeOK
<1>1. LockInv => LockTypeOK
  BY DEF LockInv
<1>2. QED
  BY <1>1, LockInvariant, PTL

(* Two saves never overlap before a command is killed, whatever the number *)
(* of commands and the delays between their system calls (session.py:474). *)
THEOREM ExclusiveBeforeCrash == LockSpec => []ExclusiveUntilCrash
<1>1. LockInv => ExclusiveUntilCrash
  BY DEF LockInv, MakerIsInside, ExclusiveUntilCrash, Critical
<1>2. QED
  BY <1>1, LockInvariant, PTL

(* Before a command is killed only the maker of a lock file removes it, on *)
(* leaving save_session: no waiter breaks a live lock (session.py:484).    *)
THEOREM MakerRemoves == LockSpec => OnlyMakerRemoves
<1> DEFINE Kept == \A p \in Proc : owner = p /\ owner' # p /\ crashes' = 0
                     => Critical(p) /\ pc'[p] = "idle"
<1>1. LockInv /\ [LockNext]_lockVars => [Kept]_lockVars
  <2> SUFFICES ASSUME LockInv, LockNext,
                      NEW p \in Proc, owner = p, owner' # p, crashes' = 0
               PROVE  Critical(p) /\ pc'[p] = "idle"
    BY DEF Kept
  <2> USE LockAssumption
      DEF LockInv, LockTypeOK, Places, Waiting, MakerIsInside, Critical
  <2>1. ~Tick
    BY DEF Tick
  <2>2. ASSUME NEW q \in Proc, Begin(q) \/ Overdue(q) \/ GiveUp(q) \/ FindStale(q)
        PROVE  FALSE
    BY <2>2 DEF Begin, Overdue, GiveUp, FindStale
  <2>3. ASSUME NEW q \in Proc, Enter(q) \/ Break(q) PROVE FALSE
    BY <2>3 DEF Enter, Break, Goto
  <2>4. ASSUME NEW q \in Proc, Crash(q) PROVE FALSE
    BY <2>4 DEF Crash
  <2>5. ASSUME NEW q \in Proc, Release(q) PROVE Critical(p) /\ pc'[p] = "idle"
    BY <2>5 DEF Release, Goto
  <2>6. QED
    BY <2>1, <2>2, <2>3, <2>4, <2>5 DEF LockNext, Wait
<1>2. QED
  BY <1>1, LockInvariant, PTL DEF LockSpec, OnlyMakerRemoves
=============================================================================
