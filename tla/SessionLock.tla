---------------------------- MODULE SessionLock ----------------------------
(***************************************************************************)
(* The lock file that every save of session.json takes (session.py,        *)
(* _session_lock and the `finally` of save_session).  The file is empty    *)
(* and says nothing of its maker: `owner` is what an observer knows of it, *)
(* and no guard of a command's own steps reads more of it than whether the *)
(* file is there and how old it is.                                        *)
(*                                                                         *)
(* Time is counted in ticks.  `age` is the age of the lock file, which the *)
(* code takes from its mtime, and `waited` how long a command has been     *)
(* retrying, which it takes from the monotonic clock.  Both saturate one   *)
(* past the largest value the code compares them with.                     *)
(***************************************************************************)
EXTENDS Naturals

CONSTANTS
  Proc,         \* the commands (processes) that save the session
  NoLock,       \* owner when there is no lock file
  Dead,         \* owner of a lock file whose maker was killed
  Deadline,     \* how long a command retries (2.0 s in the code)
  StaleAfter,   \* the age past which a lock file is removed (5 s)
  MaxHold,      \* how long a live command takes to read, merge and replace
  MaxCrashes    \* bound: how many commands are killed in one behaviour

(***************************************************************************)
(* A live holder is done before its lock looks stale.  The code gives no   *)
(* such guarantee, it relies on it: a save reads and writes one small      *)
(* local file, and 5 s is far more than that takes.                        *)
(***************************************************************************)
ASSUME LockAssumption ==
  /\ NoLock \notin Proc /\ Dead \notin Proc /\ NoLock # Dead
  /\ Deadline \in Nat /\ StaleAfter \in Nat /\ MaxHold \in Nat /\ MaxCrashes \in Nat
  /\ MaxHold <= StaleAfter

VARIABLES
  owner,     \* who made the lock file
  age,       \* how old the lock file is
  pc,        \* where each command is in _session_lock
  waited,    \* how long each command has been retrying
  crashes    \* how many commands were killed so far

lockVars == <<owner, age, pc, waited, crashes>>

-----------------------------------------------------------------------------
(* Types *)

Waiting == {"open", "stat", "unlink"}
Places  == {"idle", "critical"} \cup Waiting

LockTypeOK ==
  /\ owner \in Proc \cup {NoLock, Dead}
  /\ age \in 0..(StaleAfter + 1)
  /\ pc \in [Proc -> Places]
  /\ waited \in [Proc -> 0..Deadline]
  /\ crashes \in 0..MaxCrashes

LockInit ==
  /\ owner = NoLock
  /\ age = 0
  /\ pc = [p \in Proc |-> "idle"]
  /\ waited = [p \in Proc |-> 0]
  /\ crashes = 0

-----------------------------------------------------------------------------
(* The steps of a command *)

Goto(p, from, to) ==
  /\ pc[p] = from
  /\ pc' = [pc EXCEPT ![p] = to]

(* A save starts, and its deadline with it. *)
Begin(p) ==
  /\ Goto(p, "idle", "open")
  /\ waited' = [waited EXCEPT ![p] = 0]
  /\ UNCHANGED <<owner, age, crashes>>

(* Mistake: os.open without O_EXCL. *)
EnterAnyway(p) ==
  /\ Goto(p, "open", "critical")
  /\ owner' = p
  /\ age' = 0
  /\ waited' = [waited EXCEPT ![p] = 0]
  /\ UNCHANGED crashes

(* os.open with O_CREAT | O_EXCL: succeeds only if there is no file. *)
Enter(p) ==
  /\ Goto(p, "open", "critical")
  /\ owner = NoLock
  /\ owner' = p
  /\ age' = 0
  /\ waited' = [waited EXCEPT ![p] = 0]
  /\ UNCHANGED crashes

(* The file exists and the deadline has passed.  Before the deadline the   *)
(* command sleeps 0.02 s and is where it was.                              *)
Overdue(p) ==
  /\ Goto(p, "open", "stat")
  /\ owner # NoLock
  /\ waited[p] >= Deadline
  /\ UNCHANGED <<owner, age, waited, crashes>>

(* Mistake: the timeout does not look at the lock file. *)
GiveUpAtDeadline(p) ==
  /\ Goto(p, "stat", "idle")
  /\ waited' = [waited EXCEPT ![p] = 0]
  /\ UNCHANGED <<owner, age, crashes>>

(* TimeoutError: the file is not stale, or was gone when stat looked. *)
GiveUp(p) ==
  /\ \/ Goto(p, "stat", "idle") /\ (owner = NoLock \/ age <= StaleAfter)
     \/ Goto(p, "unlink", "idle") /\ owner = NoLock
  /\ waited' = [waited EXCEPT ![p] = 0]
  /\ UNCHANGED <<owner, age, crashes>>

(* Mistake: a lock file that is there at the deadline counts as stale. *)
FindAnyLock(p) ==
  /\ Goto(p, "stat", "unlink")
  /\ owner # NoLock
  /\ UNCHANGED <<owner, age, waited, crashes>>

(* stat found a stale file.  The unlink is a later system call. *)
FindStale(p) ==
  /\ Goto(p, "stat", "unlink")
  /\ owner # NoLock
  /\ age > StaleAfter
  /\ UNCHANGED <<owner, age, waited, crashes>>

(* The unlink takes whatever file is there by now, then os.open again. *)
Break(p) ==
  /\ Goto(p, "unlink", "open")
  /\ owner # NoLock
  /\ owner' = NoLock
  /\ age' = 0
  /\ UNCHANGED <<waited, crashes>>

(* The `finally` of save_session: the unlink takes whatever file is there. *)
Release(p) ==
  /\ Goto(p, "critical", "idle")
  /\ owner' = NoLock
  /\ age' = 0
  /\ UNCHANGED <<waited, crashes>>

-----------------------------------------------------------------------------
(* What happens around the commands *)

(* SIGKILL or power loss: no `finally`, the lock file stays.  The name p   *)
(* then stands for the next command the user types.                        *)
Crash(p) ==
  /\ pc[p] # "idle"
  /\ crashes < MaxCrashes
  /\ crashes' = crashes + 1
  /\ pc' = [pc EXCEPT ![p] = "idle"]
  /\ waited' = [waited EXCEPT ![p] = 0]
  /\ owner' = IF owner = p THEN Dead ELSE owner
  /\ UNCHANGED age

(* Mistake: the deadline is set again on every turn of the loop. *)
TickNoDeadline ==
  /\ owner \in Proc => age < MaxHold
  /\ age' = IF owner = NoLock \/ age > StaleAfter THEN age ELSE age + 1
  /\ UNCHANGED <<owner, pc, waited, crashes>>

(* Mistake: a command that found the file at its deadline keeps waiting. *)
TickPastDeadline ==
  /\ owner \in Proc => age < MaxHold
  /\ age' = IF owner = NoLock \/ age > StaleAfter THEN age ELSE age + 1
  /\ waited' = [p \in Proc |-> IF pc[p] \in Waiting THEN waited[p] + 1 ELSE waited[p]]
  /\ UNCHANGED <<owner, pc, crashes>>

(* One unit of time, for which a live holder waits no longer than MaxHold. *)
Tick ==
  /\ owner \in Proc => age < MaxHold
  /\ age' = IF owner = NoLock \/ age > StaleAfter THEN age ELSE age + 1
  /\ waited' = [p \in Proc |->
                  IF pc[p] \in Waiting /\ waited[p] < Deadline
                  THEN waited[p] + 1 ELSE waited[p]]
  /\ UNCHANGED <<owner, pc, crashes>>

Wait(p) == Enter(p) \/ Overdue(p) \/ GiveUp(p) \/ FindStale(p) \/ Break(p)

LockNext ==
  \/ \E p \in Proc : Begin(p) \/ Wait(p) \/ Release(p) \/ Crash(p)
  \/ Tick

LockSpec == LockInit /\ [][LockNext]_lockVars

(***************************************************************************)
(* A started command runs on, and so does the clock.  Whether the user     *)
(* starts another command is the user's choice: Begin and Crash are not    *)
(* fair.                                                                   *)
(***************************************************************************)
LockFairness ==
  /\ \A p \in Proc : WF_lockVars(Wait(p)) /\ WF_lockVars(Release(p))
  /\ WF_lockVars(Tick)

FairLockSpec == LockSpec /\ LockFairness

-----------------------------------------------------------------------------
(* Properties *)

Critical(p) == pc[p] = "critical"

(* session.py:474: two saves never overlap -- as long as no command was    *)
(* killed.  Whatever the delays between a failed open, the stat and the    *)
(* unlink, a live command's lock is never taken for a stale one.           *)
ExclusiveUntilCrash ==
  crashes = 0 => \A p, q \in Proc : Critical(p) /\ Critical(q) => p = q

(* Until a command is killed, the file that a live command made is removed *)
(* by that command's own release and by nothing else, neither the break of *)
(* a waiter nor another command's `finally`.                               *)
OnlyMakerRemoves ==
  [][\A p \in Proc : owner = p /\ owner' # p /\ crashes' = 0
        => Critical(p) /\ pc'[p] = "idle"]_lockVars

(* A waiting save ends: it gets the lock or raises TimeoutError, also when *)
(* a killed command left its lock file behind.                             *)
WaitEnds == \A p \in Proc : pc[p] \in Waiting ~> pc[p] \notin Waiting

(* The lock file of a killed command goes away, if somebody keeps saving:  *)
(* each save may time out behind it, but not all of them do.               *)
DeadLockGoes ==
  (\E p \in Proc : []<>(pc[p] # "idle")) => (owner = Dead ~> owner # Dead)
=============================================================================
