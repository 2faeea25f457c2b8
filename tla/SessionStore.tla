---------------------------- MODULE SessionStore ---------------------------
(***************************************************************************)
(* session.json shared by several commands (session.py).  A command reads  *)
(* the file without the lock into a session of its own, works on it for as *)
(* long as it likes (a run of the user's code, a console that stays open), *)
(* and saves it: under the lock it reads the file once more, merges the    *)
(* desks of other problems into its session and replaces the file.         *)
(***************************************************************************)
EXTENDS SessionLock

CONSTANTS
  Problem, Desk, NoDesk, NoProblem,   \* as in Desks
  NoSession,   \* no session.json, or no session in a command's memory
  Files        \* the files that may be there when the first command starts

VARIABLES
  file,    \* session.json
  mem,     \* the session dict of each command
  phase    \* how far a command is in _save_session_locked

storeVars == <<file, mem, phase>>
vars == <<lockVars, storeVars>>

-----------------------------------------------------------------------------
(* Types.  `parked` is the "desks" object of the file, `top` the desk that *)
(* the top-level fields spell.  load_session refuses a `bad` file whoever  *)
(* asks and a `retired` one (its language left the catalog) unless the     *)
(* caller brings a language to replace it.                                 *)

Shelf == [Problem -> Desk \cup {NoDesk}]
Empty == [q \in Problem |-> NoDesk]

SessionFile == [status : {"good", "bad", "retired"},
                problem : Problem, top : Desk, parked : Shelf]

Session == [problem : Problem, top : Desk, desks : Shelf]

StoreTypeOK ==
  /\ file \in SessionFile \cup {NoSession}
  /\ mem \in [Proc -> Session \cup {NoSession}]
  /\ phase \in [Proc -> {"none", "read", "replace", "done"}]

(* Mistake: "desks" is spelled with the known problems only. *)
WrittenSparse(q, d, desks) ==
  [status |-> "good", problem |-> q, top |-> d,
   parked |-> [r \in {s \in Problem : desks[s] # NoDesk} |-> desks[r]]]

(* What _save_session_locked writes: "desks" is left out when it would     *)
(* hold nothing but the active problem.                                    *)
Written(q, d, desks) ==
  [status |-> "good", problem |-> q, top |-> d,
   parked |-> IF \E r \in Problem \ {q} : desks[r] # NoDesk THEN desks ELSE Empty]

(* A file as some save left it, then perhaps spoiled by an edit of its     *)
(* top-level fields or by a release that dropped its language.             *)
SavedFile ==
  {f \in SessionFile :
     f.parked = Written(f.problem, f.top, [f.parked EXCEPT ![f.problem] = f.top]).parked}

ASSUME StoreAssumption ==
  /\ NoDesk \notin Desk
  /\ NoProblem \notin Problem
  /\ NoSession \notin Session /\ NoSession \notin SessionFile
  /\ Files \subseteq SavedFile \cup {NoSession}

-----------------------------------------------------------------------------
(* Reading the file *)

Good(f) == f # NoSession /\ f.status = "good"

(* load_session of a good file: the top-level fields are one more desk. *)
LoadedDesks(f) == [f.parked EXCEPT ![f.problem] = f.top]

(* _salvage_desks: what "desks" holds, whatever the top-level fields say. *)
SalvagedDesks(f) == IF f = NoSession THEN Empty ELSE f.parked

ReadableDesks(f) == IF Good(f) THEN LoadedDesks(f) ELSE SalvagedDesks(f)

(* _other_desks *)
OtherDesks(f, q) == [ReadableDesks(f) EXCEPT ![q] = NoDesk]

(* ensure_session: the desks to choose from when `q` is started and is not *)
(* the active problem, or is the problem whose language was retired.       *)
DesksForStart(f, q) ==
  IF f # NoSession /\ f.status = "retired" /\ f.problem = q
  THEN OtherDesks(f, q) ELSE ReadableDesks(f)

(* Mistake: the command's memory goes before what the file says. *)
DesksForSaveMemoryFirst(session, f) ==
  LET memory == [session.desks EXCEPT ![session.problem] = session.top]
  IN  IF ~Good(f) THEN memory
      ELSE [q \in Problem |-> IF memory[q] # NoDesk THEN memory[q] ELSE LoadedDesks(f)[q]]

(* Mistake: the file is not read again. *)
DesksForSaveMemoryOnly(session, f) ==
  [session.desks EXCEPT ![session.problem] = session.top]

(* _desks_for_save: the file's desks, then those that only the command has *)
(* in memory; the command's own problem always as the command has it.      *)
DesksForSave(session, f) ==
  LET memory == [session.desks EXCEPT ![session.problem] = session.top]
      merged == [q \in Problem |->
                   IF LoadedDesks(f)[q] # NoDesk THEN LoadedDesks(f)[q] ELSE memory[q]]
  IN  IF Good(f) THEN [merged EXCEPT ![session.problem] = session.top] ELSE memory

-----------------------------------------------------------------------------
(* The commands, up to where they call save_session *)

(* load_session of run, submit, --back and the console's reload. *)
Load(p) ==
  /\ pc[p] = "idle"
  /\ Good(file)
  /\ mem' = [mem EXCEPT ![p] = [problem |-> file.problem, top |-> file.top,
                                desks |-> LoadedDesks(file)]]
  /\ UNCHANGED <<lockVars, file, phase>>

(* The command ends. *)
Exit(p) ==
  /\ pc[p] = "idle"
  /\ mem[p] # NoSession
  /\ mem' = [mem EXCEPT ![p] = NoSession]
  /\ UNCHANGED <<lockVars, file, phase>>

(* record_last_run, mark_cleared, unlock_next, lock_to_level, and start on *)
(* the active problem: the command's own desk changes, and is saved.       *)
Update(p, d) ==
  /\ mem[p] # NoSession
  /\ Begin(p)
  /\ mem' = [mem EXCEPT ![p].top = d]
  /\ UNCHANGED <<file, phase>>

(* ensure_session for a problem that is not the active one, or whose       *)
(* language was retired: a saved desk is reopened, or a new one started.   *)
StartOther(p, q, d) ==
  /\ file # NoSession => file.status # "bad"
  /\ Good(file) => q # file.problem
  /\ Begin(p)
  /\ mem' = [mem EXCEPT ![p] = [problem |-> q, top |-> d, desks |-> DesksForStart(file, q)]]
  /\ UNCHANGED <<file, phase>>

(* ensure_session with reset, and restart_all: also from a bad file. *)
Reset(p, q, d) ==
  /\ Begin(p)
  /\ mem' = [mem EXCEPT ![p] = [problem |-> q, top |-> d, desks |-> OtherDesks(file, q)]]
  /\ UNCHANGED <<file, phase>>

-----------------------------------------------------------------------------
(* save_session *)

(* The lock is taken. *)
Lock(p) ==
  /\ Enter(p)
  /\ phase' = [phase EXCEPT ![p] = "read"]
  /\ UNCHANGED <<file, mem>>

(* _desks_for_save reads the file; session["desks"] is the merge. *)
ReadFresh(p) ==
  /\ pc[p] = "critical" /\ phase[p] = "read"
  /\ mem' = [mem EXCEPT ![p].desks = DesksForSave(mem[p], file)]
  /\ phase' = [phase EXCEPT ![p] = "replace"]
  /\ UNCHANGED <<lockVars, file>>

(* os.replace in _replace_text *)
Replace(p) ==
  /\ pc[p] = "critical" /\ phase[p] = "replace"
  /\ file' = Written(mem[p].problem, mem[p].top, mem[p].desks)
  /\ phase' = [phase EXCEPT ![p] = "done"]
  /\ UNCHANGED <<lockVars, mem>>

(* The lock file goes when the save is done, or when it failed on the way  *)
(* (no space, no permission): then the file is as it was.  The caller may  *)
(* still hold the session and save it again, as submit does.               *)
Unlock(p) ==
  /\ Release(p)
  /\ phase' = [phase EXCEPT ![p] = "none"]
  /\ UNCHANGED <<file, mem>>

WaitForLock(p) ==
  /\ Overdue(p) \/ GiveUp(p) \/ FindStale(p) \/ Break(p)
  /\ UNCHANGED storeVars

Die(p) ==
  /\ Crash(p)
  /\ mem' = [mem EXCEPT ![p] = NoSession]
  /\ phase' = [phase EXCEPT ![p] = "none"]
  /\ UNCHANGED file

Command(p) ==
  \/ Load(p) \/ Exit(p)
  \/ \E d \in Desk : Update(p, d)
  \/ \E q \in Problem, d \in Desk : StartOther(p, q, d) \/ Reset(p, q, d)
  \/ Lock(p) \/ ReadFresh(p) \/ Replace(p) \/ Unlock(p) \/ WaitForLock(p)
  \/ Die(p)

Init ==
  /\ LockInit
  /\ file \in Files
  /\ mem = [p \in Proc |-> NoSession]
  /\ phase = [p \in Proc |-> "none"]

Next ==
  \/ \E p \in Proc : Command(p)
  \/ Tick /\ UNCHANGED storeVars

Spec == Init /\ [][Next]_vars

-----------------------------------------------------------------------------
(* Properties *)

(* The desks that the file keeps, whoever reads it. *)
KeptDesks == ReadableDesks(file)

Promise == INSTANCE Desks WITH
  active <- IF Good(file) THEN file.problem ELSE NoProblem,
  desk   <- KeptDesks

(* Commands that share session.json cannot tell it from a store in which   *)
(* every save is one atomic Put (save_session).                            *)
Promised == Promise!DesksSpec

(* A save never drops the desk of a problem (session.py:474). *)
NoDeskDropped ==
  [][\A q \in Problem : KeptDesks[q] # NoDesk => KeptDesks'[q] # NoDesk]_vars

(* No command has in memory a problem that the file does not know, except  *)
(* the one it is about to save: the merge in _desks_for_save brings no     *)
(* desk back that the file has lost.                                       *)
MemoryIsOnDisk ==
  crashes = 0 =>
    \A p \in Proc, q \in Problem :
      mem[p] # NoSession /\ mem[p].desks[q] # NoDesk /\ q # mem[p].problem
        => KeptDesks[q] # NoDesk
=============================================================================
