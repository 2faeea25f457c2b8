------------------------------ MODULE PackMeta -----------------------------
(***************************************************************************)
(* The recipe of one language pack: meta.json on disk, which the author of *)
(* a pack edits, and the copies that load_meta keeps in memory by the time *)
(* of the file's last change (packspec.py).  A load asks for that time     *)
(* first and reads the file after it, if memory has nothing for the time.  *)
(***************************************************************************)
EXTENDS Naturals

CONSTANTS
  Recipe,    \* the recipes that run_spec accepts
  Refused,   \* a run that run_spec refuses, or none at all
  Broken,    \* no JSON object
  MaxWrites, \* bound: how often the file is written
  NoCopy, NoLoad

Content == Recipe \cup {Refused, Broken}

ASSUME MetaAssumption ==
  /\ MaxWrites \in Nat
  /\ NoLoad \notin Nat
  /\ NoCopy \notin Content /\ Broken \notin Recipe /\ Refused \notin Recipe

VARIABLES
  meta,   \* meta.json: what it holds and the time of its last change
  cache,  \* _META_CACHE of the process, by that time
  load,   \* the load under way: the time that it found
  got,    \* what the last load returned
  held    \* history: what the file held since the load asked for the time

metaVars == <<meta, cache, load, got, held>>

Time == 0..MaxWrites

MetaTypeOK ==
  /\ meta \in [holds : Content, mtime : Time]
  /\ cache \in [Time -> Content \cup {NoCopy}]
  /\ load \in Time \cup {NoLoad}
  /\ got \in Content \cup {NoCopy}
  /\ held \subseteq Content

MetaInit ==
  /\ meta \in [holds : Content, mtime : {0}]
  /\ cache = [t \in Time |-> NoCopy]
  /\ load = NoLoad
  /\ got = NoCopy
  /\ held = {}

-----------------------------------------------------------------------------
(* load_meta *)

(* path.stat().st_mtime_ns *)
AskTime ==
  /\ load = NoLoad
  /\ load' = meta.mtime
  /\ got' = NoCopy
  /\ held' = {meta.holds}
  /\ UNCHANGED <<meta, cache>>

Remember(t) == cache' = IF got' = Broken THEN cache ELSE [cache EXCEPT ![t] = got']

(* Mistake: the time is asked for once more, after the file was read. *)
LoadThenAskTime ==
  /\ load # NoLoad
  /\ IF cache[load] # NoCopy THEN got' = cache[load] /\ UNCHANGED cache
     ELSE got' \in held /\ Remember(meta.mtime)
  /\ load' = NoLoad
  /\ UNCHANGED <<meta, held>>

(* Memory answers, or the file is read and remembered; what is no JSON     *)
(* object is an error and is not remembered.                               *)
Load ==
  /\ load # NoLoad
  /\ IF cache[load] # NoCopy THEN got' = cache[load] /\ UNCHANGED cache
     ELSE got' = meta.holds /\ Remember(load)
  /\ load' = NoLoad
  /\ UNCHANGED <<meta, held>>

(* The command is interrupted in the middle of a load. *)
DropLoad == load' = NoLoad /\ got' = NoCopy /\ UNCHANGED <<meta, cache, held>>

-----------------------------------------------------------------------------
(* The author of the pack saves the file.  Its time moves on with every    *)
(* change: nobody restores an old time, and no two changes fall into one   *)
(* tick of the file system's clock.                                        *)
WriteMeta(c) ==
  /\ meta.mtime < MaxWrites
  /\ meta' = [holds |-> c, mtime |-> meta.mtime + 1]
  /\ held' = IF load = NoLoad THEN held ELSE held \cup {c}
  /\ UNCHANGED <<cache, load, got>>

-----------------------------------------------------------------------------
(* An edited pack is picked up without a restart (packspec.py:82): what a  *)
(* load returns is what the file held at some moment of that load, however *)
(* the author's saves fall between its two steps.                          *)
LoadsAreCurrent == got # NoCopy => got \in held
=============================================================================
