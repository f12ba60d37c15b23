------------------------------ MODULE ModSync ------------------------------
(***************************************************************************)
(* The client's half of mod distribution: sync_assets_from_server brings   *)
(* one profile in line with the index the edge serves, before the game is  *)
(* launched.  What the edge answers is anything it could: an index of any  *)
(* jars and packs, whole files of any content, files cut short (the read   *)
(* loop takes an early end for the end), or an error.                      *)
(***************************************************************************)
EXTENDS Naturals, FiniteSets

CONSTANTS
  Jars,      \* file names listed for mods/, or found there
  Packs,     \* file names for shaderpacks/, resourcepacks/ or saves/
  Contents,  \* what a listed file can hold
  Short,     \* a file cut short
  Own,       \* a file of the player's
  NoSha, Absent

Names == Jars \cup Packs

ASSUME SyncAssumption ==
  /\ Jars \cap Packs = {} /\ IsFiniteSet(Jars) /\ IsFiniteSet(Packs)
  /\ {Short, Own, NoSha, Absent} \cap Contents = {}
  /\ Short \notin {Own, NoSha, Absent} /\ Own \notin {NoSha, Absent} /\ NoSha # Absent

(* What an index says of a name: its sha1, or that it has none (files that *)
(* only clients have, packs among them), or that it is not listed.         *)
Indexes == {x \in [Names -> Contents \cup {NoSha, Absent}] :
              \A n \in Packs : x[n] \in {NoSha, Absent}}

VARIABLES
  local,     \* the profile: what each file name holds
  pc,        \* where the launch is
  index,     \* the index this sync has fetched
  todo,      \* the files of the present directory still to be fetched
  surplus,   \* the jars still to be removed
  failed,    \* whether a fetch of the present directory has failed
  saw        \* what this sync has met: "fault", "other" contents

vars == <<local, pc, index, todo, surplus, failed, saw>>

Unlisted == [n \in Names |-> Absent]

Init ==
  /\ local \in [Names -> {Absent, Own}]
  /\ pc = "idle" /\ index = Unlisted
  /\ todo = {} /\ surplus = {} /\ failed = FALSE /\ saw = {}

-----------------------------------------------------------------------------
(* The player adds and removes files between launches. *)
PlayerTouches(n) ==
  /\ pc = "idle"
  /\ \/ local[n] = Absent /\ local' = [local EXCEPT ![n] = Own]
     \/ local[n] # Absent /\ local' = [local EXCEPT ![n] = Absent]
  /\ UNCHANGED <<pc, index, todo, surplus, failed, saw>>

(* Mutant: a file that is there is never hashed. *)
Cached_BUG(n) == local[n] # Absent

(* Present, with the sha1 of the index or none to compare with. *)
Cached(n) == local[n] # Absent /\ index[n] \in {NoSha, local[n]}

Wanted(dir) == {n \in dir : index[n] # Absent}

(* Mutant: every directory is mirrored. *)
Extras_BUG(dir) == {n \in dir : index[n] = Absent /\ local[n] # Absent}

(* What is pruned: the jars of mods/ that are not listed. *)
Extras(dir) == {n \in dir \cap Jars : index[n] = Absent /\ local[n] # Absent}

(* An index that cannot be read ends the sync, and the launch with it. *)
Fetch ==
  /\ pc = "idle"
  /\ index' \in Indexes
  /\ saw' = {}
  /\ pc' = "listed"
  /\ UNCHANGED <<local, todo, surplus, failed>>

(* Mutant: a directory that the index lists nothing for is mirrored too.    *)
Plan_BUG(dir, from, to, next) ==
  /\ pc = from /\ pc' = to
  /\ todo' = {n \in Wanted(dir) : ~ Cached(n)}
  /\ surplus' = Extras(dir)
  /\ failed' = FALSE
  /\ UNCHANGED <<local, index, saw>>

(* _sync_dir plans one directory.  A directory that the index lists nothing *)
(* for is not visited at all.                                              *)
Plan(dir, from, to, next) ==
  /\ pc = from
  /\ IF Wanted(dir) = {}
     THEN pc' = next /\ UNCHANGED <<todo, surplus>>
     ELSE /\ pc' = to
          /\ todo' = {n \in Wanted(dir) : ~ Cached(n)}
          /\ surplus' = Extras(dir)
  /\ failed' = FALSE
  /\ UNCHANGED <<local, index, saw>>

PlanMods  == Plan(Jars, "listed", "mods", "modsDone")
PlanPacks == Plan(Packs, "modsDone", "packs", "synced")

Prune(n) ==
  /\ pc \in {"mods", "packs"} /\ n \in surplus
  /\ local' = [local EXCEPT ![n] = Absent]
  /\ surplus' = surplus \ {n}
  /\ UNCHANGED <<pc, index, todo, failed, saw>>

(* Mutant: an entry that failed is tried again. *)
FetchEnds_BUG(n) ==
  /\ pc \in {"mods", "packs"} /\ surplus = {} /\ n \in todo
  /\ \/ \E c \in Contents : local' = [local EXCEPT ![n] = c] /\ todo' = todo \ {n}
     \/ UNCHANGED <<local, todo>>
  /\ saw' = saw \cup {"fault"} /\ UNCHANGED <<pc, index, surplus, failed>>

(* One of the pool's downloads ends: a whole file, one cut short, or an     *)
(* error of every url the entry has.  A server jar has an origin_url, whose *)
(* answer hides the error of the first.                                    *)
FetchEnds(n) ==
  /\ pc \in {"mods", "packs"} /\ surplus = {} /\ n \in todo
  /\ todo' = todo \ {n}
  /\ \/ \E c \in Contents :
          /\ local' = [local EXCEPT ![n] = c]
          /\ \/ saw' = saw \cup (IF index[n] \in {NoSha, c} THEN {} ELSE {"other"})
             \/ index[n] # NoSha /\ saw' = saw \cup {"fault"}
          /\ UNCHANGED failed
     \/ /\ local' = [local EXCEPT ![n] = Short]
        /\ saw' = saw \cup {"fault"} /\ UNCHANGED failed
     \/ /\ failed' = TRUE /\ saw' = saw \cup {"fault"}
        /\ UNCHANGED local
  /\ UNCHANGED <<pc, index, surplus>>

Done == todo = {} /\ surplus = {}

(* The call is over, and its locals with it. *)
Over ==
  /\ pc' = "idle"
  /\ index' = Unlisted /\ todo' = {} /\ surplus' = {} /\ failed' = FALSE /\ saw' = {}
  /\ UNCHANGED local

GoesOn(next) ==
  /\ pc' = next
  /\ UNCHANGED <<local, index, todo, surplus, failed, saw>>

(* Mutant: a jar that failed does not stop the launch. *)
DirDone_BUG(here, mirror, next) == pc = here /\ Done /\ GoesOn(next)

(* Mutant: a directory with a failure is planned again, for ever. *)
DirDone_Retry(here, mirror, next) ==
  pc = here /\ Done /\ GoesOn(IF failed /\ mirror THEN "listed" ELSE next)

(* mods/ is load-bearing: a jar that failed aborts.  Packs are skipped. *)
DirDone(here, mirror, next) ==
  pc = here /\ Done /\ IF failed /\ mirror THEN Over ELSE GoesOn(next)

ModsDone  == DirDone("mods", TRUE, "modsDone")
PacksDone == DirDone("packs", FALSE, "synced")

(* The sync returns, and launch goes on to the tunnel and the game. *)
Launch == pc = "synced" /\ Over

(* The window is closed, the machine goes down, a url of the index makes   *)
(* urllib raise what _fetch does not catch.  Only .part files are lost.    *)
Killed == pc # "idle" /\ Over

Syncs ==
  \/ PlanMods \/ PlanPacks \/ ModsDone \/ PacksDone \/ Launch
  \/ \E n \in Names : Prune(n) \/ FetchEnds(n)

Next == Fetch \/ Syncs \/ Killed \/ \E n \in Names : PlayerTouches(n)

(* Every request has a timeout, and the loops run over finite lists. *)
Spec == Init /\ [][Next]_vars /\ WF_vars(Syncs)

-----------------------------------------------------------------------------
(* Properties *)

(* The types that the comments at the variables say. *)
TypeOK ==
  /\ local \in [Names -> Contents \cup {Short, Own, Absent}]
  /\ pc \in {"idle", "listed", "mods", "modsDone", "packs", "synced"}
  /\ index \in Indexes
  /\ todo \subseteq Names /\ surplus \subseteq Jars
  /\ failed \in BOOLEAN /\ saw \subseteq {"fault", "other"}

(* "a missing jar must abort the launch": the game starts with every jar    *)
(* that the index lists, whatever failed, was cut short or was pruned.      *)
LaunchIsComplete ==
  pc = "synced" => \A n \in Wanted(Jars) : local[n] # Absent

(* Whatever earlier syncs have left (killed half way, files cut short, the  *)
(* player's own jars), a sync that meets no fault and whose edge serves     *)
(* what its index says ends with the listed jars and no others; provided    *)
(* the index lists a jar at all.                                           *)
CleanSyncMirrors ==
  pc = "synced" /\ saw = {} /\ Wanted(Jars) # {} =>
    \A n \in Jars :
      /\ index[n] = Absent => local[n] = Absent
      /\ index[n] # Absent => index[n] \in {NoSha, local[n]}

(* The cosmetic directories are additive: only the player removes or        *)
(* replaces a file that is there.                                          *)
PacksAreThePlayers ==
  [][\A n \in Packs : local[n] # Absent /\ local'[n] # local[n] => PlayerTouches(n)]_vars

(* The plan, the pool and the order of directories come to this: each file  *)
(* is brought in line with the index for its own sake (see ProfileMirror). *)
Stage == CASE pc = "idle" -> "resting" [] pc = "synced" -> "ready" [] OTHER -> "syncing"

Mirror == INSTANCE ProfileMirror WITH
  profile <- local, stage <- Stage, list <- index, trouble <- saw # {}

ImplementsMirror == Mirror!Spec

(* The steps that a sync can still take: a plan, a removal or a download for *)
(* each name it is for, the end of each directory, and the launch.         *)
StepsLeft ==
  LET files == Cardinality(todo) + Cardinality(surplus) IN
  CASE pc = "listed"   -> 5 + Cardinality(Jars) + Cardinality(Packs)
    [] pc = "mods"     -> 4 + files + Cardinality(Packs)
    [] pc = "modsDone" -> 3 + Cardinality(Packs)
    [] pc = "packs"    -> 2 + files
    [] pc = "synced"   -> 1
    [] OTHER           -> 0

(* The loops run over finite lists: no step of a sync gives it more to do,  *)
(* so it takes at most five steps and one for each name.                   *)
EachStepCounts == [][Syncs => StepsLeft' \in 0..(StepsLeft - 1)]_vars

(* A sync ends: in a launch, an error, or with the process. *)
SyncEnds == pc # "idle" ~> pc = "idle"
=============================================================================
