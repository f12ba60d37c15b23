--------------------------- MODULE ModSyncProofs ---------------------------
(***************************************************************************)
(* Theorems of ModSync, for any names and contents.                        *)
(*                                                                         *)
(* The properties speak of the moment of the launch; what carries them     *)
(* there is said of every step of the sync by IInv: that a directory is    *)
(* planned for its own names, none of which is as listed (Plans), that a   *)
(* listed jar which is not there is still to be fetched or has failed      *)
(* (Complete), and that as long as nothing was met a name which is not as  *)
(* listed is still in the plan (Mirrors, and Fills for the packs).         *)
(***************************************************************************)
EXTENDS ModSync, FiniteSetTheorems, TLAPS

After == pc \in {"modsDone", "packs", "synced"}

Plans ==
  /\ pc = "mods" => todo \subseteq Wanted(Jars)
  /\ pc = "packs" => todo \subseteq Wanted(Packs)
  /\ \A n \in todo : ~ Cached(n)
  /\ pc \notin {"mods", "packs"} => todo = {}
  /\ pc # "mods" => surplus = {}
  /\ surplus # {} => Wanted(Jars) # {}
  /\ \A n \in surplus : index[n] = Absent
  /\ failed => pc # "idle" /\ "fault" \in saw

Complete ==
  /\ pc = "mods" => \A n \in Wanted(Jars) : n \in todo \/ failed \/ local[n] # Absent
  /\ After => \A n \in Wanted(Jars) : local[n] # Absent

Mirrored(n) ==
  /\ index[n] = Absent => local[n] = Absent
  /\ index[n] # Absent => index[n] \in {NoSha, local[n]}

Mirrors ==
  saw = {} /\ Wanted(Jars) # {} =>
    /\ pc = "mods" => \A n \in Jars : n \in todo \/ n \in surplus \/ Mirrored(n)
    /\ After => \A n \in Jars : Mirrored(n)

Fills ==
  saw = {} =>
    /\ pc = "packs"  => \A n \in Wanted(Packs) : n \in todo \/ local[n] # Absent
    /\ pc = "synced" => \A n \in Wanted(Packs) : local[n] # Absent

IInv == TypeOK /\ Plans /\ Complete /\ Mirrors /\ Fills

-----------------------------------------------------------------------------
(* The names of mods/ are no names of the other directories, and the marks *)
(* of what a file is not are no contents.                                  *)
LEMMA Apart ==
  /\ \A n \in Jars : n \notin Packs
  /\ \A c \in Contents : c # Short /\ c # Own /\ c # NoSha /\ c # Absent
  /\ Short # Own /\ Short # Absent /\ Own # Absent /\ NoSha # Absent
  /\ Short # NoSha /\ Own # NoSha
BY SyncAssumption DEF SyncAssumption

USE DEF Names, Wanted

(* Indexes, once and for all: a pack has no hash. *)
LEMMA IndexFacts ==
  ASSUME TypeOK
  PROVE  /\ index \in [Names -> Contents \cup {NoSha, Absent}]
         /\ \A n \in Packs : index[n] \in {NoSha, Absent}
         /\ local \in [Names -> Contents \cup {Short, Own, Absent}]
BY DEF TypeOK, Indexes

LEMMA InitIInv == Init => IInv
<1> SUFFICES ASSUME Init PROVE IInv
  OBVIOUS
<1>1. Unlisted \in Indexes
  BY DEF Unlisted, Indexes
<1>2. TypeOK
  BY <1>1 DEF Init, TypeOK
<1>3. Plans /\ Complete /\ Mirrors /\ Fills
  BY DEF Init, Plans, Complete, Mirrors, Fills, After
<1>4. QED
  BY <1>2, <1>3 DEF IInv

-----------------------------------------------------------------------------
(* One lemma for each step. *)

LEMMA TouchKeeps == ASSUME IInv, NEW n \in Names, PlayerTouches(n) PROVE IInv'
<1>1. TypeOK'
  BY DEF IInv, TypeOK, PlayerTouches
<1>2. Plans' /\ Complete' /\ Mirrors' /\ Fills'
  BY DEF IInv, PlayerTouches, Plans, Complete, Mirrors, Fills, Cached, After
<1>3. QED
  BY <1>1, <1>2 DEF IInv

LEMMA FetchKeeps == ASSUME IInv, Fetch PROVE IInv'
<1>1. TypeOK'
  BY DEF IInv, TypeOK, Fetch
<1>2. Plans' /\ Complete' /\ Mirrors' /\ Fills'
  BY DEF IInv, Fetch, Plans, Complete, Mirrors, Fills, Cached, After
<1>3. QED
  BY <1>1, <1>2 DEF IInv

LEMMA OverKeeps == ASSUME IInv, Over PROVE IInv'
<1>1. Unlisted \in Indexes
  BY DEF Unlisted, Indexes
<1>2. TypeOK'
  BY <1>1 DEF IInv, TypeOK, Over
<1>3. Plans' /\ Complete' /\ Mirrors' /\ Fills'
  BY DEF Over, Plans, Complete, Mirrors, Fills, Cached, After
<1>4. QED
  BY <1>2, <1>3 DEF IInv

LEMMA PlanModsKeeps == ASSUME IInv, PlanMods PROVE IInv'
<1> USE IndexFacts, Apart DEF IInv, PlanMods, Plan
<1>1. CASE Wanted(Jars) = {}
  <2>1. TypeOK'
    BY <1>1 DEF TypeOK
  <2>2. Plans' /\ Complete' /\ Mirrors' /\ Fills'
    BY <1>1 DEF Plans, Complete, Mirrors, Fills, Cached, After
  <2>3. QED
    BY <2>1, <2>2
<1>2. CASE Wanted(Jars) # {}
  <2>1. TypeOK'
    BY <1>2 DEF TypeOK, Extras
  <2>2. Plans'
    BY <1>2 DEF Plans, Extras, Cached
  <2>3. Complete'
    BY <1>2 DEF Complete, After, Cached
  <2>4. Mirrors' /\ Fills'
    BY <1>2 DEF Mirrors, Fills, Mirrored, After, Cached, Extras
  <2>5. QED
    BY <2>1, <2>2, <2>3, <2>4
<1>3. QED
  BY <1>1, <1>2

LEMMA PlanPacksKeeps == ASSUME IInv, PlanPacks PROVE IInv'
<1> USE IndexFacts, Apart DEF IInv, PlanPacks, Plan
<1>1. TypeOK'
  BY DEF TypeOK, Extras
<1>2. Plans'
  BY DEF Plans, Extras, Cached
<1>3. Complete' /\ Mirrors' /\ Fills'
  BY DEF Complete, Mirrors, Fills, Cached, Mirrored, After
<1>4. QED
  BY <1>1, <1>2, <1>3

LEMMA PruneKeeps == ASSUME IInv, NEW n \in Names, Prune(n) PROVE IInv'
<1> USE IndexFacts, Apart DEF IInv, Prune
<1>1. pc = "mods" /\ n \in Jars /\ index[n] = Absent
  BY DEF Plans, TypeOK
<1>2. TypeOK'
  BY <1>1 DEF TypeOK
<1>3. Plans'
  BY <1>1 DEF Plans, Cached
<1>4. Complete'
  BY <1>1 DEF Complete, After
<1>5. Mirrors' /\ Fills'
  BY <1>1 DEF Mirrors, Fills, Mirrored, After
<1>6. QED
  BY <1>2, <1>3, <1>4, <1>5

LEMMA FetchEndsKeeps == ASSUME IInv, NEW n \in Names, FetchEnds(n) PROVE IInv'
<1> USE IndexFacts, Apart DEF IInv
<1>1. /\ pc \in {"mods", "packs"} /\ n \in todo /\ todo' = todo \ {n}
      /\ UNCHANGED <<pc, index, surplus>>
  BY DEF FetchEnds
<1>2. \/ /\ failed' = TRUE /\ "fault" \in saw' /\ saw' = saw \cup {"fault"} /\ UNCHANGED local
      \/ /\ \E c \in Contents \cup {Short} :
              /\ local' = [local EXCEPT ![n] = c]
              /\ \/ "fault" \in saw' /\ saw' = saw \cup {"fault"}
                 \/ "other" \in saw' /\ saw' = saw \cup {"other"}
                 \/ saw' = saw /\ index[n] \in {NoSha, c}
         /\ UNCHANGED failed
  BY DEF FetchEnds
<1>3. index[n] # Absent
  BY <1>1, <1>2 DEF Plans, TypeOK, FetchEnds
<1>4. TypeOK'
  <2>1. local' = local \/ \E c \in Contents \cup {Short} : local' = [local EXCEPT ![n] = c]
    BY <1>2
  <2>2. local' \in [Names -> Contents \cup {Short, Own, Absent}]
    BY <2>1 DEF TypeOK
  <2>3. failed' = TRUE \/ failed' = failed
    BY <1>2
  <2>4. saw' = saw \/ \E f \in {"fault", "other"} : saw' = saw \cup {f}
    BY <1>2
  <2>5. QED
    BY <1>1, <2>2, <2>3, <2>4 DEF TypeOK
<1>5. Plans'
  BY <1>1, <1>2 DEF Plans, TypeOK, Cached
<1>6. Complete'
  BY <1>1, <1>2 DEF Complete, After, Plans
<1>7. Mirrors' /\ Fills'
  BY <1>1, <1>2 DEF Mirrors, Fills, Mirrored, After, Plans
<1>8. QED
  BY <1>4, <1>5, <1>6, <1>7

LEMMA DirDoneKeeps ==
  ASSUME IInv, ModsDone \/ PacksDone
  PROVE  IInv'
<1>1. CASE ModsDone /\ failed
  <2>1. Over
    BY <1>1, Apart DEF ModsDone, DirDone
  <2>2. QED
    BY <2>1, OverKeeps
<1>2. CASE ModsDone /\ ~ failed
  <2> USE <1>2 DEF IInv, ModsDone, DirDone, GoesOn, Done
  <2>1. TypeOK'
    BY DEF TypeOK
  <2>2. Plans' /\ Complete' /\ Mirrors' /\ Fills'
    BY DEF Plans, Complete, Mirrors, Fills, Cached, Mirrored, After
  <2>3. QED
    BY <2>1, <2>2
<1>3. CASE PacksDone
  <2> USE <1>3 DEF IInv, PacksDone, DirDone, GoesOn, Done
  <2>1. TypeOK'
    BY DEF TypeOK
  <2>2. Plans' /\ Complete' /\ Mirrors' /\ Fills'
    BY DEF Plans, Complete, Mirrors, Fills, Cached, Mirrored, After
  <2>3. QED
    BY <2>1, <2>2
<1>4. QED
  BY <1>1, <1>2, <1>3

LEMMA StutterKeeps == ASSUME IInv, UNCHANGED vars PROVE IInv'
BY DEF IInv, vars, TypeOK, Plans, Complete, Mirrors, Mirrored, Fills, Cached, After

LEMMA NextKeeps == IInv /\ [Next]_vars => IInv'
<1> SUFFICES ASSUME IInv, [Next]_vars PROVE IInv'
  OBVIOUS
<1>1. CASE Fetch
  BY <1>1, FetchKeeps
<1>2. CASE PlanMods
  BY <1>2, PlanModsKeeps
<1>3. CASE PlanPacks
  BY <1>3, PlanPacksKeeps
<1>4. CASE ModsDone \/ PacksDone
  BY <1>4, DirDoneKeeps
<1>5. CASE Launch \/ Killed
  BY <1>5, OverKeeps DEF Launch, Killed
<1>6. ASSUME NEW n \in Names, Prune(n) PROVE IInv'
  BY <1>6, PruneKeeps
<1>7. ASSUME NEW n \in Names, FetchEnds(n) PROVE IInv'
  BY <1>7, FetchEndsKeeps
<1>8. ASSUME NEW n \in Names, PlayerTouches(n) PROVE IInv'
  BY <1>8, TouchKeeps
<1>9. CASE UNCHANGED vars
  BY <1>9, StutterKeeps
<1>10. QED
  BY <1>1, <1>2, <1>3, <1>4, <1>5, <1>6, <1>7, <1>8, <1>9 DEF Next, Syncs

(* Whatever the edge answers and the player does, IInv holds. *)
THEOREM Invariance == Spec => []IInv
BY InitIInv, NextKeeps, PTL DEF Spec

-----------------------------------------------------------------------------
(* Every variable keeps its type. *)
THEOREM TypeCorrect == Spec => []TypeOK
<1>1. IInv => TypeOK
  BY DEF IInv
<1> QED BY <1>1, Invariance, PTL

(* _sync_dir: the game never starts without a jar that the index lists,    *)
(* however many names there are and whichever fetches fail.                *)
THEOREM NoLaunchWithoutAJar == Spec => []LaunchIsComplete
<1>1. IInv => LaunchIsComplete
  BY DEF IInv, Complete, After, LaunchIsComplete
<1> QED BY <1>1, Invariance, PTL

(* A sync that meets no fault ends with the listed jars and no others,     *)
(* whatever it started from.                                               *)
THEOREM CleanSyncsMirror == Spec => []CleanSyncMirrors
<1>1. IInv => CleanSyncMirrors
  BY DEF IInv, Mirrors, Mirrored, After, CleanSyncMirrors
<1> QED BY <1>1, Invariance, PTL

(* No step of a sync replaces or removes a pack that is there. *)
THEOREM PacksStayThePlayers == Spec => PacksAreThePlayers
<1> DEFINE Kept == \A n \in Packs : local[n] # Absent /\ local'[n] # local[n] => PlayerTouches(n)
<1>1. IInv /\ [Next]_vars => [Kept]_vars
  <2> SUFFICES ASSUME IInv, Next, NEW n \in Packs, local[n] # Absent, local'[n] # local[n]
               PROVE  PlayerTouches(n)
    OBVIOUS
  <2> USE IndexFacts, Apart DEF IInv
  <2>1. local' # local
    OBVIOUS
  <2>2. PICK m \in Names : Prune(m) \/ FetchEnds(m) \/ PlayerTouches(m)
    BY <2>1 DEF Next, Syncs, Fetch, PlanMods, PlanPacks, Plan, ModsDone, PacksDone, DirDone,
                GoesOn, Over, Launch, Killed
  <2>3. m = n
    BY <2>2 DEF Prune, FetchEnds, PlayerTouches
  <2>4. ~ Prune(n)
    BY DEF Prune, TypeOK, Plans
  <2>5. ~ FetchEnds(n)
    BY DEF FetchEnds, Plans, Cached
  <2>6. QED
    BY <2>2, <2>3, <2>4, <2>5
<1>2. QED
  BY <1>1, Invariance, PTL DEF Spec, PacksAreThePlayers

-----------------------------------------------------------------------------
(* The refinement: each step is a step of ProfileMirror, or changes nothing *)
(* that it speaks of.                                                      *)
USE DEF Mirror!Names, Mirror!Listed

LEMMA Stages ==
  /\ pc = "idle" <=> Stage = "resting"
  /\ pc = "synced" <=> Stage = "ready"
  /\ pc \notin {"idle", "synced"} <=> Stage = "syncing"
BY DEF Stage

LEMMA StagesNext ==
  /\ pc' = "idle" <=> Stage' = "resting"
  /\ pc' = "synced" <=> Stage' = "ready"
  /\ pc' \notin {"idle", "synced"} <=> Stage' = "syncing"
BY DEF Stage

LEMMA InitMirror == Init => Mirror!Init
BY DEF Init, Mirror!Init, Stage, Unlisted, Mirror!NoList

LEMMA TouchMaps == ASSUME NEW n \in Names, PlayerTouches(n) PROVE Mirror!Touch(n)
BY DEF PlayerTouches, Mirror!Touch, Stage

LEMMA FetchMaps == ASSUME Fetch PROVE Mirror!Begin
BY DEF Fetch, Mirror!Begin, Stage, Indexes, Mirror!Indexes

LEMMA OverMaps == ASSUME pc # "idle", Over PROVE Mirror!End
BY Stages, StagesNext DEF Over, Mirror!End, Unlisted, Mirror!NoList

LEMMA PruneMaps == ASSUME IInv, NEW n \in Names, Prune(n) PROVE n \in Jars /\ Mirror!Drop(n)
<1>1. /\ pc \in {"mods", "packs"} /\ n \in Jars /\ index[n] = Absent
      /\ \E k \in Jars : index[k] # Absent
  BY DEF IInv, TypeOK, Plans, Prune
<1>2. Stage = "syncing" /\ Stage' = Stage
  BY <1>1 DEF Prune, Stage
<1>3. QED
  BY <1>1, <1>2 DEF Prune, Mirror!Drop

(* A download is of a file that is not as listed, and a file which is not  *)
(* what the index says, like one that did not come, is trouble.            *)
LEMMA FetchEndsMaps == ASSUME IInv, NEW n \in Names, FetchEnds(n) PROVE Mirror!Bring(n)
<1>1. /\ pc \in {"mods", "packs"} /\ n \in todo /\ UNCHANGED <<pc, index>>
  BY DEF FetchEnds
<1>2. Stage = "syncing" /\ Stage' = Stage
  BY <1>1 DEF Stage
<1>3. index[n] # Absent
  BY <1>1, Apart DEF IInv, Plans
<1>4. ~ Mirror!AsListed(n)
  BY <1>1, <1>3 DEF IInv, Plans, Cached, Mirror!AsListed
<1>5. \/ /\ \E c \in Contents : index[n] \in {NoSha, c} /\ local' = [local EXCEPT ![n] = c]
         /\ saw' = saw \/ "fault" \in saw'
      \/ /\ \E c \in Contents \cup {Short} : local' = [local EXCEPT ![n] = c]
         /\ "fault" \in saw' \/ "other" \in saw'
      \/ "fault" \in saw' /\ UNCHANGED local
  BY DEF FetchEnds
<1>6. \/ /\ \E c \in Contents : index[n] \in {NoSha, c} /\ local' = [local EXCEPT ![n] = c]
         /\ (saw' # {}) \in {saw # {}, TRUE}
      \/ /\ \E c \in Contents \cup {Short} : local' = [local EXCEPT ![n] = c]
         /\ (saw' # {}) = TRUE
      \/ (saw' # {}) = TRUE /\ UNCHANGED local
  BY <1>5
<1>7. QED
  BY <1>1, <1>2, <1>3, <1>4, <1>6 DEF Mirror!Bring

(* The step that makes the game ready: the invariant of its target state   *)
(* says what is there.                                                     *)
LEMMA ReadyMaps ==
  ASSUME IInv, IInv', pc \notin {"idle", "synced"}, pc' = "synced",
         UNCHANGED <<local, index, saw>>
  PROVE  Mirror!Ready
<1> USE IndexFacts, Apart
<1>1. Mirror!Complete
  BY DEF IInv, Complete, After, Mirror!Complete
<1>2. ASSUME saw = {} PROVE Mirror!Mirrored
  <2>1. \A n \in Jars : index[n] # Absent => Mirror!AsListed(n)
    BY <1>1, <1>2 DEF IInv, Mirrors, Mirrored, After, Mirror!Complete, Mirror!AsListed
  <2>2. \A n \in Packs : index[n] # Absent => Mirror!AsListed(n)
    BY <1>2 DEF IInv, Fills, Mirror!AsListed
  <2>3. (\E k \in Jars : index[k] # Absent) => \A j \in Jars : Mirror!AsListed(j)
    BY <1>2, <2>1 DEF IInv, Mirrors, Mirrored, After, Mirror!AsListed
  <2>4. QED
    BY <2>1, <2>2, <2>3 DEF Mirror!Mirrored
<1>3. QED
  BY <1>1, <1>2, Stages, StagesNext DEF Mirror!Ready

(* The steps that only plan, or go on to the next directory. *)
LEMMA PlanMaps ==
  ASSUME IInv, IInv', PlanMods \/ PlanPacks \/ (ModsDone /\ ~ failed) \/ PacksDone
  PROVE  Mirror!Ready \/ UNCHANGED Mirror!vars
<1>1. /\ pc \notin {"idle", "synced"} /\ pc' # "idle"
      /\ UNCHANGED <<local, index, saw>>
  BY DEF PlanMods, PlanPacks, Plan, ModsDone, PacksDone, DirDone, GoesOn
<1>2. CASE pc' = "synced"
  BY <1>1, <1>2, ReadyMaps
<1>3. CASE pc' # "synced"
  BY <1>1, <1>3, Stages, StagesNext DEF Mirror!vars
<1>4. QED
  BY <1>2, <1>3

LEMMA StepMaps ==
  ASSUME IInv, IInv', [Next]_vars
  PROVE  [Mirror!Next]_(Mirror!vars)
<1>1. ASSUME NEW n \in Names, PlayerTouches(n) \/ FetchEnds(n) PROVE Mirror!Next
  BY <1>1, TouchMaps, FetchEndsMaps DEF Mirror!Next
<1>2. ASSUME NEW n \in Names, Prune(n) PROVE Mirror!Next
  BY <1>2, PruneMaps DEF Mirror!Next
<1>3. CASE Fetch
  BY <1>3, FetchMaps DEF Mirror!Next
<1>4. CASE Launch \/ Killed \/ (ModsDone /\ failed)
  <2>1. pc # "idle" /\ Over
    BY <1>4 DEF Launch, Killed, ModsDone, DirDone
  <2>2. QED
    BY <2>1, OverMaps DEF Mirror!Next
<1>5. CASE PlanMods \/ PlanPacks \/ (ModsDone /\ ~ failed) \/ PacksDone
  BY <1>5, PlanMaps DEF Mirror!Next
<1>6. CASE UNCHANGED vars
  BY <1>6 DEF vars, Stage, Mirror!vars
<1>7. QED
  BY <1>1, <1>2, <1>3, <1>4, <1>5, <1>6 DEF Next, Syncs

(* ModSync implements ProfileMirror: with however many files, directories   *)
(* planned apart and downloads that end in any order, a sync does nothing  *)
(* but bring each file in line with the index, and says the game is ready  *)
(* only when it may.                                                       *)
THEOREM SyncsMirror == Spec => ImplementsMirror
<1>1. IInv /\ IInv' /\ [Next]_vars => [Mirror!Next]_(Mirror!vars)
  BY StepMaps
<1>2. QED
  BY <1>1, InitMirror, Invariance, PTL DEF Spec, ImplementsMirror, Mirror!Spec

-----------------------------------------------------------------------------
(* A sync ends.  That it goes on is left to fairness; that it cannot go on  *)
(* for ever is said here, of any index.                                    *)

LEMMA Sizes ==
  /\ IsFiniteSet(Jars) /\ IsFiniteSet(Packs)
  /\ Cardinality(Jars) \in Nat /\ Cardinality(Packs) \in Nat
BY SyncAssumption, FS_CardinalityType DEF SyncAssumption

LEMMA SetSizes ==
  ASSUME IInv
  PROVE  /\ IsFiniteSet(todo) /\ IsFiniteSet(surplus)
         /\ Cardinality(todo) \in Nat /\ Cardinality(surplus) \in Nat
<1>1. IsFiniteSet(Names)
  BY Sizes, FS_Union
<1>2. IsFiniteSet(todo) /\ IsFiniteSet(surplus)
  BY <1>1, Sizes, FS_Subset DEF IInv, TypeOK
<1>3. QED
  BY <1>2, FS_CardinalityType

LEMMA StepsAre ==
  LET files == Cardinality(todo) + Cardinality(surplus) IN
  /\ pc = "listed"   => StepsLeft = 5 + Cardinality(Jars) + Cardinality(Packs)
  /\ pc = "mods"     => StepsLeft = 4 + files + Cardinality(Packs)
  /\ pc = "modsDone" => StepsLeft = 3 + Cardinality(Packs)
  /\ pc = "packs"    => StepsLeft = 2 + files
  /\ pc = "synced"   => StepsLeft = 1
  /\ pc = "idle"     => StepsLeft = 0
BY DEF StepsLeft

LEMMA StepsAreNext ==
  LET files == Cardinality(todo') + Cardinality(surplus') IN
  /\ pc' = "mods"     => StepsLeft' = 4 + files + Cardinality(Packs)
  /\ pc' = "modsDone" => StepsLeft' = 3 + Cardinality(Packs)
  /\ pc' = "packs"    => StepsLeft' = 2 + files
  /\ pc' = "synced"   => StepsLeft' = 1
  /\ pc' = "idle"     => StepsLeft' = 0
BY DEF StepsLeft

Counts == StepsLeft' \in 0..(StepsLeft - 1)

(* A plan is for names of its directory, and none is both to be fetched and *)
(* to be removed.                                                          *)
LEMMA PlanCounts == ASSUME IInv, IInv', PlanMods \/ PlanPacks PROVE Counts
<1> DEFINE t == Cardinality(todo')
           s == Cardinality(surplus')
<1>1. t \in Nat /\ s \in Nat /\ IsFiniteSet(todo') /\ IsFiniteSet(surplus')
  <2>1. ASSUME NEW T \in SUBSET Names PROVE IsFiniteSet(T) /\ Cardinality(T) \in Nat
    BY Sizes, FS_Union, FS_Subset, FS_CardinalityType
  <2>2. todo' \in SUBSET Names /\ surplus' \in SUBSET Names
    BY DEF IInv, TypeOK
  <2>3. QED
    BY <2>1, <2>2
<1>2. CASE PlanMods
  <2>1. pc = "listed" /\ pc' \in {"mods", "modsDone"}
    BY <1>2 DEF PlanMods, Plan
  <2>2. CASE pc' = "mods"
    <3>1. todo' \cap surplus' = {} /\ todo' \cup surplus' \subseteq Jars
      BY <2>2, Apart DEF IInv, TypeOK, Plans
    <3>2. Cardinality(todo' \cup surplus') = t + s - Cardinality({})
      BY <1>1, <3>1, FS_Union
    <3>3. Cardinality(todo' \cup surplus') <= Cardinality(Jars)
      BY <3>1, Sizes, FS_Subset
    <3>4. t + s <= Cardinality(Jars)
      BY <1>1, <3>2, <3>3, FS_EmptySet
    <3> HIDE DEF t, s
    <3>5. StepsLeft = 5 + Cardinality(Jars) + Cardinality(Packs)
          /\ StepsLeft' = 4 + (t + s) + Cardinality(Packs)
      BY <2>1, <2>2, StepsAre, StepsAreNext DEF t, s
    <3>6. QED
      BY <1>1, <3>4, <3>5, Sizes DEF Counts
  <2>3. CASE pc' = "modsDone"
    BY <2>1, <2>3, StepsAre, StepsAreNext, Sizes DEF Counts
  <2>4. QED
    BY <2>1, <2>2, <2>3
<1>3. CASE PlanPacks
  <2>1. pc = "modsDone" /\ pc' \in {"packs", "synced"}
    BY <1>3 DEF PlanPacks, Plan
  <2>2. CASE pc' = "packs"
    <3>1. todo' \subseteq Packs /\ surplus' = {}
      BY <2>2 DEF IInv, Plans
    <3>2. t <= Cardinality(Packs) /\ s = 0
      BY <3>1, Sizes, FS_Subset, FS_EmptySet
    <3> HIDE DEF t, s
    <3>3. StepsLeft = 3 + Cardinality(Packs) /\ StepsLeft' = 2 + (t + s)
      BY <2>1, <2>2, StepsAre, StepsAreNext DEF t, s
    <3>4. QED
      BY <1>1, <3>2, <3>3, Sizes DEF Counts
  <2>3. CASE pc' = "synced"
    BY <2>1, <2>3, StepsAre, StepsAreNext, Sizes DEF Counts
  <2>4. QED
    BY <2>1, <2>2, <2>3
<1>4. QED
  BY <1>2, <1>3

LEMMA FileCounts == ASSUME IInv, NEW n \in Names, Prune(n) \/ FetchEnds(n) PROVE Counts
<1> DEFINE t == Cardinality(todo)
           s == Cardinality(surplus)
           t1 == Cardinality(todo')
           s1 == Cardinality(surplus')
<1>1. pc \in {"mods", "packs"} /\ pc' = pc
  BY DEF Prune, FetchEnds
<1>2. \/ n \in surplus /\ surplus' = surplus \ {n} /\ todo' = todo
      \/ n \in todo /\ todo' = todo \ {n} /\ surplus' = surplus
  BY DEF Prune, FetchEnds
<1>3. t \in Nat /\ s \in Nat
  BY SetSizes
<1>4. t1 + s1 = t + s - 1 /\ t1 + s1 \in Nat
  <2>1. CASE n \in surplus /\ surplus' = surplus \ {n} /\ todo' = todo
    <3>1. s1 = s - 1 /\ IsFiniteSet(surplus')
      BY <2>1, SetSizes, FS_RemoveElement
    <3>2. s1 \in Nat /\ t1 = t
      BY <2>1, <3>1, FS_CardinalityType
    <3>3. QED
      BY <1>3, <3>1, <3>2
  <2>2. CASE n \in todo /\ todo' = todo \ {n} /\ surplus' = surplus
    <3>1. t1 = t - 1 /\ IsFiniteSet(todo')
      BY <2>2, SetSizes, FS_RemoveElement
    <3>2. t1 \in Nat /\ s1 = s
      BY <2>2, <3>1, FS_CardinalityType
    <3>3. QED
      BY <1>3, <3>1, <3>2
  <2>3. QED
    BY <1>2, <2>1, <2>2
<1>5. \/ StepsLeft = 4 + (t + s) + Cardinality(Packs)
         /\ StepsLeft' = 4 + (t1 + s1) + Cardinality(Packs)
      \/ StepsLeft = 2 + (t + s) /\ StepsLeft' = 2 + (t1 + s1)
  BY <1>1, StepsAre, StepsAreNext
<1> HIDE DEF t, s, t1, s1
<1>6. QED
  BY <1>3, <1>4, <1>5, Sizes DEF Counts

LEMMA EndCounts == ASSUME IInv, ModsDone \/ PacksDone \/ Launch PROVE Counts
<1>1. \/ pc = "mods" /\ pc' \in {"idle", "modsDone"}
      \/ pc = "packs" /\ pc' = "synced"
      \/ pc = "synced" /\ pc' = "idle"
  BY Apart DEF ModsDone, PacksDone, DirDone, Over, GoesOn, Launch
<1>2. QED
  BY <1>1, StepsAre, StepsAreNext, Sizes, SetSizes DEF Counts

(* No step of a sync gives it more to do, for however many names: it takes  *)
(* at most five steps and one for each name.                               *)
THEOREM SyncsAreBounded == Spec => EachStepCounts
<1>1. IInv /\ IInv' /\ [Next]_vars => [Syncs => Counts]_vars
  <2> SUFFICES ASSUME IInv, IInv', Syncs PROVE Counts
    OBVIOUS
  <2>1. QED
    BY PlanCounts, FileCounts, EndCounts DEF Syncs
<1>2. [Syncs => Counts]_vars => [Syncs => StepsLeft' \in 0..(StepsLeft - 1)]_vars
  BY DEF Counts
<1>3. QED
  BY <1>1, <1>2, Invariance, PTL DEF Spec, EachStepCounts
=============================================================================
