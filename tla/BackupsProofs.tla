--------------------------- MODULE BackupsProofs ---------------------------
(***************************************************************************)
(* Theorems of Backups, for any number of requests, archives and crashes,  *)
(* and any Keep.                                                           *)
(*                                                                         *)
(* That what a restore wipes is kept rests on two facts about every        *)
(* reachable state: no archive is from the future (Past), so that nothing  *)
(* is listed before the snapshot that the restore has just taken, and the  *)
(* rotation spares it; and a world that an install is writing into is torn *)
(* (Tears), so that tar reads a quiet world as it is.                      *)
(***************************************************************************)
EXTENDS Backups, FiniteSetTheorems, TLAPS

Past  == \A n \in Names : archives[n] # None => n.stamp <= now

Tears == \A r \in Requests : req[r].pc = "writing" => world = Torn

Named == \A r \in Requests : req[r].pc \in {"quiescing", "quiesced"} => req[r].name \in Names

IInv == TypeOK /\ Past /\ Tears /\ Named

-----------------------------------------------------------------------------
Held  == Versions \cup {Torn, Partial, None}
Slot  == [pc : Pcs, name : Names \cup {None}]

LEMMA Marks ==
  /\ Torn # None /\ Partial # None /\ Torn # Partial
  /\ \A v \in Versions : v \in Nat /\ v # Torn /\ v # Partial /\ v # None
  /\ Keep \in Nat /\ Keep > 0 /\ MaxClock \in Nat
BY BackupsAssumption DEF BackupsAssumption, Versions

LEMMA NameFacts ==
  ASSUME TypeOK, NEW kind \in {"user", "pre_install", "pre_restore"}
  PROVE  /\ Stamped(kind) \in Names
         /\ Stamped(kind).kind = kind /\ Stamped(kind).stamp = now
         /\ \A n \in Names : n.kind = kind /\ n.stamp = now => n = Stamped(kind)
BY DEF TypeOK, Names, Stamped

LEMMA IdleFacts == Idle \in Slot /\ Idle.pc = "idle"
BY DEF Idle, Slot, Pcs

LEMMA ReqFacts ==
  ASSUME TypeOK
  PROVE  req \in [Requests -> Slot]
BY DEF TypeOK, Slot

(* _trim_safety removes archives, and no operator's. *)
LEMMA TrimmedFacts ==
  ASSUME NEW files \in [Names -> Held]
  PROVE  /\ Trimmed(files) \in [Names -> Held]
         /\ \A n \in Names : Trimmed(files)[n] \in {files[n], None}
         /\ \A n \in Names : n.kind = "user" => Trimmed(files)[n] = files[n]
BY DEF Trimmed, IsSafety, Held

(* What a snapshot of this kind, cut short or not, does to the archives.   *)
Takes(kind) ==
  \/ archives' = CutShort(kind)
  \/ Snapshot(kind, archives')
  \/ \E w \in Readable \cup {Partial} : archives' = [archives EXCEPT ![Stamped(kind)] = w]

LEMMA TakesFacts ==
  ASSUME IInv, NEW kind \in {"user", "pre_install", "pre_restore"}, Takes(kind)
  PROVE  /\ archives' \in [Names -> Held]
         /\ \A n \in Names : archives'[n] # None => n.stamp <= now
         /\ \A n \in Names \ {Stamped(kind)} : n.kind = "user" => archives'[n] = archives[n]
<1> USE Marks DEF IInv
<1>1. archives \in [Names -> Held] /\ world \in Held /\ now \in Nat
  BY DEF TypeOK, Held
<1>0. Readable \subseteq Held
  BY <1>1 DEF Readable, Held
<1>2. ASSUME NEW w \in Held,
             NEW files, files = [archives EXCEPT ![Stamped(kind)] = w]
      PROVE  /\ files \in [Names -> Held]
             /\ \A n \in Names : files[n] # None => n.stamp <= now
             /\ \A n \in Names \ {Stamped(kind)} : files[n] = archives[n]
  <2>1. files \in [Names -> Held] /\ \A n \in Names \ {Stamped(kind)} : files[n] = archives[n]
    BY <1>1, <1>2
  <2>2. Stamped(kind).stamp <= now
    BY <1>1, NameFacts
  <2>3. QED
    BY <2>1, <2>2 DEF Past
<1>3. CASE archives' = CutShort(kind)
  BY <1>2, <1>3 DEF CutShort, Held
<1>4. CASE \E w \in Readable \cup {Partial} : archives' = [archives EXCEPT ![Stamped(kind)] = w]
  BY <1>0, <1>1, <1>2, <1>4 DEF Held
<1>5. CASE Snapshot(kind, archives')
  <2>1. CASE world = None
    BY <1>1, <1>5, <2>1 DEF Snapshot, Past
  <2>2. CASE world # None
    <3>1. PICK w \in Readable : archives' = Trimmed([archives EXCEPT ![Stamped(kind)] = w])
      BY <1>5, <2>2 DEF Snapshot
    <3> DEFINE files == [archives EXCEPT ![Stamped(kind)] = w]
    <3>2. /\ files \in [Names -> Held]
          /\ \A n \in Names : files[n] # None => n.stamp <= now
          /\ \A n \in Names \ {Stamped(kind)} : files[n] = archives[n]
      BY <1>0, <1>2
    <3> HIDE DEF files
    <3>3. QED
      BY <3>1, <3>2, TrimmedFacts DEF files
  <2>3. QED
    BY <2>1, <2>2
<1>6. QED
  BY <1>3, <1>4, <1>5 DEF Takes

(* The snapshot that a restore takes of a quiet world is there when it is  *)
(* done: nothing is listed before it.                                      *)
LEMMA SnapshotKeeps ==
  ASSUME IInv, world \in Versions, ~ up, Snapshot("pre_restore", archives')
  PROVE  \E n \in Names : archives'[n] = world
<1> USE Marks DEF IInv
<1> DEFINE s == Stamped("pre_restore")
           files == [archives EXCEPT ![s] = world]
           before == {m \in Names : IsSafety(m) /\ files[m] # None /\ ListedBefore(m, s)}
<1>1. Readable = {world}
  BY DEF Readable, Tears
<1>2. archives' = Trimmed(files)
  BY <1>1 DEF Snapshot
<1>3. s \in Names /\ s.kind = "pre_restore" /\ s.stamp = now /\ now \in Nat
  BY NameFacts DEF TypeOK
<1>4. archives \in [Names -> Held] /\ world \in Held
  BY DEF TypeOK, Held
<1> HIDE DEF s
<1>5. before = {}
  <2> SUFFICES ASSUME NEW m \in Names, files[m] # None, ListedBefore(m, s) PROVE FALSE
    OBVIOUS
  <2>1. m.stamp > now /\ m # s /\ m.stamp \in Nat
    BY <1>3 DEF ListedBefore, Names
  <2>2. archives[m] # None
    BY <1>4, <2>1
  <2>3. QED
    BY <1>3, <2>1, <2>2 DEF Past
<1>6. Cardinality(before) = 0
  BY <1>5, FS_EmptySet
<1>7. Trimmed(files)[s] = files[s]
  BY <1>3, <1>6 DEF Trimmed
<1>8. files[s] = world
  BY <1>3, <1>4
<1>9. QED
  BY <1>2, <1>3, <1>7, <1>8

(* The archives of one kind are as many as the seconds there have been, at  *)
(* most.                                                                   *)
LEMMA OfOneKind ==
  ASSUME NEW kind
  PROVE  IsFiniteSet({n \in Names : n.kind = kind})
<1> DEFINE S == {n \in Names : n.kind = kind}
           stamp == [n \in S |-> n.stamp]
<1>1. stamp \in Injection(S, 0..MaxClock)
  <2>1. stamp \in [S -> 0..MaxClock]
    BY DEF Names
  <2>2. ASSUME NEW m \in S, NEW n \in S, stamp[m] = stamp[n] PROVE m = n
    <3>1. m \in Names /\ n \in Names /\ m.kind = n.kind /\ m.stamp = n.stamp
      BY <2>2
    <3>2. QED
      BY <3>1 DEF Names
  <2>3. QED
    BY <2>1, <2>2 DEF Injection, IsInjective
<1>2. IsFiniteSet(0..MaxClock)
  BY FS_Interval, Marks
<1>3. QED
  BY <1>1, <1>2, FS_Injection

(* With fewer than Keep snapshots of restores, the snapshot of an install   *)
(* survives its own rotation: only those are listed before it.             *)
LEMMA RoomKeeps ==
  ASSUME IInv, world \in Versions, ~ up, RoomForInstalls,
         Snapshot("pre_install", archives')
  PROVE  \E n \in Names : archives'[n] = world
<1> USE Marks DEF IInv
<1> DEFINE s == Stamped("pre_install")
           files == [archives EXCEPT ![s] = world]
           before == {m \in Names : IsSafety(m) /\ files[m] # None /\ ListedBefore(m, s)}
           restores == {n \in Names : n.kind = "pre_restore" /\ archives[n] # None}
<1>1. Readable = {world}
  BY DEF Readable, Tears
<1>2. archives' = Trimmed(files)
  BY <1>1 DEF Snapshot
<1>3. s \in Names /\ s.kind = "pre_install" /\ s.stamp = now /\ now \in Nat
  BY NameFacts DEF TypeOK
<1>4. archives \in [Names -> Held] /\ world \in Held
  BY DEF TypeOK, Held
<1> HIDE DEF s
<1>5. before \subseteq restores
  <2> SUFFICES ASSUME NEW m \in Names, files[m] # None, ListedBefore(m, s)
               PROVE  m.kind = "pre_restore" /\ archives[m] # None
    OBVIOUS
  <2>1. m # s
    BY <1>3 DEF ListedBefore
  <2>2. archives[m] # None
    BY <1>4, <2>1
  <2>3. m.kind # s.kind
    <3> SUFFICES ASSUME m.kind = s.kind PROVE FALSE
      OBVIOUS
    <3>1. m.stamp > now /\ m.stamp \in Nat
      BY <1>3 DEF ListedBefore, Names
    <3>2. QED
      BY <1>3, <2>2, <3>1 DEF Past
  <2>4. QED
    BY <1>3, <2>2, <2>3 DEF ListedBefore
<1>6. IsFiniteSet(restores)
  <2> DEFINE all == {n \in Names : n.kind = "pre_restore"}
  <2>1. IsFiniteSet(all)
    BY OfOneKind
  <2>2. restores \in SUBSET all
    OBVIOUS
  <2> HIDE DEF all, restores
  <2>3. QED
    BY <2>1, <2>2, FS_Subset
<1>7. Cardinality(before) < Keep
  <2>1. Cardinality(before) \in Nat /\ Cardinality(restores) \in Nat
    BY <1>5, <1>6, FS_Subset, FS_CardinalityType
  <2>2. Cardinality(before) <= Cardinality(restores)
    BY <1>5, <1>6, FS_Subset
  <2>3. Cardinality(restores) < Keep
    BY DEF RoomForInstalls
  <2>4. QED
    BY <2>1, <2>2, <2>3
<1>8. Trimmed(files)[s] = files[s]
  <2>1. Cardinality(before) \in Nat
    BY <1>5, <1>6, FS_Subset, FS_CardinalityType
  <2>2. QED
    BY <1>3, <1>7, <2>1 DEF Trimmed
<1>9. files[s] = world
  BY <1>3, <1>4
<1>10. QED
  BY <1>2, <1>3, <1>8, <1>9

LEMMA SlotMoves ==
  ASSUME NEW x \in Slot, NEW pc \in Pcs
  PROVE  [x EXCEPT !.pc = pc] = [pc |-> pc, name |-> x.name]
BY DEF Slot

(* One request moves on.                                                   *)
LEMMA ReqMoves ==
  ASSUME IInv, NEW r \in Requests, NEW s \in Slot,
         req' = [req EXCEPT ![r] = s],
         s.pc \in {"quiescing", "quiesced"} => s.name \in Names,
         s.pc = "writing" => world' = Torn,
         world' = world \/ (\A q \in Requests \ {r} : req[q].pc = "writing" => world' = Torn)
  PROVE  req' \in [Requests -> Slot] /\ Tears' /\ Named'
<1>1. req' \in [Requests -> Slot]
  BY ReqFacts DEF IInv
<1>2. req'[r] = s /\ \A q \in Requests \ {r} : req'[q] = req[q]
  BY ReqFacts DEF IInv
<1>3. Tears'
  BY <1>2 DEF Tears, IInv
<1>4. Named'
  BY <1>2 DEF Named, IInv
<1>5. QED
  BY <1>1, <1>3, <1>4

(* The snapshot, the wipe and the extraction of a restore.                 *)
LEMMA RestoreFacts ==
  ASSUME IInv, NEW r \in Requests, NEW name \in Names, Restore(r, name)
  PROVE  /\ archives' \in [Names -> Held]
         /\ \A n \in Names : archives'[n] # None => n.stamp <= now
         /\ world' \in Versions \cup {Torn, None}
         /\ req' \in [Requests -> Slot] /\ Tears' /\ Named'
<1>1. Takes("pre_restore")
  BY DEF Restore, Takes
<1>2. /\ archives' \in [Names -> Held]
      /\ \A n \in Names : archives'[n] # None => n.stamp <= now
  BY <1>1, TakesFacts
<1>3. ASSUME req' = [req EXCEPT ![r] = Idle], UNCHANGED world
      PROVE  world' \in Versions \cup {Torn, None} /\ req' \in [Requests -> Slot] /\ Tears' /\ Named'
  <2>1. req' \in [Requests -> Slot] /\ Tears' /\ Named'
    BY <1>3, IdleFacts, ReqMoves
  <2>2. QED
    BY <1>3, <2>1 DEF IInv, TypeOK
<1>4. ASSUME archives'[name] # None,
             world' \in IF archives'[name] = Partial THEN {Torn} ELSE {archives'[name], Torn},
             req' = [q \in Requests |-> IF q = r THEN Idle ELSE Orphaned(q)]
      PROVE  world' \in Versions \cup {Torn, None} /\ req' \in [Requests -> Slot] /\ Tears' /\ Named'
  <2>1. world' \in Versions \cup {Torn, None}
    BY <1>2, <1>4 DEF Held
  <2>2. \A q \in Requests : req'[q] \in {Idle, req[q]} /\ req'[q].pc # "writing"
    BY <1>4, IdleFacts DEF Orphaned
  <2>3. req' \in [Requests -> Slot]
    <3>1. \A q \in Requests : Orphaned(q) \in Slot
      BY IdleFacts, ReqFacts DEF Orphaned, IInv
    <3>2. QED
      BY <1>4, <3>1, IdleFacts
  <2>4. Tears' /\ Named'
    BY <2>2, IdleFacts DEF Tears, Named, IInv
  <2>5. QED
    BY <2>1, <2>3, <2>4
<1>5. QED
  BY <1>2, <1>3, <1>4 DEF Restore

LEMMA InitIInv == Init => IInv
<1> SUFFICES ASSUME Init PROVE IInv
  OBVIOUS
<1>1. req \in [Requests -> Slot] /\ \A r \in Requests : req[r].pc = "idle"
  BY IdleFacts DEF Init
<1>2. 1 \in Versions /\ 0 \in 0..MaxClock /\ 0 \in 0..MaxCrashes
  BY BackupsAssumption DEF BackupsAssumption, Versions
<1>3. TypeOK
  BY <1>1, <1>2 DEF Init, TypeOK, Slot
<1>4. Past /\ Tears /\ Named
  BY <1>1 DEF Init, Past, Tears, Named
<1>5. QED
  BY <1>3, <1>4 DEF IInv

-----------------------------------------------------------------------------
(* One lemma for each step, or for the steps that are alike.               *)

LEMMA ChangeKeeps == ASSUME IInv, Change PROVE IInv'
<1>1. TypeOK'
  BY BackupsAssumption DEF IInv, TypeOK, Change, Versions, BackupsAssumption
<1>2. \A r \in Requests : req[r].pc # "writing"
  BY Marks DEF IInv, Tears, Change
<1>3. Past' /\ Tears' /\ Named'
  BY <1>2 DEF IInv, Change, Past, Tears, Named
<1>4. QED
  BY <1>1, <1>3 DEF IInv

LEMMA TickKeeps == ASSUME IInv, Tick PROVE IInv'
<1>1. TypeOK'
  BY Marks DEF IInv, TypeOK, Tick
<1>2. Past'
  BY Marks DEF IInv, Past, Tick, Names, TypeOK
<1>3. Tears' /\ Named'
  BY DEF IInv, Tick, Tears, Named
<1>4. QED
  BY <1>1, <1>2, <1>3 DEF IInv

LEMMA CreateKeeps == ASSUME IInv, Create PROVE IInv'
<1>1. Takes("user")
  BY DEF Create, Takes
<1>2. /\ archives' \in [Names -> Held]
      /\ \A n \in Names : archives'[n] # None => n.stamp <= now
  BY <1>1, TakesFacts
<1>3. TypeOK'
  BY <1>2 DEF IInv, TypeOK, Create, Held
<1>4. Past' /\ Tears' /\ Named'
  BY <1>2 DEF IInv, Create, Past, Tears, Named
<1>5. QED
  BY <1>3, <1>4 DEF IInv

LEMMA DeleteKeeps == ASSUME IInv, NEW n \in Names, Delete(n) PROVE IInv'
<1>1. TypeOK'
  BY DEF IInv, TypeOK, Delete
<1>2. Past'
  BY DEF IInv, TypeOK, Past, Delete
<1>3. Tears' /\ Named'
  BY DEF IInv, Delete, Tears, Named
<1>4. QED
  BY <1>1, <1>2, <1>3 DEF IInv

LEMMA RestoreKeeps ==
  ASSUME IInv, NEW r \in Requests, NEW name \in Names, Restore(r, name),
         running' \in BOOLEAN, UNCHANGED <<newest, now, up, crashes>>
  PROVE  IInv'
<1>1. TypeOK'
  BY RestoreFacts DEF IInv, TypeOK, Held, Slot
<1>2. Past' /\ Tears' /\ Named'
  BY RestoreFacts DEF Past
<1>3. QED
  BY <1>1, <1>2 DEF IInv

LEMMA RestoreBeginKeeps == ASSUME IInv, NEW r \in Requests, RestoreBegin(r) PROVE IInv'
<1>1. PICK n \in Names :
        \/ /\ running
           /\ running' = FALSE
           /\ req' = [req EXCEPT ![r] = [pc |-> "quiescing", name |-> n]]
           /\ UNCHANGED <<world, archives>>
        \/ /\ ~ running
           /\ Restore(r, n)
           /\ UNCHANGED running
  BY DEF RestoreBegin
<1>2. UNCHANGED <<newest, now, up, crashes>>
  BY DEF RestoreBegin
<1>3. CASE ~ running /\ Restore(r, n) /\ UNCHANGED running
  <2>1. running' \in BOOLEAN
    BY <1>3 DEF IInv, TypeOK
  <2>2. QED
    BY <1>2, <1>3, <2>1, RestoreKeeps
<1>4. CASE /\ running' = FALSE
           /\ req' = [req EXCEPT ![r] = [pc |-> "quiescing", name |-> n]]
           /\ UNCHANGED <<world, archives>>
  <2> DEFINE s == [pc |-> "quiescing", name |-> n]
  <2>1. s \in Slot /\ s.name \in Names /\ s.pc = "quiescing"
    BY DEF Slot, Pcs
  <2> HIDE DEF s
  <2>2. req' = [req EXCEPT ![r] = s]
    BY <1>4 DEF s
  <2>3. req' \in [Requests -> Slot] /\ Tears' /\ Named'
    BY <1>4, <2>1, <2>2, ReqMoves
  <2>4. TypeOK' /\ Past'
    BY <1>2, <1>4, <2>3 DEF IInv, TypeOK, Slot, Past
  <2>5. QED
    BY <2>3, <2>4 DEF IInv
<1>5. QED
  BY <1>1, <1>3, <1>4

LEMMA RestoreRunsKeeps == ASSUME IInv, NEW r \in Requests, RestoreRuns(r) PROVE IInv'
<1>1. req[r].name \in Names
  BY DEF IInv, Named, RestoreRuns
<1>2. QED
  BY <1>1, RestoreKeeps DEF RestoreRuns

(* A request's step that leaves the world and the archives alone.          *)
LEMMA RequestKeeps ==
  ASSUME IInv, NEW r \in Requests, NEW pc \in Pcs \ {"quiescing", "writing"},
         \/ req' = [req EXCEPT ![r].pc = pc] /\ (pc = "quiesced" => req[r].pc = "quiescing")
         \/ req' = [req EXCEPT ![r] = Idle],
         up' \in BOOLEAN, running' \in BOOLEAN,
         UNCHANGED <<world, newest, archives, now, crashes>>
  PROVE  IInv'
<1>1. PICK s \in Slot : /\ req' = [req EXCEPT ![r] = s]
                        /\ s.pc \in {"quiescing", "quiesced"} => s.name \in Names
                        /\ s.pc # "writing"
  <2>1. CASE req' = [req EXCEPT ![r] = Idle]
    BY <2>1, IdleFacts
  <2>2. CASE req' = [req EXCEPT ![r].pc = pc] /\ (pc = "quiesced" => req[r].pc = "quiescing")
    <3> DEFINE s == [pc |-> pc, name |-> req[r].name]
    <3>1. s \in Slot /\ s.pc = pc /\ s.name = req[r].name
      BY ReqFacts DEF IInv, Slot
    <3>2. req' = [req EXCEPT ![r] = s]
      BY <2>2, ReqFacts, SlotMoves DEF IInv
    <3>3. s.pc \in {"quiescing", "quiesced"} => s.name \in Names
      BY <2>2, <3>1 DEF IInv, Named
    <3>4. QED
      BY <3>1, <3>2, <3>3
  <2>3. QED
    BY <2>1, <2>2
<1>2. req' \in [Requests -> Slot] /\ Tears' /\ Named'
  BY <1>1, ReqMoves
<1>3. TypeOK' /\ Past'
  BY <1>2 DEF IInv, TypeOK, Slot, Past
<1>4. QED
  BY <1>2, <1>3 DEF IInv

LEMMA PowerKeeps ==
  ASSUME IInv, NEW r \in Requests,
         PowerBegin(r) \/ Starts(r) \/ Stops(r) \/ Restarts(r) \/ Quiesces(r)
           \/ DockerFails(r) \/ PowerDone(r)
  PROVE  IInv'
<1>1. up \in BOOLEAN /\ running \in BOOLEAN
  BY DEF IInv, TypeOK
<1>2. CASE PowerBegin(r)
  <2>1. PICK pc \in {"starting", "stopping", "restarting"} :
          req' = [req EXCEPT ![r].pc = pc] /\ running' = (running /\ pc = "restarting")
    BY <1>2 DEF PowerBegin
  <2>2. running' \in BOOLEAN /\ up' \in BOOLEAN /\ UNCHANGED <<world, newest, archives, now, crashes>>
    BY <1>1, <1>2, <2>1 DEF PowerBegin
  <2>3. QED
    BY <2>1, <2>2, RequestKeeps DEF Pcs
<1>3. ASSUME NEW from, NEW on \in BOOLEAN, NEW to \in Pcs \ {"quiescing", "writing"},
             DockerDoes(r, from, on, to), to = "quiesced" => from = "quiescing"
      PROVE  IInv'
  BY <1>1, <1>3, RequestKeeps DEF DockerDoes
<1>4. CASE Starts(r)
  BY <1>3, <1>4 DEF Starts, Pcs
<1>5. CASE Stops(r)
  BY <1>3, <1>5 DEF Stops, Pcs
<1>6. CASE Restarts(r)
  BY <1>3, <1>6 DEF Restarts, Pcs
<1>7. CASE Quiesces(r)
  BY <1>3, <1>7 DEF Quiesces, Pcs
<1>8. "idle" \in Pcs \ {"quiescing", "writing"}
  BY DEF Pcs
<1>9. CASE DockerFails(r)
  <2>1. up' \in BOOLEAN /\ running' \in BOOLEAN
    BY <1>1, <1>9 DEF DockerFails
  <2>2. QED
    BY <1>8, <1>9, <2>1, RequestKeeps DEF DockerFails
<1>10. CASE PowerDone(r)
  <2>1. up' \in BOOLEAN /\ running' \in BOOLEAN
    BY <1>1, <1>10 DEF PowerDone
  <2>2. QED
    BY <1>8, <1>10, <2>1, RequestKeeps DEF PowerDone
<1>11. QED
  BY <1>2, <1>4, <1>5, <1>6, <1>7, <1>9, <1>10

LEMMA InstallSnapshotsKeeps == ASSUME IInv, NEW r \in Requests, InstallSnapshots(r) PROVE IInv'
<1>1. Takes("pre_install")
  BY DEF InstallSnapshots, Takes
<1>2. /\ archives' \in [Names -> Held]
      /\ \A n \in Names : archives'[n] # None => n.stamp <= now
  BY <1>1, TakesFacts
<1>3. PICK s \in {Idle, [pc |-> "downloading", name |-> None]} : req' = [req EXCEPT ![r] = s]
  BY ReqFacts DEF InstallSnapshots, Arrives, Idle, IInv
<1>4. s \in Slot /\ s.pc \in {"idle", "downloading"}
  BY <1>3 DEF Idle, Slot, Pcs
<1>5. req' \in [Requests -> Slot] /\ Tears' /\ Named'
  BY <1>3, <1>4, ReqMoves DEF InstallSnapshots
<1>6. TypeOK' /\ Past'
  BY <1>2, <1>5 DEF IInv, TypeOK, Past, Held, Slot, InstallSnapshots
<1>7. QED
  BY <1>5, <1>6 DEF IInv

LEMMA InstallOpensKeeps == ASSUME IInv, NEW r \in Requests, InstallOpens(r) PROVE IInv'
<1> DEFINE s == [pc |-> "writing", name |-> req[r].name]
<1>1. s \in Slot /\ s.pc = "writing"
  BY ReqFacts DEF IInv, Slot, Pcs
<1>2. req' = [req EXCEPT ![r] = s]
  BY ReqFacts, SlotMoves DEF InstallOpens, IInv, Pcs
<1> HIDE DEF s
<1>3. req' \in [Requests -> Slot] /\ Tears' /\ Named'
  BY <1>1, <1>2, ReqMoves DEF InstallOpens
<1>4. TypeOK' /\ Past'
  BY <1>3 DEF IInv, TypeOK, Past, Slot, InstallOpens
<1>5. QED
  BY <1>3, <1>4 DEF IInv

LEMMA InstallEndsKeeps == ASSUME IInv, NEW r \in Requests, InstallEnds(r) PROVE IInv'
<1>1. newest' \in Versions /\ world' \in Versions \cup {Torn, None}
  BY BackupsAssumption DEF IInv, TypeOK, InstallEnds, Versions, BackupsAssumption
<1>2. req' = [req EXCEPT ![r] = Idle]
      /\ (world' = world \/ \A q \in Requests \ {r} : req[q].pc # "writing")
  BY DEF InstallEnds
<1>3. req' \in [Requests -> Slot] /\ Tears' /\ Named'
  BY <1>2, IdleFacts, ReqMoves
<1>4. TypeOK' /\ Past'
  BY <1>1, <1>3 DEF IInv, TypeOK, Past, Slot, InstallEnds
<1>5. QED
  BY <1>3, <1>4 DEF IInv

LEMMA InstallStopsKeeps == ASSUME IInv, NEW r \in Requests, InstallStops(r) PROVE IInv'
<1>1. up' \in BOOLEAN /\ running' \in BOOLEAN /\ "idle" \in Pcs \ {"quiescing", "writing"}
  BY DEF InstallStops, IInv, TypeOK, Pcs
<1>2. QED
  BY <1>1, RequestKeeps DEF InstallStops

LEMMA CrashKeeps == ASSUME IInv, Crash PROVE IInv'
<1>1. req' \in [Requests -> Slot] /\ \A r \in Requests : req'[r].pc = "idle"
  BY IdleFacts DEF Crash
<1>2. UNCHANGED archives \/ \E kind \in {"pre_install", "pre_restore"} : Takes(kind)
  BY DEF Crash, Takes
<1>3. /\ archives' \in [Names -> Held]
      /\ \A n \in Names : archives'[n] # None => n.stamp <= now
  BY <1>2, TakesFacts DEF IInv, TypeOK, Past, Held
<1>4. world' \in Versions \cup {Torn, None}
  BY DEF Crash, IInv, TypeOK
<1>5. crashes' \in 0..MaxCrashes
  BY BackupsAssumption DEF Crash, IInv, TypeOK, BackupsAssumption
<1>6. TypeOK'
  BY <1>1, <1>3, <1>4, <1>5 DEF Crash, IInv, TypeOK, Held, Slot
<1>7. Past' /\ Tears' /\ Named'
  BY <1>1, <1>3 DEF Past, Tears, Named, Crash
<1>8. QED
  BY <1>6, <1>7 DEF IInv

LEMMA NextKeeps == IInv /\ [Next]_vars => IInv'
<1> SUFFICES ASSUME IInv, [Next]_vars PROVE IInv'
  OBVIOUS
<1>1. CASE UNCHANGED vars
  BY <1>1 DEF vars, IInv, TypeOK, Past, Tears, Named
<1>2. CASE Next
  BY <1>2, ChangeKeeps, TickKeeps, CreateKeeps, DeleteKeeps, RestoreBeginKeeps,
     RestoreRunsKeeps, PowerKeeps, InstallSnapshotsKeeps, InstallOpensKeeps,
     InstallEndsKeeps, InstallStopsKeeps, CrashKeeps DEF Next
<1>3. QED
  BY <1>1, <1>2

-----------------------------------------------------------------------------
(* The inductive invariant: archives are from the past, and a world that   *)
(* an install writes into is torn.                                         *)
THEOREM Invariance == Spec => []IInv
<1>1. QED
  BY InitIInv, NextKeeps, PTL DEF Spec

(* Every variable keeps its type.                                          *)
THEOREM TypeCorrect == Spec => []TypeOK
<1>1. IInv => TypeOK
  BY DEF IInv
<1>2. QED
  BY <1>1, Invariance, PTL

(* The only steps that replace a quiet world, apart from the install that  *)
(* writes into it, are restores and crashes.                               *)
LEMMA Replacing ==
  ASSUME IInv, Next, world \in Versions, newest' = newest, world' # world,
         \A r \in Requests : ~ InstallOpens(r)
  PROVE  Snapshot("pre_restore", archives')
<1>0. newest \in Nat
  BY Marks DEF IInv, TypeOK
<1>1. ~ Change /\ ~ Tick /\ ~ Create /\ \A n \in Names : ~ Delete(n)
  BY <1>0 DEF Change, Tick, Create, Delete
<1>2. \A r \in Requests :
        ~ (\/ Quiesces(r) \/ PowerBegin(r) \/ Starts(r) \/ Stops(r) \/ Restarts(r)
           \/ PowerDone(r) \/ DockerFails(r) \/ InstallSnapshots(r) \/ InstallStops(r))
  BY DEF Quiesces, PowerBegin, Starts, Stops, Restarts, PowerDone, DockerFails,
         DockerDoes, InstallSnapshots, InstallStops
<1>3. \A r \in Requests : ~ InstallEnds(r)
  BY <1>0 DEF InstallEnds
<1>4. ASSUME NEW r \in Requests, NEW name, Restore(r, name)
      PROVE  Snapshot("pre_restore", archives')
  BY <1>4 DEF Restore
<1>5. ASSUME NEW r \in Requests, RestoreBegin(r) \/ RestoreRuns(r)
      PROVE  Snapshot("pre_restore", archives')
  BY <1>4, <1>5 DEF RestoreBegin, RestoreRuns
<1>6. CASE Crash
  BY <1>6 DEF Crash
<1>7. QED
  BY <1>1, <1>2, <1>3, <1>5, <1>6 DEF Next

(* A restore is reversible: the quiet world it replaces is in an archive   *)
(* once the step is over, whatever the archive it restores holds and       *)
(* wherever the process dies.                                              *)
THEOREM RestoresAreReversible == Spec => WipedIsKept
<1> DEFINE Kept ==
      (world \in Versions /\ ~ up /\ newest' = newest /\ world' # world
       /\ \A r \in Requests : ~ InstallOpens(r))
         => \E n \in Names : archives'[n] = world
<1>1. IInv /\ [Next]_vars => [Kept]_vars
  BY Replacing, SnapshotKeeps
<1>2. QED
  BY <1>1, Invariance, PTL DEF Spec, WipedIsKept

(* Steps other than a deletion leave the archives an operator made alone,  *)
(* but for the one named by the present second.                            *)
LEMMA Sparing ==
  ASSUME IInv, Next, NEW n \in Names, n.kind = "user", ~ Delete(n), n.stamp # now
  PROVE  archives'[n] = archives[n]
<1>1. n \in Names \ {Stamped("user")}
  BY NameFacts DEF IInv
<1>2. ASSUME NEW kind \in {"pre_install", "pre_restore"}, Takes(kind)
      PROVE  archives'[n] = archives[n]
  <2>1. n # Stamped(kind)
    BY NameFacts DEF IInv
  <2>2. QED
    BY <1>2, <2>1, TakesFacts
<1>3. CASE Create
  BY <1>1, <1>3, TakesFacts DEF Create, Takes
<1>4. ASSUME NEW m \in Names, Delete(m)
      PROVE  archives'[n] = archives[n]
  BY <1>4 DEF Delete, IInv, TypeOK
<1>5. ASSUME NEW r \in Requests, NEW name, Restore(r, name)
      PROVE  archives'[n] = archives[n]
  <2>1. Takes("pre_restore")
    BY <1>5 DEF Restore, Takes
  <2>2. QED
    BY <1>2, <2>1
<1>6. ASSUME NEW r \in Requests, RestoreBegin(r) \/ RestoreRuns(r)
      PROVE  archives'[n] = archives[n]
  BY <1>5, <1>6 DEF RestoreBegin, RestoreRuns
<1>7. ASSUME NEW r \in Requests, InstallSnapshots(r)
      PROVE  archives'[n] = archives[n]
  <2>1. Takes("pre_install")
    BY <1>7 DEF InstallSnapshots, Takes
  <2>2. QED
    BY <1>2, <2>1
<1>8. CASE Crash
  <2>1. UNCHANGED archives \/ \E kind \in {"pre_install", "pre_restore"} : Takes(kind)
    BY <1>8 DEF Crash, Takes
  <2>2. QED
    BY <1>2, <2>1
<1>9. CASE Change \/ Tick
  BY <1>9 DEF Change, Tick
<1>10. ASSUME NEW r \in Requests,
              \/ Quiesces(r) \/ PowerBegin(r) \/ Starts(r) \/ Stops(r) \/ Restarts(r)
              \/ PowerDone(r) \/ DockerFails(r) \/ InstallOpens(r) \/ InstallEnds(r)
              \/ InstallStops(r)
       PROVE  archives'[n] = archives[n]
  BY <1>10 DEF Quiesces, PowerBegin, Starts, Stops, Restarts, PowerDone, DockerFails,
               DockerDoes, InstallOpens, InstallEnds, InstallStops
<1>11. QED
  BY <1>3, <1>4, <1>6, <1>7, <1>8, <1>9, <1>10 DEF Next

(* Rotation, restores and installs leave an operator's archive alone.      *)
THEOREM OperatorsKeepTheirs == Spec => UserBackupsStay
<1> DEFINE Stays ==
      \A n \in Names :
        n.kind = "user" /\ archives[n] # None /\ archives'[n] # archives[n]
          => n.stamp = now \/ Delete(n)
<1>1. IInv /\ [Next]_vars => [Stays]_vars
  BY Sparing
<1>2. QED
  BY <1>1, Invariance, PTL DEF Spec, UserBackupsStay

(* Where the way back of an install holds: as long as fewer than Keep       *)
(* snapshots of restores are there, the quiet world that an install is      *)
(* about to write into is in an archive when its download begins.          *)
THEOREM InstallsHaveAWayBack == Spec => WayBackWithRoom
<1> DEFINE Kept ==
      \A r \in Requests :
        (req[r].pc # "downloading" /\ req'[r].pc = "downloading"
         /\ InstallSnapshots(r) /\ world \in Versions /\ ~ up /\ RoomForInstalls)
          => \E n \in Names : archives'[n] = world
<1>1. ASSUME IInv, NEW r \in Requests, InstallSnapshots(r), req'[r].pc = "downloading"
      PROVE  Snapshot("pre_install", archives')
  <2>1. req' # [req EXCEPT ![r] = Idle]
    BY <1>1, IdleFacts, ReqFacts DEF IInv
  <2>2. QED
    BY <1>1, <2>1 DEF InstallSnapshots
<1>2. IInv /\ [Next]_vars => [Kept]_vars
  BY <1>1, RoomKeeps
<1>3. QED
  BY <1>2, Invariance, PTL DEF Spec, WayBackWithRoom
=============================================================================
