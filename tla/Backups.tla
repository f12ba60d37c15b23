------------------------------ MODULE Backups ------------------------------
(***************************************************************************)
(* The backups of one server: runtime/backup.py and the routes of          *)
(* web/detail_routes.py that call it.  Archives, snapshots and restores    *)
(* are synchronous: they hold the event loop, and only the container, which*)
(* writes the same directory, runs beside them.  A restore awaits the stop *)
(* of the container first, and a mod install awaits its downloads.         *)
(***************************************************************************)
EXTENDS Naturals, FiniteSets

CONSTANTS
  Requests,    \* request slots
  Keep,        \* SAFETY_KEEP
  MaxVersion,  \* bound: states of the world told apart
  MaxClock,    \* bound: seconds told apart in archive names
  MaxUser,     \* bound: archives an operator keeps at once
  MaxCrashes,  \* bound: times the manager's process dies
  Torn,        \* a world that is empty, half written or half extracted
  Partial,     \* an archive that was not written to its end
  None         \* no directory, no archive, no name

ASSUME BackupsAssumption ==
  /\ Keep \in Nat \ {0} /\ MaxVersion \in Nat \ {0} /\ MaxClock \in Nat
  /\ MaxUser \in Nat /\ MaxCrashes \in Nat
  /\ {Torn, Partial, None} \cap Nat = {}
  /\ Torn # None /\ Partial # None /\ Torn # Partial

Versions == 1..MaxVersion

(* "<stamp>", "auto-pre_install-<stamp>" and "auto-pre_restore-<stamp>". *)
Names == [kind : {"user", "pre_install", "pre_restore"}, stamp : 0..MaxClock]

VARIABLES
  world,     \* the content of data_dir
  newest,    \* the last version of the world there has been
  archives,  \* what each archive name holds
  now,       \* the clock, in seconds
  up,        \* whether the container runs
  running,   \* whether the row's status is "running"
  req,       \* what each request slot does: [pc, name]
  crashes    \* times the process has died

vars == <<world, newest, archives, now, up, running, req, crashes>>

Idle == [pc |-> "idle", name |-> None]

Pcs == {"idle", "starting", "started", "stopping", "stopped", "restarting",
        "quiescing", "quiesced", "downloading", "writing"}

Init ==
  /\ world = 1 /\ newest = 1
  /\ archives = [n \in Names |-> None]
  /\ now = 0
  /\ up = FALSE /\ running = FALSE
  /\ req = [r \in Requests |-> Idle]
  /\ crashes = 0

-----------------------------------------------------------------------------
IsSafety(n) == n.kind # "user"

(* Mutant: the list is sorted by name, and nobody reverses it. *)
ListedBefore_BUG(m, n) ==
  \/ m.kind = n.kind /\ m.stamp < n.stamp
  \/ m.kind = "pre_install" /\ n.kind = "pre_restore"

(* sorted(iterdir(), reverse=True), among the safety snapshots: by name. *)
ListedBefore(m, n) ==
  \/ m.kind = n.kind /\ m.stamp > n.stamp
  \/ m.kind = "pre_restore" /\ n.kind = "pre_install"

(* Mutant: rotation counts and prunes the operator's own archives as well. *)
Trimmed_BUG(files) ==
  LET newer(n) == {m \in Names : files[m] # None /\ m.stamp > n.stamp}
  IN  [n \in Names |-> IF Cardinality(newer(n)) >= Keep THEN None ELSE files[n]]

(* _trim_safety: the first Keep of the list stay. *)
Trimmed(files) ==
  LET before(n) == {m \in Names : IsSafety(m) /\ files[m] # None /\ ListedBefore(m, n)}
  IN  [n \in Names |-> IF IsSafety(n) /\ Cardinality(before(n)) >= Keep
                       THEN None ELSE files[n]]

(* What tar reads: the directory may change under it while the container   *)
(* runs or an install writes.                                              *)
Readable ==
  IF up \/ \E r \in Requests : req[r].pc = "writing" THEN {world, Torn} ELSE {world}

Stamped(kind) == [kind |-> kind, stamp |-> now]

(* tar fails, or the process dies in it: a file with a valid name is left. *)
CutShort(kind) == [archives EXCEPT ![Stamped(kind)] = Partial]

(* create_safety, as a relation to the archives it leaves. *)
Snapshot(kind, files) ==
  IF world = None THEN files = archives
  ELSE \E w \in Readable : files = Trimmed([archives EXCEPT ![Stamped(kind)] = w])

(* A restore unlinks the file that an install is writing: what else the     *)
(* install writes is nowhere.                                              *)
Orphaned(q) == IF req[q].pc = "writing" THEN Idle ELSE req[q]

(* Mutant: the snapshot is taken once the world is replaced. *)
Restore_BUG(r, name) ==
  /\ world' \in {archives[name], Torn}
  /\ archives' = [archives EXCEPT ![Stamped("pre_restore")] = world']
  /\ req' = [req EXCEPT ![r] = Idle]

(* Mutant: a truncated archive is taken for a whole one. *)
Restore_Blind(r, name) ==
  /\ Snapshot("pre_restore", archives')
  /\ world' = archives'[name]
  /\ req' = [req EXCEPT ![r] = Idle]

(* The synchronous part of backups_restore: snapshot, wipe, extract.       *)
Restore(r, name) ==
  \/ /\ archives' = CutShort("pre_restore") /\ world # None
     /\ req' = [req EXCEPT ![r] = Idle]
     /\ UNCHANGED world
  \/ /\ Snapshot("pre_restore", archives')
     /\ archives'[name] = None
     /\ req' = [req EXCEPT ![r] = Idle]
     /\ UNCHANGED world
  \/ /\ Snapshot("pre_restore", archives')
     /\ archives'[name] # None
     /\ world' \in IF archives'[name] = Partial THEN {Torn} ELSE {archives'[name], Torn}
     /\ req' = [q \in Requests |-> IF q = r THEN Idle ELSE Orphaned(q)]

-----------------------------------------------------------------------------
(* A request that will await something.  Bound: once the process has died,  *)
(* such requests come one at a time.                                       *)
Arrives(r) ==
  /\ req[r] = Idle
  /\ crashes > 0 => \A q \in Requests : req[q] = Idle

(* The container and the file editor: the world moves on. *)
Change ==
  /\ world \in Versions /\ newest < MaxVersion
  /\ newest' = newest + 1 /\ world' = newest'
  /\ UNCHANGED <<archives, now, up, running, req, crashes>>

Tick ==
  /\ now < MaxClock /\ now' = now + 1
  /\ UNCHANGED <<world, newest, archives, up, running, req, crashes>>

(* backups_create: one archive of the directory, named by the second. *)
Create ==
  /\ world # None /\ \E r \in Requests : req[r] = Idle
  /\ Cardinality({n \in Names : ~ IsSafety(n) /\ archives[n] # None}) < MaxUser
  /\ \/ \E w \in Readable : archives' = [archives EXCEPT ![Stamped("user")] = w]
     \/ archives' = CutShort("user")
  /\ UNCHANGED <<world, newest, now, up, running, req, crashes>>

Delete(n) ==
  /\ archives[n] # None /\ \E r \in Requests : req[r] = Idle
  /\ archives' = [archives EXCEPT ![n] = None]
  /\ UNCHANGED <<world, newest, now, up, running, req, crashes>>

(* backups_restore of an archive that a page listed: it may be gone by now, *)
(* and that shows only after the stop and the snapshot.                    *)
RestoreBegin(r) ==
  /\ Arrives(r)
  /\ \E n \in Names :
       \/ /\ running
          /\ running' = FALSE
          /\ req' = [req EXCEPT ![r] = [pc |-> "quiescing", name |-> n]]
          /\ UNCHANGED <<world, archives>>
       \/ /\ ~ running
          /\ Restore(r, n)
          /\ UNCHANGED running
  /\ UNCHANGED <<newest, now, up, crashes>>

RestoreRuns(r) ==
  /\ req[r].pc = "quiesced"
  /\ running' = FALSE
  /\ Restore(r, req[r].name)
  /\ UNCHANGED <<newest, now, up, crashes>>

-----------------------------------------------------------------------------
(* lifecycle's start, stop and restart, as far as backups see them: start  *)
(* and stop take the status off "running", restart leaves it alone.        *)
PowerBegin(r) ==
  /\ Arrives(r)
  /\ \E pc \in {"starting", "stopping", "restarting"} :
       /\ req' = [req EXCEPT ![r].pc = pc]
       /\ running' = (running /\ pc = "restarting")
  /\ UNCHANGED <<world, newest, archives, now, up, crashes>>

DockerDoes(r, from, on, to) ==
  /\ req[r].pc = from
  /\ up' = on
  /\ req' = [req EXCEPT ![r].pc = to]
  /\ UNCHANGED <<world, newest, archives, now, running, crashes>>

Starts(r)   == DockerDoes(r, "starting", TRUE, "started")
Stops(r)    == DockerDoes(r, "stopping", FALSE, "stopped")
Restarts(r) == DockerDoes(r, "restarting", TRUE, "idle")
Quiesces(r) == DockerDoes(r, "quiescing", FALSE, "quiesced")

(* A restart can fail between its stop and its start. *)
DockerFails(r) ==
  /\ req[r].pc \in {"starting", "stopping", "restarting", "quiescing"}
  /\ req' = [req EXCEPT ![r] = Idle]
  /\ up' \in IF req[r].pc = "restarting" THEN {up, FALSE} ELSE {up}
  /\ UNCHANGED <<world, newest, archives, now, running, crashes>>

PowerDone(r) ==
  /\ req[r].pc \in {"started", "stopped"}
  /\ running' = (req[r].pc = "started")
  /\ req' = [req EXCEPT ![r] = Idle]
  /\ UNCHANGED <<world, newest, archives, now, up, crashes>>

-----------------------------------------------------------------------------
(* mods_install, once it has a version: snapshot, download into place. *)
InstallSnapshots(r) ==
  /\ Arrives(r)
  /\ \/ /\ Snapshot("pre_install", archives')
        /\ req' = [req EXCEPT ![r].pc = "downloading"]
     \/ /\ world # None
        /\ archives' = CutShort("pre_install")
        /\ req' = [req EXCEPT ![r] = Idle]
  /\ UNCHANGED <<world, newest, now, up, running, crashes>>

(* The target is opened for writing, and what it held is gone: the world is *)
(* torn until the last install that writes into it ends.                   *)
InstallOpens(r) ==
  /\ req[r].pc = "downloading"
  /\ world' = Torn
  /\ req' = [req EXCEPT ![r].pc = "writing"]
  /\ UNCHANGED <<newest, archives, now, up, running, crashes>>

InstallEnds(r) ==
  /\ req[r].pc = "writing" /\ newest < MaxVersion
  /\ newest' = newest + 1
  /\ world' = IF \E q \in Requests \ {r} : req[q].pc = "writing" THEN world ELSE newest'
  /\ req' = [req EXCEPT ![r] = Idle]
  /\ UNCHANGED <<archives, now, up, running, crashes>>

(* An upstream error, a broken stream or a wrong checksum. *)
InstallStops(r) ==
  /\ req[r].pc \in {"downloading", "writing"}
  /\ req' = [req EXCEPT ![r] = Idle]
  /\ UNCHANGED <<world, newest, archives, now, up, running, crashes>>

-----------------------------------------------------------------------------
(* The process dies, possibly inside a synchronous stretch: while a        *)
(* snapshot is written, before the trim, or between wipe and extract.      *)
Crash ==
  /\ crashes < MaxCrashes /\ crashes' = crashes + 1
  /\ \/ UNCHANGED <<world, archives>>
     \/ /\ world # None /\ UNCHANGED world
        /\ \E kind \in {"pre_install", "pre_restore"}, w \in Readable \cup {Partial} :
             archives' = [archives EXCEPT ![Stamped(kind)] = w]
     \/ /\ Snapshot("pre_restore", archives')
        /\ \E n \in Names : archives'[n] # None
        /\ world' \in {Torn, None}
  /\ req' = [r \in Requests |-> Idle]
  /\ UNCHANGED <<newest, now, up, running>>

Next ==
  \/ Change \/ Tick \/ Create
  \/ \E n \in Names : Delete(n)
  \/ \E r \in Requests :
       \/ RestoreBegin(r) \/ RestoreRuns(r) \/ Quiesces(r)
       \/ PowerBegin(r) \/ Starts(r) \/ Stops(r) \/ Restarts(r) \/ PowerDone(r)
       \/ DockerFails(r)
       \/ InstallSnapshots(r) \/ InstallOpens(r)
       \/ InstallEnds(r) \/ InstallStops(r)
  \/ Crash

Spec == Init /\ [][Next]_vars

-----------------------------------------------------------------------------
(* Properties *)

(* The types that the comments at the variables say. *)
TypeOK ==
  /\ world \in Versions \cup {Torn, None}
  /\ newest \in Versions
  /\ archives \in [Names -> Versions \cup {Torn, Partial, None}]
  /\ now \in 0..MaxClock
  /\ up \in BOOLEAN
  /\ running \in BOOLEAN
  /\ req \in [Requests -> [pc : Pcs, name : Names \cup {None}]]
  /\ crashes \in 0..MaxCrashes

(* A restore is reversible: whatever it finds (a truncated archive, an     *)
(* archive its own rotation removes, a process that dies half way), the    *)
(* quiet world it replaces is in an archive once the step is over.         *)
WipedIsKept ==
  [][(world \in Versions /\ ~ up /\ newest' = newest /\ world' # world
      /\ \A r \in Requests : ~ InstallOpens(r))
        => \E n \in Names : archives'[n] = world]_vars

(* Rotation, restores and installs leave an operator's archive alone: it   *)
(* changes when it is deleted, or when one is made in the same second.     *)
UserBackupsStay ==
  [][\A n \in Names :
       n.kind = "user" /\ archives[n] # None /\ archives'[n] # archives[n]
         => n.stamp = now \/ Delete(n)]_vars

(* mods_install snapshots the world because a failed install "would        *)
(* otherwise leave no recovery path", and rotation keeps the "most recent  *)
(* safety snapshots": the one just taken of a quiet world is there when    *)
(* the download begins.                                                    *)
InstallHasWayBack ==
  [][\A r \in Requests :
       InstallSnapshots(r) /\ req'[r].pc = "downloading" /\ world \in Versions /\ ~ up
         => \E n \in Names : archives'[n] = world]_vars

(* Where the way back of an install does hold.  The list that the rotation *)
(* cuts has the snapshots of restores first: as long as fewer than Keep of *)
(* them are there, the snapshot of a quiet world that an install has just  *)
(* taken survives, whatever snapshots earlier installs have left.          *)
RoomForInstalls ==
  Cardinality({n \in Names : n.kind = "pre_restore" /\ archives[n] # None}) < Keep

WayBackWithRoom ==
  [][\A r \in Requests :
       (req[r].pc # "downloading" /\ req'[r].pc = "downloading"
        /\ InstallSnapshots(r) /\ world \in Versions /\ ~ up /\ RoomForInstalls)
         => \E n \in Names : archives'[n] = world]_vars

(* backup.restore: "Caller is expected to have stopped the server."        *)
RestoreIsQuiet ==
  [][\A r \in Requests :
       (RestoreBegin(r) \/ RestoreRuns(r)) /\ world' # world => ~ up]_vars
=============================================================================
