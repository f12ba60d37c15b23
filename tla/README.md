# Formal models of ndrchst

TLA+ models of the ndrchst server manager and of the client it serves to players, the TLC runs that
check them, and TLAPS proofs of the properties the runs check. Source paths are relative to the
repository; `runtime/`, `web/`, `store/`, `domain/` and `platforms/` are under `src/ndrchst/`, and
`app.py`, `sync.py`, `updater.py`, `launcher.py`, `tunnel.py`, `deeplink.py`, `settings.py`,
`modpack.py` and `online_auth.py` under `client/src/ndrchst_client/`.

    tlc -workers 2 -config <run>.cfg <MC module>      model-check one run
    tlapm <module>.tla                                check the proofs of one module

Contents: 1 the system, 2 the plan, 3 the modules, 4 the runs, 5 bounds, 6 fairness, 7 the proofs,
8 what is only model-checked, 9 assumptions, 10 what the models found, 11 what is not modelled.

## 1. The system

ndrchst runs Minecraft servers in docker containers on one box, publishes what players need through
an edge store (Cloudflare R2), and ships a desktop client that installs the mods of a server, opens a
tunnel to it and starts the game.

| Component | State it keeps | Operations | Talks to |
|---|---|---|---|
| Server manager (`runtime/lifecycle.py`, `runtime/docker.py`, `store/servers.py`, `runtime/ports.py`) | the `servers` table, data directories, containers | create, start, stop, restart, update_config, recreate_container, delete, regenerate_client | docker daemon (calls in worker threads), SQLite, platform installers |
| Client bundle (`runtime/client.py`) | `clients/<id>/`: client.zip, config.json, manifest.json, modpack.zip | build_bundle, remove_bundle | the manager, publishing |
| Backups (`runtime/backup.py`, routes of `web/detail_routes.py`) | archives of a data directory | create, delete, restore, create_safety, rotation; mods_install | the manager (status, stop), the container that writes the same directory |
| Edge publishing (`lifecycle.build_mods_index`, `runtime/publish.py`, `runtime/r2.py`, `scripts/r2_purge.py`) | mods-index.json, the objects at the edge | build the index, publish, purge | CurseForge, R2 |
| Client mod sync (`sync.py`, `modpack.py`) | the player's profile | fetch the index, plan, prune, fetch files | the edge, CurseForge's CDN |
| Self-update and releases (`updater.py`, `scripts/publish_client.py`) | binaries and latest.json in the bucket; the installed binary, `.new`, `.new.part` | publish; check, download, verify, swap, re-execute | the bucket; the windows of one machine share the files |
| Client application (`app.py`, `deeplink.py`, `settings.py`, `online_auth.py`) | client-config.json, instance.json, buttons | link, discovery, reload, Play, Update | other windows by localhost, threads by `root.after` |
| Launcher and tunnel (`launcher.py`, `tunnel.py`) | cloudflared processes and their ports | launch, Tunnel.start, stop | cloudflared, the game |
| Modpack install (`platforms/modpack.py`, `runtime/curseforge.py`, `runtime/jvm_installer.py`) | a server's `mods/` with its `.part` files, run.sh, the list of missing mods | resolve the pack, fetch the zip, run the loader's installer, download every entry in parallel | CurseForge, the CDN, a container for the installer; `create` decides what becomes of an error |
| Mods and plugins of a server (`domain/plugins.py`, `runtime/installer.py`, routes of `web/detail_routes.py`) | `plugins/` and `mods/`: jars, `.disabled`, `.upload` | toggle, remove, upload and update a plugin, install from the marketplace | the server's JVM, which loads the same directory when it boots |
| Other platforms, domain helpers, RCON, pages, worker, tooling | little or none of their own | see section 11 | |

What makes it hard, component by component, and what would make it correct:

* **Server manager.** Every request runs on one asyncio loop and no lock is held across an `await`;
  creates, rebuilds and deletes of one server interleave at each of them, docker fails at any call, and
  the process may die between two writes. Correct means: ids are never reused or resurrected, a world is
  never lost to a failure path, no handler touches another server's container, ports are checked, and a
  failed rebuild can be mended.
* **Backups.** The manager is synchronous here, but the container writes the same directory, a restore
  awaits a stop first, and a mod install awaits its download. Correct means: whatever a restore wipes is
  in an archive, an operator's archives are left alone, and an install can be taken back.
* **Modpack install.** Up to sixteen downloads run at once, entries may share a file name and then a
  `.part`, and when one raises the others run on behind the `create` that has already failed. Correct
  means: what is reported as created left nothing out, or says what it left out.
* **Mods and plugins.** The pages' file operations hold the event loop, but the JVM may boot between any
  two of them and the manager may die there; an install streams into the name the JVM loads. Correct
  means: a server never boots with half a jar, and an update leaves the old jar or the new one.
* **Edge publishing.** A publish runs in a thread, puts many objects one after the other, and any put
  fails. Correct means: the index that is up sends clients only to jars that are up.
* **Client mod sync.** Downloads fail, are cut short or hold other bytes; the client is killed anywhere.
  Correct means: the game starts with every listed jar, and the next clean sync mirrors the server.
* **Self-update.** Several windows, two operating systems, a helper script, and publishers that race
  with clients. Correct means: a whole binary at every moment, verified, and newer.
* **Client application and launcher.** Threads of several windows share files, buttons and ports.
  Correct means: one launch at a time, what the window shows is what it will launch, and the game is
  sent to the server it was launched for.

`PROJECT.json` lists each hazard at its line with the properties that would catch it.

## 2. The plan

Done, in this order: ServerLifecycle with its abstract specification ServerRegistry, Backups, EdgePublish,
ModSync, SelfUpdate, ClientApp, then PackInstall and ServerMods with their composition ServerContent; then
the abstract specifications ProfileMirror of ModSync and AtomicUpdate of SelfUpdate, with their refinements.
Each has its proofs: ServerLifecycleProofs, ServerRefinement, BackupsProofs, EdgePublishProofs,
ModSyncProofs, SelfUpdateProofs, ClientAppProofs, ServerContentProofs.

Next, in the order of what it is worth:

1. `EdgeAndSync`: EdgePublish and ModSync composed, so that a client syncs against an edge that is
   being published, instead of against any index; with it, the edge's servers.json, whose lists may land
   out of order.
2. ClientApp with threads that pin and threads that launch in one behaviour, and builds with a server
   baked in (`settings.load` then has a default to fall back to).
3. Pure algorithms against reference definitions: `_ver_tuple` and version comparison, `_cdn_url`,
   the NeoForge sort key, `merge_manifest`, the path checks of `domain/files.py`.

## 3. The modules

**ServerLifecycle** models the manager. `row` is the servers table, `containers` what docker holds,
`data_dirs` and `bundles` the two directory trees, `req` the handler each request slot runs and the
locals it read before its first `await`. An action is the code between two awaits: `CreateBegin` is
`create` up to `platform.install`, `InstallWrites` is what the install does to the disk while it is
awaited, `PickRcon` and `InstallSucceeds` the synchronous part after it, `DockerReplaces` and
`DockerCreates` the two effects of `Docker.create_container`, `Insert` and `Rebuilt` the continuations
that write the table. A docker call is split from its continuation wherever the continuation writes
something, since another request may run in between. `InstallFails` is the failures `create` cleans up
after, `InstallAborts` those it does not. A docker call may raise before the daemon has done anything
(`DockerFails`), or after it has done all of it, when the reply is late or lost: `CreateFailsLate` (also
the inspect that `containers.create` ends with), `RemoveFailsLate`, `StartFailsLate`, `StopFailsLate`, and
`DockerHalfRestarts`, a restart that only stopped. `Crash` ends every
handler, possibly between two writes of a synchronous stretch (`ErasedInPart`, `RebuiltInPart`,
`InsertedInPart`). History variables `overlap`, `doomed`, `company` and `lost` record which creates were in
flight together, which deletes asked for files, whether the request begun last had company, and which
servers' last create_container raised although the container was made; no guard reads them.

**ServerRegistry** is what the manager promises about identity: an id is unknown, then in the table,
then gone, in this order and once, and only servers in the table have bundles.
`ServerLifecycle!Registry` is the refinement mapping.

**Backups** models one server's archives. Archives have the names the code gives them (kind and second),
and `Trimmed` rotates by the name order `list_for` returns. `RestoreBegin` takes any archive name, since the
page that listed it may be stale: the route then stops the container, takes a snapshot and rotates before
`restore` refuses. `RestoreRuns` is a whole restore (safety snapshot, rotation, checks, wipe, extract); `Crash` may cut it between the wipe and the extraction, or a
snapshot before its end. `up` is the container, `running` the status column the restore trusts. `Arrives` lets
a request begin beside others until the crash, and alone after it.

**EdgePublish** models a server's mods from the box to the edge: `ModsChange` is a jar that is installed,
replaced or removed, `BuildOpens` and `BuildWrites` the two halves of the index's `write_text`,
`Resolutions` what CurseForge resolves of the staged manifest, `PublishReads` to `PublishEnds` the steps of
`publish_server` in its thread, `PurgeBegins` to `PurgeEnds` the purge script.

**ModSync** models one sync: `Fetch` the index (any index), `PlanMods` and `PlanPacks` what is pruned and
fetched per directory, `Prune`, `FetchEnds` with every outcome of a download, `DirDone` what failures do,
`Launch`, `Killed`. Only the player changes files between launches. `StepsLeft` counts what a sync still has
to do: a step for each planned name, the end of each directory, the launch.

**ProfileMirror** is what a sync promises the player, without plan, pool or order of directories: a file that
is not as listed is brought in line with the index (`Bring`), or there is trouble; an unlisted jar goes
(`Drop`), if any jar is listed; a sync is `Ready` to launch only with every listed jar, and without trouble
only if nothing is amiss. `ModSync!Mirror` is the refinement mapping: `Stage` forgets which directory the sync
is in, the plan (`todo`, `surplus`, `failed`) has no counterpart, and trouble is that `saw` is not empty. So a
step of `_sync_dir` may act on a file only while that file is, at that very moment, not as listed, whatever the
plan said when it was made.

**SelfUpdate** models the publishing script on each platform and the updater in each window. A file has a
first and a second part, so that cut-short and interleaved writes show; a window's file handle follows its
file through renames, as POSIX handles do. `os` selects the rename-in-place path or the Windows helper.

**AtomicUpdate** is what the updater promises: one build is installed, an update begins for a build on offer,
and the installed build changes in one step, to that one, or not at all. The mapping `SelfUpdate!Update` reads
`Current` off the files (the binary, or the staged file while the helper has taken the binary away), `Pending`
off the window or the helper at work, and `Offers` off latest.json and what the windows read there. The step
`Install` is `os.replace`, and on Windows the helper's `del`, which commits to the staged file. `Overlap` ends
the promise: it says nothing once two updates have shared their files.

**ClientApp** models windows, their worker threads, the pinned config (which is truncated and then
written), the forwarding of links, the Play and Update button, and cloudflared sidecars on ports. A thread
that pins fails before it has the file open (`FetchFails`, which leaves the pin alone) or after
(`WriteFails`, which leaves it empty, cut short or whole, and tells no window). The history variable
`touched` is the window that opened or wrote the pin last, and none after a failed write.
`Past(t, "ended")` is the `finally` that enables Play again; `Stray` a sidecar whose launch is gone.

**PackInstall** models how `create` installs a modpack. `step` is how far create is: `Resolve`, `FetchZip`,
`Bake` and `LoadThenGather` are its awaits in order, `Refuse` and `Abort` the errors it cleans up after and
those it does not. `task` is what each entry's download does behind the semaphore: `TaskStarts`, `TaskNamed`
(the file's name is known; a jar that is there is kept), `TaskOpens` (the `.part` is truncated, whoever is
writing it), `TaskEnds` (the last chunk and the rename), `TaskFails` and `TaskReadsNoJson`. A task's file is
followed through renames by `holds`, and `mixed` records that another task had it open. `GatherRaises` hands
the first error on while the other tasks run on.

**ServerMods** models the jars of one server while its pages change them. `loop` is a page's handler between
two of its file operations (`OpensTemp`, `TempWritten`, `OldUnlinked`, `TempRenamed`), during which no other
request runs; `req` is a request that awaits (an update's download, an install's stream). `Boot` and `Stop`
are the container at any moment, since docker restarts it by itself: `loaded` is what the JVM booted with,
`mapped` the files it still shares with the directory, so that an install that truncates a jar truncates the
JVM's too. `Crash` is the manager's death, at any file operation.

**ServerContent** composes the two into one server from its create on: on a modpack server the pages are there
once PackInstall's create is done, and work on the `mods/` it left; a plugin server starts empty.

The MC modules only give constants their values. `PROJECT.json` maps every definition to its lines.

## 4. The runs

| Run | Question | Result |
|---|---|---|
| `lifecycle_one_server` | Two requests race on one server, docker calls fail before or after their effect, the process dies anywhere | types hold; the world survives (WorldKept); requests that never overlapped leave no stray container, except one that a create_container had made when it raised, and that one never runs (NoOrphansAtRest); a rebuild alone mends whatever came before (RebuildMends); the table implements ServerRegistry |
| `lifecycle_two_servers` | Two servers, two requests, contended ports | host ports are shared only by servers whose creates overlapped; no id crosses servers |
| `config_retry` | Does `update_config` rebuild whenever values differ from the container's? | violated: see section 10 |
| `backups` | Backup, restore, install and power at once, with a manager that dies inside a snapshot, before its trim or between the wipe and the extraction | a quiet world that is replaced is in an archive; an operator's archives stay; an install has its way back as long as fewer than `Keep` snapshots of restores are there (WayBackWithRoom) |
| `backups_trim` | Is the snapshot there when the install begins? | violated |
| `backups_live` | Is the server stopped when a restore wipes its directory? | violated |
| `publish` | Two publishes, a purge, index builds, changing mods, failing puts | a publish that no publish of another index and no purge overlaps leaves every jar its index promises; a purge of an up-to-date edge keeps them |
| `sync` | Any index, any download outcome, kills, the player | launches have every listed jar; a clean sync mirrors the server (CleanSyncMirrors); a pack that is there is never replaced or removed (PacksAreThePlayers); a sync ends, and each step of it leaves fewer (EachStepCounts); it implements ProfileMirror |
| `update` | Two windows, both systems, failures and power cuts at every step | updates that do not overlap leave a whole binary and restart into the build whose hash was read; they implement AtomicUpdate |
| `update_loop` | Is what a window restarts into newer? | violated |
| `client` | Two windows, two threads, links, launches, updates, kills | in a window that has not begun an update, Play is not enabled while a launch runs, and one runs at a time (OnePlay); once no thread writes or is about to read the pin, the window that wrote it last shows what the next start loads, unless a write has failed since (HeaderMatchesPin); a launch on its own reaches its server |
| `content` | What can a server boot with, from its create on, when downloads share names and break, pages and installs change its jars, and the manager dies? | half a jar comes only from a marketplace install; an update keeps the old plugin or all of the new one; a modpack server whose create is done boots with the jar of every entry, except those the missing list names, that share a file name, or that the marketplace has streamed over |

Each property of a passing run has a mutant: a plausible bug in one mapped definition that makes the
property fail under the run's own configuration. Mutants stand beside the definition they change, with
the suffix `_BUG` or a word for the bug, and no other definition uses them.

Deadlock is checked in `sync`. Elsewhere it is off, because the bounds stop a model (ids used up,
versions published, the clock at its end) where the program goes on.

## 5. Bounds

* Lifecycle: one or two server ids, two request slots, two to four container ids, four ports of which one
  is the RCON range. Two requests are every pair of handlers at every pair of awaits, which is where
  shared state is read and used stale. Four ids for one server let a rebuild and a second one each replace
  a container whose id is still held somewhere. The proofs of section 7 lift these bounds for most of the
  properties.
* Backups: `Keep` is 1 or 2 where the code has 5 (`SAFETY_KEEP`), so that rotation happens within a few snapshots; two
  seconds, or three where the order of names matters; worlds are versions 1 to 2 or 3, plus torn ones. Two
  request slots and one crash; after the crash awaiting requests come one at a time, since what a crash
  leaves on the disk is what the next request meets, and a second one beside it is the case before it.
* EdgePublish: one jar the manifest lists and one that it does not, the two cases `from_cdn` tells apart;
  two contents, so that a jar can be replaced once; two publishers and the purge.
* ModSync: two jars, two packs, two contents beside a short file and a player's file. Directories are
  handled one at a time and files independently, so two of each show partial failure and partial progress.
* SelfUpdate: two versions, one platform in `update` and two in `update_loop`, two windows.
* ClientApp: two windows, two threads, two servers, two ports, three attempts (the code's number).
  `Duties` gives a behaviour either threads that pin or threads that launch. They meet only in `cfg`,
  which a launch reads once, and which the pinning threads set to anything a launch could find.
* ServerContent: three entries, two file names (so that two entries share one and the third may or may not),
  two download slots (so that one waits); two plugins, one build on offer, two requests. One build is enough
  to tell a whole jar from a half and from none. Entries and names are told apart, plugins and requests are
  interchangeable.

## 6. Fairness

Only ModSync assumes any: `WF_vars(Syncs)`, for SyncEnds. Every request of `sync.py` has a timeout, and
its loops run over finite lists, so a sync that is under way always has a step that ends; that the client
is killed is not assumed, nor that the player does anything. The other modules claim safety only: docker may
refuse a container forever, an upload may hang for the length of its timeout again and again, and the code
retries nothing of that by itself.

## 7. The proofs

Every safety property of a passing run is proved for any values of the constants, from the named assumption
of its module alone: that the marks (None, Torn, ...) are none of the values they stand beside, that bounds
are natural numbers, that inputs are well typed, and, in ModSync, that an index has finitely many names. There
is one theorem for each:

| Module | Theorem | Says |
|---|---|---|
| ServerLifecycleProofs | `TypeCorrect`, `WorldsAreKept`, `PortsShareByOverlapOnly`, `IdsAreTheServersOwn` | TypeOK, WorldKept, SharedPortsOverlapped, IdsNeverCross |
| | `NothingIsOrphaned`, `RebuildsMend` | NoOrphansAtRest, RebuildMends |
| ServerRefinement | `ManagerImplementsRegistry` | `Spec => Registry!Spec`: initial states map, and every step is a registry step or a stutter |
| | `BundlesHaveRows` | bundles belong to servers in the table, through the refinement and the registry's own invariant |
| BackupsProofs | `TypeCorrect`, `RestoresAreReversible`, `OperatorsKeepTheirs` | TypeOK, WipedIsKept, UserBackupsStay, for any Keep and number of crashes |
| | `InstallsHaveAWayBack` | WayBackWithRoom |
| EdgePublishProofs | `TypeCorrect`, `PublishesAreComplete`, `PurgesKeepServed` | TypeOK, PublishedComplete, PurgeKeepsServed |
| ModSyncProofs | `TypeCorrect`, `NoLaunchWithoutAJar`, `CleanSyncsMirror`, `PacksStayThePlayers` | TypeOK, LaunchIsComplete, CleanSyncMirrors, PacksAreThePlayers |
| | `SyncsAreBounded` | EachStepCounts: a sync takes at most five steps and one for each name |
| | `SyncsMirror` | `Spec => Mirror!Spec`: a sync implements ProfileMirror |
| SelfUpdateProofs | `TypeCorrect`, `BinariesAreWhole`, `RestartsAreVerified` | TypeOK, ExeWhole, RestartsVerified |
| | `UpdatesAreAtomic` | `Spec => Update!Spec`: the updater implements AtomicUpdate |
| ClientAppProofs | `TypeCorrect`, `OneLaunchAWindow`, `HeadersMatch`, `LaunchesReachTheirServers` | TypeOK, OnePlay, HeaderMatchesPin, LaunchReachesItsServer |
| ServerContentProofs | `TypeCorrect`, `HalvesStayOut`, `UpdatesKeepOne`, `BootsAreComplete` | TypeOK, HalvesAreStreamed, UpdateKeepsOne, BootsWithThePack |

Each module has an invariant `IInv` that is inductive, one lemma per action (or per group of alike ones) that
says that the action keeps it, and under the lemma one step per conjunct that the action can disturb. What the
invariants add to the properties:

**ServerLifecycle.** None of the properties is inductive. ServerLifecycleProofs carries
`IInv == TypeOK /\ Locals /\ Births /\ Worlds /\ Overlaps /\ IdsNeverCross`:

* `Locals` ties a handler's program counter to what its locals hold (a create has no container id before
  docker returned one; a rebuild holds the id and ports it read from a row). Without it, nothing is known
  of the id a continuation writes to the table. It also says that an id in the table was handed out by
  `_new_server_id`.
* `Births`: the server of a create is not in the table yet, and no other request refers to it. It is why
  the failure path of a create cannot remove the directory of a server in the table, and why `Insert`
  never meets its own id there.
* `Worlds` extends WorldKept to creates past their install, whose directory must already be there when
  `Insert` adds the row.
* `Overlaps` extends SharedPortsOverlapped to creates in flight, whose ports no row reserves yet: one that
  shares a port with a row, or with another create, was in flight together with it.

NoOrphansAtRest and RebuildMends speak of requests that came one at a time, and need a second invariant over
IInv, `Tidy == Alone /\ Claims`: as long as the last request has had no other beside it, its handler is the
only one and what it read of its server's row is still so (`Alone`); and if that was so from the start, a
container is the one its server's row names, one a handler is about to write there, or one that was lost to
a create_container that raised late, and then it is down (`Claims`). That the last kind never runs is what
`OnlyRowsStart` carries from step to step: nothing is started that no row names.

ServerRefinement first proves, per action, where a server goes between unknown, in the table and gone, then
matches each action with the registry's step.

**Backups.** No archive is from the future (`Past`), so that nothing is listed before the snapshot a restore has
just taken and the rotation spares it; a world that an install is writing into is torn (`Tears`), so that tar
reads a quiet world as it is; a restore that awaits has the name of an archive (`Named`). The snapshot of an
install does have others listed before it, the restores' (`backups_trim` shows them push it out); by `Past` those
are the only ones, so fewer than Keep of them leave it a place. Archives of one kind are finitely many, since
their seconds tell them apart (`OfOneKind`).

**EdgePublish.** Contents are new: a jar that has left the one an index gives never comes back to it (`Fresh`), so
what a publish has read of the directory is right for as long as the directory agrees with its index
(`Carried`). What a publish that is alone has put so far (`Uploaded`), and what a purge that is alone may still
delete (`Spared`), carry over from step to step.

**ModSync.** The properties speak of the moment of the launch; IInv says the same of every step before: a
directory is planned for its own names (`Plans`), a listed jar that is not there is still to be fetched or has
failed (`Complete`), and as long as nothing was met a name that is not as listed is still planned (`Mirrors` for
mods/, `Fills` for the packs). The refinement needs one thing more of `Plans`: a name that is to be fetched is
still not as listed, since nothing else fetches it meanwhile; a download of a file that is as listed would be no
step of ProfileMirror. The lemmas match each action with a step of it (`PlanMaps` to a stutter, `PruneMaps` to a
Drop, `FetchEndsMaps` to a Bring, `ReadyMaps` to a Ready). SyncsAreBounded needs only that the plans are finite
and that a plan has at most the names of its directory.

**SelfUpdate.** Whatever the windows do to each other, a handle belongs to a download and names a file that is
there, or none (`Typed`). An update that no other overlaps is the only one under way (`Single`), the file it
works on has what it has received so far (`Steps`), what the helper will move is whole (`Helps`), and the binary
is whole, or just taken away by a helper that has a whole one to put there (`Installed`). UpdatesAreAtomic needs
no more of the invariant: while no updates have overlapped, `Single` makes `Pending` the one build under way and
`Installed` makes `Current` a build, and each action then either leaves what the mapping sees, forgets an offer,
or is the one step of AtomicUpdate its lemma names. The first step of a second update maps to Overlap.

**ClientApp.** A thread belongs to an open window (`Owned`) and has what its stage needs (`Stages`); a window that
has not read the pin it wrote has a thread that will (`Pinned`); the buttons follow the launches (`Buttons`); a
sidecar belongs to a launch that waits for it or uses it (`Sides`); beside a launch that is alone there is no
other, and no sidecar that could take its port (`Lone`).

**ServerContent.** On a plugin server a half jar is where an install has streamed (`Sound`), and a page that holds
the loop has what its next file operation needs (`Looped`). On a modpack server `Gathering` says how far the
downloads are: a half jar, a `.part` and a stream that another has disturbed each leave a task behind that will
be in trouble, if none is yet (`Torn1`, `Torn2`, `Torn3`), so that gather raises or lists an entry; and a task
whose file name is its own has its file (`Own`). `Done` carries this over to what the server boots with.

## 8. What is only model-checked

SyncEnds, a liveness property under fairness, which the proof system here does not reach, and the four runs that
expect a violation. The half of SyncEnds that is no matter of fairness, that a sync cannot go round for ever, is
the theorem SyncsAreBounded; what only TLC checks is that a sync under way always has a step to take.

No module has a RECURSIVE operator.

## 9. Assumptions

* One event loop, one process, one box: no second manager shares the table.
* Docker's ids are never reused, and docker keeps container names unique (`Fresh`, `Named`).
* A docker call that raises has had its effect by then or never has it: no effect comes later.
* What was written survives a power cut, in the order it was written: the updater never calls fsync
  (`updater.py:116-132`, `:172`), so this is an assumption about the file system.
* A sidecar that is bound lives until its launch stops it, or for good if nobody does.
* Renames within a directory are atomic and replace, as on POSIX. On Windows the models follow the
  updater's helper; `sync.py` and `tunnel.py` are modelled as on POSIX.
* The player changes a profile's files between launches, not during a sync.
* Archive names tell seconds apart and no more, as in the code.
* Properties that name a condition (`solo`, `alone`, `company`) say nothing outside it, and section 10 says
  what happens there.

## 10. What the models found

With a run that shows it:

* `config_retry`: `update_config` stores the new values before it rebuilds. When docker then fails, the
  values equal the row's on the next try, which returns early: the container keeps the old ones until
  something else rebuilds it. (RebuildMends holds: `recreate_container` mends it.)
* `backups_trim`: rotation sorts by file name, and `auto-pre_restore-*` sorts before `auto-pre_install-*`
  whatever its age. With `Keep` restores behind it, an install's snapshot is deleted as soon as it is made.
* `backups_live`: a restore stops the container only if the row says `running`; `restart` starts a stopped
  container without writing the status.
* `update_loop`: `merge_manifest` raises the common version when one platform publishes. Clients of the
  others download their old binary again, verify it, and restart into the build they already were.

Seen while modelling, inside the models' behaviours and without a run of their own:

* Two creates in flight for one port are both told that it is free, and both are inserted; docker then
  refuses to start one of them. `port_in_use` says that ports "need to be host-unique".
* A jar that the CDN is said to have is not uploaded, so the `origin_url` fallback of its entry answers 404
  (`publish.py:94`).
* A mod is streamed straight into its jar (`installer.py:86`); an index that is built meanwhile, or after
  the stream broke off, sends the half jar to every client, and a server that boots then loads it. A sha1
  that does not match unlinks whatever file has the name by then (`installer.py:91-97`).
* `replace_plugin` says "Atomically swap", but unlinks the old jar before it renames the new one
  (`plugins.py:148`): a server that boots there loads neither, and a manager that dies there leaves the new
  one under its `.upload` name, which nothing picks up again.
* `download_all_mods` says that "a single mod failing doesn't abort the run"; that is so of a
  `CurseForgeError`, and any other error (a reply that is no JSON, a `.part` that another entry of the same
  name has renamed) ends the gather while its siblings run on behind create, into a directory that create
  may have removed (`curseforge.py:535-549`).
* `resolve_to_server_pack` is best effort for transport and CurseForge errors; a reply that is no JSON
  escapes it, and fails the create.
* The end of a launch enables Play even while an update downloads, and a failed update enables it while a
  game runs (`app.py:439`, `:457`); OnePlay is stated for windows that have not begun an update.
* A forwarded link and the discovery thread both write the pin, and the later one wins. The comment at
  `app.py:511-512` says that discovery is skipped "when a deep link will pin one"; that is so of a link on the
  command line only.
* `fetch_server_config` truncates the pin before it writes (`deeplink.py:97-98`). A write or close that raises,
  on a full disk, is logged (`app.py:367`, `:533`) without a reload: the window shows the old server, and the
  next start finds an empty or cut-short pin. HeaderMatchesPin excepts the time until the next write.
* A `create_container` that raises after the daemon made the container leaves one that no row names
  (`docker.py:152-176`, no handler looks for it). A later rebuild of the server removes it by its name; after a
  create that failed so, nothing does.
* A chmod that raises after `os.replace` (`updater.py:172-173`) leaves the new binary without its bit, and a
  window that goes on as if nothing had changed.
* A restore of an archive that is gone by now still stops the server, takes a snapshot and rotates, which may
  remove another snapshot, and only then answers that there is no such backup (`detail_routes.py:795-806`).

Seen in parts that no module models:

* `_rcon_call` dials the rcon.port of server.properties, which is the port inside the container
  (`detail_routes.py:62-80`, `lifecycle.py:55`); the console dials the host's, `row.rcon_port`
  (`detail_routes.py:901-908`).
* A consumer of `follow_logs` that is cancelled before the stream is open leaves the pump thread behind
  (`docker.py:215-263`).

## 11. What is not modelled

* The container's own life in ServerLifecycle: restarts by docker, logs, statistics; RCON and the console (a
  request and a reply on a connection of its own). ServerContent lets the JVM boot at any moment.
* What bundles, pages, archives and configs contain; `servers.dat`; the JVM's flags; the game.
* How the other platforms install: ServerLifecycle has the directory that is made and filled, success, and the
  two kinds of failure. The steps inside (one download, the NeoForge installer in a container) are sequential
  and leave what `InstallFails` and `InstallAborts` leave. What jars a server pack brings in its zip.
* The search for versions and the check for updates, which only read.
* The file editor, players, properties, datapacks: one synchronous file operation per request.
* The edge's pages and list of servers, and the worker, which maps a URL to an object.
* Database set-up, the diagnostics (`doctor.py`), logging, desktop shortcuts: once, best effort, read by
  nothing modelled.
* The modpack's overrides, which are extracted over the profile before a sync.
