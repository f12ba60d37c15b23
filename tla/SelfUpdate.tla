----------------------------- MODULE SelfUpdate -----------------------------
(***************************************************************************)
(* How a new client reaches the players.  scripts/publish_client.py runs   *)
(* on a machine of each platform: it uploads that platform's binary under  *)
(* a fixed name and merges its hash into latest.json.  updater.py runs in  *)
(* every open window of the client: it reads latest.json, downloads beside *)
(* the binary, verifies, swaps and re-executes.  All windows of a machine  *)
(* share the three files: a handle follows its file when that is renamed,   *)
(* and writes to no path once it is replaced or unlinked.                  *)
(***************************************************************************)
EXTENDS Naturals, FiniteSets

CONSTANTS
  Platforms,   \* the keys of the assets in latest.json
  Mine,        \* the one this machine has
  Windows,     \* client processes that can run at once on this machine
  MaxVersion,  \* bound: versions published
  NoBuild,     \* whether operators publish with --no-build
  Hole,        \* a part of a file that has not been written
  None

ASSUME UpdateAssumption ==
  /\ Mine \in Platforms /\ MaxVersion \in Nat \ {0}
  /\ NoBuild \in BOOLEAN
  /\ Hole \notin Nat /\ None \notin Nat /\ Hole # None
  /\ None \notin {"exe", "staged", "part", "gone"}
  /\ None \notin ((1..MaxVersion) \cup {Hole}) \X ((1..MaxVersion) \cup {Hole})

(* A build is known by its __version__: it is its content, and its hash. *)
Builds == 1..MaxVersion

Manifest == [version : Builds, sha : [Platforms -> Builds \cup {None}]]

VARIABLES
  assets,  \* the binary of each platform in the bucket
  latest,  \* latest.json
  script,  \* publish_client on each platform: [pc, version, sha]
  os,      \* "posix" or "nt": this machine's, for good
  file,    \* the first and second part of the binary (exe), .new (staged) and
           \* .new.part (part)
  mode,    \* whether exe has its executable bit
  helper,  \* nt: what _ndrchst_update.cmd has done
  win,     \* each window: [pc, ver, want, got, handle]
  solo     \* history: no update has begun while another was under way

release == <<assets, latest, script>>
files   == <<file, mode, helper>>
machine == <<files, os, win, solo>>
vars    == <<release, machine>>

NoScript == [pc |-> "idle", version |-> None, sha |-> None]
Off      == [pc |-> "off", ver |-> None, want |-> None, got |-> None, handle |-> None]

Whole(p) == \E b \in Builds : file[p] = <<b, b>>

Init ==
  /\ assets = [k \in Platforms |-> 1]
  /\ latest = [version |-> 1, sha |-> assets]
  /\ script = [k \in Platforms |-> NoScript]
  /\ os \in {"posix", "nt"}
  /\ file = [exe |-> <<1, 1>>, staged |-> None, part |-> None]
  /\ mode = TRUE /\ helper = "none"
  /\ win = [w \in Windows |-> Off]
  /\ solo = TRUE

-----------------------------------------------------------------------------
(* publish_client *)

(* Build and stamp this version, or take a binary that dist/ has from       *)
(* before; and upload it.                                                  *)
ScriptPutsAsset(k) ==
  /\ script[k].pc = "idle"
  /\ \E v \in Builds, b \in Builds :
       /\ b = v \/ NoBuild
       /\ script' = [script EXCEPT ![k] = [pc |-> "put", version |-> v, sha |-> None]]
       /\ assets' = [assets EXCEPT ![k] = b]
  /\ UNCHANGED <<latest, machine>>

(* The other platforms' entries stay. *)
merge_manifest(seen, k, sha) == [seen EXCEPT ![k] = sha]

(* _fetch_manifest: any failure is "there is none". *)
ScriptFetches(k) ==
  /\ script[k].pc = "put"
  /\ \E seen \in {latest.sha, [j \in Platforms |-> None]} :
       script' = [script EXCEPT ![k].pc = "fetched",
                                ![k].sha = merge_manifest(seen, k, assets[k])]
  /\ UNCHANGED <<assets, latest, machine>>

(* Mutant: the manifest is uploaded before the other entries are read. *)
ScriptPutsManifest_BUG(k) ==
  /\ script[k].pc = "put"
  /\ latest' = [version |-> script[k].version, sha |-> script[k].sha]
  /\ script' = [script EXCEPT ![k] = NoScript]
  /\ UNCHANGED <<assets, machine>>

(* One version for all platforms, one hash for each. *)
ScriptPutsManifest(k) ==
  /\ script[k].pc = "fetched"
  /\ latest' = [version |-> script[k].version, sha |-> script[k].sha]
  /\ script' = [script EXCEPT ![k] = NoScript]
  /\ UNCHANGED <<assets, machine>>

ScriptFails(k) ==
  /\ script[k].pc # "idle"
  /\ script' = [script EXCEPT ![k] = NoScript]
  /\ UNCHANGED <<assets, latest, machine>>

-----------------------------------------------------------------------------
(* A window *)

Set(w, pc) == win' = [win EXCEPT ![w].pc = pc]

(* The player, the operating system or the helper starts the binary. *)
Boots(w) ==
  /\ Whole("exe") /\ mode
  /\ win' = [win EXCEPT ![w] = [Off EXCEPT !.pc = "up", !.ver = file.exe[1]]]

Start(w) ==
  /\ win[w].pc = "off" /\ Boots(w)
  /\ UNCHANGED <<release, files, os, solo>>

UnderWay(w) == win[w].pc \notin {"off", "up", "failed"}
Alone == helper = "none" /\ \A w \in Windows : ~ UnderWay(w)

(* Mutant: the hash is of what the bucket has. *)
CheckFinds_BUG(w) ==
  /\ win[w].pc = "up"
  /\ latest.version > win[w].ver /\ latest.sha[Mine] # None
  /\ win' = [win EXCEPT ![w].pc = "found", ![w].want = assets[Mine]]
  /\ solo' = (solo /\ Alone)
  /\ UNCHANGED <<release, files, os>>

(* check: a newer version, and an asset for this platform.  A frozen build *)
(* goes on to do_update by itself.                                         *)
CheckFinds(w) ==
  /\ win[w].pc = "up"
  /\ latest.version > win[w].ver /\ latest.sha[Mine] # None
  /\ win' = [win EXCEPT ![w].pc = "found", ![w].want = latest.sha[Mine]]
  /\ solo' = (solo /\ Alone)
  /\ UNCHANGED <<release, files, os>>

(* After a failure the update button is there again. *)
Click(w) ==
  /\ win[w].pc = "failed" /\ Set(w, "found")
  /\ solo' = (solo /\ Alone)
  /\ UNCHANGED <<release, files, os>>

(* urlopen answers, and .new.part is opened: truncated when it is there. *)
DownloadOpens(w) ==
  /\ win[w].pc = "found"
  /\ file' = [file EXCEPT !.part = <<Hole, Hole>>]
  /\ win' = [win EXCEPT ![w].pc = "open", ![w].got = assets[Mine], ![w].handle = "part"]
  /\ UNCHANGED <<release, mode, helper, os, solo>>

DownloadWrites(w, from, to, half) ==
  /\ win[w].pc = from /\ Set(w, to)
  /\ file' = IF win[w].handle = "gone" THEN file
             ELSE [file EXCEPT ![win[w].handle][half] = win[w].got]
  /\ UNCHANGED <<release, mode, helper, os, solo>>

WritesFirst(w)  == DownloadWrites(w, "open", "half", 1)
WritesSecond(w) == DownloadWrites(w, "half", "full", 2)

(* The windows but w, once the files at these paths are gone or replaced. *)
Unlinked(w, paths) ==
  [v \in Windows |-> IF v # w /\ win[v].handle \in paths
                     THEN [win[v] EXCEPT !.handle = "gone"] ELSE win[v]]

(* ... and once the file at one path is renamed to another. *)
Renamed(w, from, to) ==
  [v \in Windows |-> IF v # w /\ win[v].handle = from
                     THEN [win[v] EXCEPT !.handle = to] ELSE Unlinked(w, {to})[v]]

(* The update is given up; staged.unlink, and the window stays. *)
GivesUp(w, paths) ==
  /\ file' = [p \in DOMAIN file |-> IF p \in paths THEN None ELSE file[p]]
  /\ win' = [Unlinked(w, paths) EXCEPT ![w].pc = "failed", ![w].got = None, ![w].handle = None]
  /\ UNCHANGED <<release, mode, helper, os, solo>>

(* Mutant: the whole stream is taken, whatever its hash. *)
Verifies_BUG(w) == win[w].pc = "full"

(* The hash is of the bytes received: an early end does not match. *)
Verifies(w) == win[w].pc = "full" /\ win[w].got = win[w].want

DownloadEnds(w) ==
  /\ Verifies(w) /\ file.part # None
  /\ file' = [file EXCEPT !.staged = file.part, !.part = None]
  /\ win' = [Renamed(w, "part", "staged") EXCEPT ![w].pc = "staged", ![w].got = None,
                                                 ![w].handle = None]
  /\ UNCHANGED <<release, mode, helper, os, solo>>

(* A wrong hash removes .new.part; an error on the way leaves it. *)
DownloadFails(w) ==
  \/ win[w].pc \in {"open", "half", "full"} /\ ~ Verifies(w) /\ GivesUp(w, {"part", "staged"})
  \/ win[w].pc \in {"found", "open", "half"} /\ GivesUp(w, {"staged"})
  \/ Verifies(w) /\ file.part = None /\ GivesUp(w, {"staged"})

-----------------------------------------------------------------------------
(* _apply_posix *)

(* Mutant: the download is moved over the binary before it is verified. *)
Swaps_BUG(w) ==
  /\ os = "posix" /\ win[w].pc = "half"
  /\ file' = [file EXCEPT !.exe = file.part, !.part = None]
  /\ win' = [Renamed(w, "part", "exe") EXCEPT ![w].pc = "swapped", ![w].handle = None]
  /\ mode' = FALSE
  /\ UNCHANGED <<release, helper, os, solo>>

Swaps(w) ==
  /\ os = "posix" /\ win[w].pc = "staged" /\ file.staged # None
  /\ file' = [file EXCEPT !.exe = file.staged, !.staged = None]
  /\ win' = [Renamed(w, "staged", "exe") EXCEPT ![w].pc = "swapped"]
  /\ mode' = FALSE
  /\ UNCHANGED <<release, helper, os, solo>>

Marks(w) ==
  /\ win[w].pc = "swapped" /\ Set(w, "marked")
  /\ mode' = TRUE
  /\ UNCHANGED <<release, file, helper, os, solo>>

(* A file that is open for writing cannot be executed. *)
BusyText == \E v \in Windows : win[v].handle = "exe"

Execs(w) ==
  /\ win[w].pc = "marked" /\ ~ BusyText /\ Boots(w)
  /\ UNCHANGED <<release, files, os, solo>>

(* A step of the swap raises, the chmod included, which leaves the new      *)
(* binary in place without its bit; or what is executed is no client.      *)
ApplyFails(w) ==
  \/ win[w].pc \in {"staged", "swapped"} /\ GivesUp(w, {"staged"})
  \/ win[w].pc = "marked" /\ BusyText /\ GivesUp(w, {"staged"})
  \/ /\ win[w].pc = "marked" /\ ~ BusyText /\ ~ (Whole("exe") /\ mode)
     /\ win' = [win EXCEPT ![w] = Off]
     /\ UNCHANGED <<release, files, os, solo>>

-----------------------------------------------------------------------------
(* _apply_windows: the process exits, and the helper it leaves behind waits *)
(* until no window runs the binary any more.                               *)
Leaves(w) ==
  /\ os = "nt" /\ win[w].pc = "staged"
  /\ win' = [win EXCEPT ![w] = Off]
  /\ helper' = "waiting"
  /\ UNCHANGED <<release, file, mode, os, solo>>

HelperDeletes ==
  /\ helper = "waiting" /\ \A w \in Windows : win[w].pc = "off"
  /\ file' = [file EXCEPT !.exe = None]
  /\ helper' = "deleted"
  /\ UNCHANGED <<release, mode, os, win, solo>>

HelperMoves ==
  /\ helper = "deleted"
  /\ file' = [file EXCEPT !.exe = file.staged, !.staged = None]
  /\ helper' = "moved"
  /\ UNCHANGED <<release, mode, os, win, solo>>

HelperStarts ==
  /\ helper = "moved" /\ helper' = "none"
  /\ \/ ~ Whole("exe") /\ UNCHANGED win
     \/ \E w \in Windows : win[w].pc = "off" /\ Boots(w)
  /\ UNCHANGED <<release, file, mode, os, solo>>

-----------------------------------------------------------------------------
(* A window is closed or killed, at any step. *)
Closes(w) ==
  /\ win[w].pc # "off"
  /\ win' = [win EXCEPT ![w] = Off]
  /\ UNCHANGED <<release, files, os, solo>>

(* The machine goes down.  What was written before is on the disk: the      *)
(* updater syncs nothing, so that is an assumption about the file system.  *)
PowerFails ==
  /\ win' = [w \in Windows |-> Off] /\ helper' = "none"
  /\ UNCHANGED <<release, file, mode, os, solo>>

Next ==
  \/ \E k \in Platforms :
       \/ ScriptPutsAsset(k) \/ ScriptFetches(k)
       \/ ScriptPutsManifest(k) \/ ScriptFails(k)
  \/ \E w \in Windows :
       \/ Start(w) \/ CheckFinds(w) \/ Click(w) \/ Closes(w)
       \/ DownloadOpens(w) \/ WritesFirst(w) \/ WritesSecond(w)
       \/ DownloadEnds(w) \/ DownloadFails(w)
       \/ Swaps(w) \/ Marks(w) \/ Execs(w) \/ ApplyFails(w) \/ Leaves(w)
  \/ HelperDeletes \/ HelperMoves \/ HelperStarts
  \/ PowerFails

Spec == Init /\ [][Next]_vars

-----------------------------------------------------------------------------
(* Properties *)

(* The types that the comments at the variables say. *)
TypeOK ==
  /\ assets \in [Platforms -> Builds]
  /\ latest \in Manifest
  /\ script \in [Platforms -> [pc : {"idle", "put", "fetched"}, version : Builds \cup {None},
                               sha : [Platforms -> Builds \cup {None}] \cup {None}]]
  /\ os \in {"posix", "nt"}
  /\ file \in [{"exe", "staged", "part"} ->
                 ((Builds \cup {Hole}) \X (Builds \cup {Hole})) \cup {None}]
  /\ mode \in BOOLEAN
  /\ helper \in {"none", "waiting", "deleted", "moved"}
  /\ win \in [Windows -> [pc : {"off", "up", "found", "failed", "open", "half", "full",
                                "staged", "swapped", "marked"},
                          ver : Builds \cup {None}, want : Builds \cup {None},
                          got : Builds \cup {None},
                          handle : {"part", "staged", "exe", "gone", None}]]
  /\ solo \in BOOLEAN

(* "downloads + verifies it and swaps the running binary in place":         *)
(* whatever fails, is cut short, closed or switched off at any step, the   *)
(* installed binary is a whole build; or, on Windows, it is gone and the   *)
(* staged one is whole.  Updates of two windows share their files, so this *)
(* holds as long as no two have overlapped, and as PowerFails assumes.     *)
ExeWhole ==
  solo => Whole("exe") \/ (os = "nt" /\ file.exe = None /\ Whole("staged"))

(* The build that runs after an update is the one whose hash the window    *)
(* read in latest.json, even when another is published meanwhile.          *)
RestartsVerified ==
  [][\A w \in Windows : solo /\ Execs(w) => win'[w].ver = win[w].want]_vars

(* Whatever files, windows and helper take part in it, an update is one     *)
(* step of the installed build, to one that latest.json advertised (see    *)
(* AtomicUpdate).  The step is os.replace, or the helper's del.            *)
Aiming == {"found", "open", "half", "full", "staged"}

Offers  == {b \in Builds : latest.sha[Mine] = b \/ \E w \in Windows : win[w].want = b}
Pending ==
  {b \in Builds : /\ solo
                  /\ \/ \E w \in Windows : win[w].pc \in Aiming /\ win[w].want = b
                     \/ helper = "waiting" /\ file["staged"] = <<b, b>>}
Current ==
  CASE solo /\ Whole("exe") -> file["exe"][1]
    [] solo /\ ~ Whole("exe") /\ Whole("staged") -> file["staged"][1]
    [] OTHER -> None

Update == INSTANCE AtomicUpdate WITH offers <- Offers, pending <- Pending, installed <- Current

ImplementsUpdate == Update!Spec

(* check: "if the manifest advertises a newer build with an asset for this *)
(* platform": what a window restarts into is newer than what it was.       *)
EachRestartIsNewer ==
  [][\A w \in Windows : Execs(w) => win'[w].ver > win[w].ver]_vars
=============================================================================
