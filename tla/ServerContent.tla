--------------------------- MODULE ServerContent ---------------------------
(***************************************************************************)
(* The jars of one server, from its create on.  A modpack's create fills   *)
(* mods/ (PackInstall), and the server boots with what it left; a plugin   *)
(* server starts empty.  Then the pages change them (ServerMods).  A jar   *)
(* outside the directory that its platform loads is left out.              *)
(***************************************************************************)
EXTENDS Naturals, FiniteSets

CONSTANTS Entries, Mods, Parallel, Plugins, Builds, Requests, MayCrash, Torn, None

(* A whole jar is told from a torn one and from none, a name from no name,  *)
(* an error from no error.                                                 *)
ASSUME ContentAssumption ==
  /\ Parallel \in Nat \ {0} /\ MayCrash \in BOOLEAN
  /\ None # Torn /\ None \notin {"value", "os"}
  /\ {None, Torn} \cap (Entries \cup Builds \cup Mods \cup Plugins) = {}

VARIABLES
  platform,
  step, run_sh, missing, raised, mods_dir, part, task,
  jars, disabled, upload, loaded, mapped, loop, req, streamed

create == <<step, run_sh, missing, raised, mods_dir, part, task>>
pages  == <<disabled, upload, loaded, mapped, loop, req, streamed>>
vars   == <<platform, create, pages, jars>>

Pack   == INSTANCE PackInstall
Modded == INSTANCE ServerMods WITH Jars <- Mods, Plugins <- {},
                                   Builds <- Entries \cup Builds, Offered <- Builds
Paper  == INSTANCE ServerMods WITH Jars <- Plugins, Offered <- Builds

(* A plugin server's create downloads one jar, and nothing to load. *)
Init ==
  \/ platform = "modpack" /\ Pack!Init /\ Modded!Init
  \/ /\ platform = "paper" /\ Paper!Init
     /\ step = "done" /\ raised = None /\ run_sh = FALSE /\ missing = {} /\ mods_dir = FALSE
     /\ part = [n \in Mods |-> None] /\ task = [e \in Entries |-> Pack!Task("none")]

(* The row is inserted, and the pages are there, once create is done.      *)
Creates      == platform = "modpack" /\ Pack!Next /\ UNCHANGED <<platform, pages>>
PaperPages   == platform = "paper" /\ Paper!Next /\ UNCHANGED <<platform, create>>
ModpackPages == platform = "modpack" /\ step = "done" /\ Modded!Next
                /\ UNCHANGED <<platform, create>>

Next == Creates \/ PaperPages \/ ModpackPages

Spec == Init /\ [][Next]_vars

-----------------------------------------------------------------------------
(* Every variable has its type under the platform that the server has.    *)
TypeOK ==
  IF platform = "modpack" THEN (step # "done" => Pack!TypeOK) /\ Modded!TypeOK
  ELSE Paper!TypeOK

(* A JVM has half a jar only if a marketplace install streamed into that   *)
(* name: what an upload or an update left is whole, and so is what the     *)
(* pack's install left, if it listed nothing as missing, whichever entries *)
(* shared a name and whatever their streams did (save_upload: "so a        *)
(* half-write can't get loaded by the server").                            *)
HalvesAreStreamed ==
  IF platform = "modpack" THEN missing = {} => Modded!HalvesAreStreamed
  ELSE Paper!HalvesAreStreamed

(* At each file operation of replace_plugin, where the manager may die, the *)
(* plugin's old jar is there, or all of the new one under its temp name.   *)
UpdateKeepsOne == platform = "paper" => Paper!UpdateKeepsOne

(* A modpack server boots with the jar of every entry of its manifest,     *)
(* whole, unless ndrchst-missing-mods.txt names the entry, another has the *)
(* same file name, or the marketplace has written over it: create may fail *)
(* or be slow, but what it reports as done has left nothing out.           *)
BootsWithThePack ==
  platform = "modpack" /\ loaded # Modded!Down =>
    \A e \in Entries :
      LET n == task[e].name
      IN  n # None /\ e \notin missing /\ n \notin streamed /\ Pack!Alone(e)
            => loaded[n] = e
=============================================================================
