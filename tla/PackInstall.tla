---------------------------- MODULE PackInstall ----------------------------
(***************************************************************************)
(* How create installs a modpack: platforms/modpack.py, with the parallel  *)
(* downloads of runtime/curseforge.py and the loader's installer of        *)
(* runtime/jvm_installer.py, up to what lifecycle.create makes of an error.*)
(* All of it runs on the event loop; an action is the code between two     *)
(* awaits.  A task that raises does not stop its siblings: asyncio.gather  *)
(* hands the error on at once, and they run on behind create's back.       *)
(***************************************************************************)
EXTENDS Naturals, FiniteSets

CONSTANTS
  Entries,    \* files[] of the pack's manifest
  Mods,       \* the file names CurseForge may give for them
  Parallel,   \* DEFAULT_PARALLEL
  Torn,       \* a jar that does not hold what one download brought
  None

VARIABLES
  step,      \* how far create is
  run_sh,    \* whether the loader's run.sh is there
  missing,   \* the entries of ndrchst-missing-mods.txt
  raised,    \* what gather was handed first: "value" or "os"
  mods_dir,  \* whether mods/ is there
  jars,      \* mods/<name>: an entry stands for its whole jar
  part,      \* mods/<name>.part
  task       \* what each entry's task does: [pc, name, holds, mixed]

dir  == <<run_sh, missing, mods_dir, jars, part>>
vars == <<step, raised, dir, task>>

(* holds: under which name the file a task has open is; mixed: whether     *)
(* another task has had it open as well.                                   *)
Tasks == [pc : {"none", "waiting", "naming", "asking", "streaming", "fetched",
                "listed", "raised"},
          name : Mods \cup {None}, holds : {"none", "part", "jar"}, mixed : BOOLEAN]

Task(pc) == [pc |-> pc, name |-> None, holds |-> "none", mixed |-> FALSE]

Running == {e \in Entries : task[e].pc \in {"naming", "asking", "streaming"}}
Settled == {e \in Entries : task[e].pc \in {"fetched", "listed", "raised"}}
Listed  == {e \in Entries : task[e].pc = "listed"}

Writers(n, where) ==
  {e \in Running : task[e].name = n /\ task[e].pc = "streaming" /\ task[e].holds = where}

Init ==
  /\ step = "resolving" /\ raised = None
  /\ run_sh = FALSE /\ missing = {}
  /\ mods_dir = FALSE
  /\ jars = [n \in Mods |-> None] /\ part = [n \in Mods |-> None]
  /\ task = [e \in Entries |-> Task("none")]

-----------------------------------------------------------------------------
(* create catches ValueError, RuntimeError and HTTPStatusError, and removes *)
(* the directory; a file that a task has open then has no name any more.   *)
Refuse ==
  /\ step' = "refused"
  /\ run_sh' = FALSE /\ missing' = {}
  /\ mods_dir' = FALSE
  /\ jars' = [n \in Mods |-> None] /\ part' = [n \in Mods |-> None]
  /\ task' = [e \in Entries |-> [task[e] EXCEPT !.holds = "none"]]
  /\ UNCHANGED raised

(* Anything else (a transport error, an OSError) goes past it. *)
Abort ==
  /\ step' = "aborted"
  /\ UNCHANGED <<raised, dir, task>>

GoesWrong == Refuse \/ Abort

(* resolve_to_server_pack: a lookup that fails leaves the URL as it is, but *)
(* cfwidget's reply may be no JSON at all.                                 *)
Resolve ==
  /\ step = "resolving"
  /\ \/ step' = "fetching" /\ UNCHANGED <<raised, dir, task>>
     \/ Refuse

(* The zip: a client pack (its manifest read), a server pack that wants its *)
(* loader installed, or one that brings its run.sh.  What mods a server    *)
(* pack brings is not told apart.                                          *)
FetchZip ==
  /\ step = "fetching"
  /\ \/ step' \in {"loading", "baking"} /\ UNCHANGED run_sh
     \/ step' = "done" /\ run_sh' = TRUE
  /\ UNCHANGED <<raised, missing, mods_dir, jars, part, task>>

(* The loader's installer runs in a container of its own, in a thread. *)
Bake ==
  /\ step = "baking"
  /\ step' = "done" /\ run_sh' = TRUE
  /\ UNCHANGED <<raised, missing, mods_dir, jars, part, task>>

LoadThenGather ==
  /\ step = "loading"
  /\ step' = "gathering" /\ run_sh' = TRUE
  /\ mods_dir' = TRUE
  /\ task' = [e \in Entries |-> Task("waiting")]
  /\ UNCHANGED <<raised, missing, jars, part>>

StepFails ==
  /\ step \in {"fetching", "baking", "loading"}
  /\ GoesWrong

-----------------------------------------------------------------------------
(* one(entry) and download_mod *)

(* The list names the entry by its id where its file's name belongs. *)
Settles_ById(e, pc) == task' = [task EXCEPT ![e] = [Task(pc) EXCEPT !.name = e]]

Settles(e, pc) == task' = [task EXCEPT ![e] = [Task(pc) EXCEPT !.name = task[e].name]]

(* The first error to reach gather is the one that it raises. *)
Raises(e, kind) ==
  /\ task' = [task EXCEPT ![e].pc = "raised", ![e].holds = "none"]
  /\ raised' = IF raised = None THEN kind ELSE raised

(* The semaphore has a slot. *)
TaskStarts(e) ==
  /\ task[e].pc = "waiting" /\ Cardinality(Running) < Parallel
  /\ task' = [task EXCEPT ![e].pc = "naming"]
  /\ UNCHANGED <<step, raised, dir>>

(* An error of the stream is taken for its end. *)
TaskFails_Swallowed(e) ==
  /\ task[e].pc \in {"naming", "asking", "streaming"}
  /\ Settles(e, IF task[e].pc = "streaming" THEN "fetched" ELSE "listed")
  /\ UNCHANGED <<step, raised, dir>>

(* fetch_filename or the CDN says no: a CurseForgeError, which is listed.  *)
(* A stream that breaks leaves its .part.                                  *)
TaskFails(e) ==
  /\ task[e].pc \in {"naming", "asking", "streaming"}
  /\ Settles(e, "listed")
  /\ UNCHANGED <<step, raised, dir>>

(* A reply that is no JSON. *)
TaskReadsNoJson(e) ==
  /\ task[e].pc = "naming"
  /\ Raises(e, "value")
  /\ UNCHANGED <<step, dir>>

(* mods/ is made, with its parents; a jar that is there is taken for this  *)
(* one, unless it is empty, as a torn one may be.                          *)
TaskNamed(e) ==
  /\ task[e].pc = "naming"
  /\ mods_dir' = TRUE
  /\ \E n \in Mods, pc \in {"asking", "fetched"} :
       /\ pc = "asking" => jars[n] \in {None, Torn}
       /\ pc = "fetched" => jars[n] # None
       /\ task' = [task EXCEPT ![e].name = n, ![e].pc = pc]
  /\ UNCHANGED <<step, raised, run_sh, missing, jars, part>>

(* tmp.open("wb"), once the CDN has answered: it truncates the .part that  *)
(* another task may be writing.                                            *)
TaskOpens(e) ==
  LET n == task[e].name
      others == Writers(n, "part")
  IN  /\ task[e].pc = "asking"
      /\ IF ~ mods_dir
         THEN Raises(e, "os") /\ UNCHANGED part
         ELSE /\ part' = [part EXCEPT ![n] = Torn]
              /\ task' = [f \in Entries |->
                            IF f = e THEN [pc |-> "streaming", name |-> n, holds |-> "part",
                                           mixed |-> others # {}]
                            ELSE [task[f] EXCEPT !.mixed = @ \/ f \in others]]
              /\ UNCHANGED raised
      /\ UNCHANGED <<step, run_sh, missing, mods_dir, jars>>

(* What the file holds once e has written all of it. *)
Written(e) == IF task[e].mixed THEN {e, Torn} ELSE {e}

(* tmp.rename(target): whatever the .part is, and whoever is writing it.   *)
Renamed(e, n, whole) ==
  /\ jars' = [jars EXCEPT ![n] = IF task[e].holds = "part" THEN whole ELSE part[n]]
  /\ part' = [part EXCEPT ![n] = None]
  /\ task' = [f \in Entries |->
                IF f = e THEN [Task("fetched") EXCEPT !.name = n]
                ELSE IF f \in Writers(n, "part") THEN [task[f] EXCEPT !.holds = "jar"]
                ELSE IF f \in Writers(n, "jar") THEN [task[f] EXCEPT !.holds = "none"]
                ELSE task[f]]
  /\ UNCHANGED raised

(* The last chunk is written, and the file renamed; without a .part there  *)
(* the rename raises FileNotFoundError, which is no CurseForgeError.       *)
TaskEnds(e) ==
  LET n == task[e].name
  IN  /\ task[e].pc = "streaming"
      /\ \E whole \in Written(e) :
           IF part[n] # None THEN Renamed(e, n, whole)
           ELSE /\ jars' = IF task[e].holds = "jar" THEN [jars EXCEPT ![n] = whole] ELSE jars
                /\ Raises(e, "os")
                /\ UNCHANGED part
      /\ UNCHANGED <<step, run_sh, missing, mods_dir>>

-----------------------------------------------------------------------------
(* gather returns: the list of what failed, the overrides, create's rest.  *)
GatherReturns ==
  /\ step = "gathering" /\ Settled = Entries /\ raised = None
  /\ \/ step' = "done" /\ missing' = Listed
        /\ UNCHANGED <<raised, run_sh, mods_dir, jars, part, task>>
     \/ GoesWrong

GatherRaises ==
  /\ step = "gathering" /\ raised # None
  /\ IF raised = "value" THEN Refuse ELSE Abort

Create == Resolve \/ FetchZip \/ Bake \/ LoadThenGather \/ StepFails
          \/ GatherReturns \/ GatherRaises

Download(e) == TaskStarts(e) \/ TaskFails(e) \/ TaskReadsNoJson(e) \/ TaskNamed(e)
               \/ TaskOpens(e) \/ TaskEnds(e)

Next == Create \/ \E e \in Entries : Download(e)

Spec == Init /\ [][Next]_vars

-----------------------------------------------------------------------------
(* The directory and the tasks have the shapes that their comments give    *)
(* them; a .part never stands for an entry's jar.                          *)
TypeOK ==
  /\ step \in {"resolving", "fetching", "baking", "loading", "gathering", "done",
               "refused", "aborted"}
  /\ run_sh \in BOOLEAN /\ missing \subseteq Entries
  /\ raised \in {None, "value", "os"}
  /\ mods_dir \in BOOLEAN
  /\ jars \in [Mods -> Entries \cup {Torn, None}]
  /\ part \in [Mods -> {Torn, None}]
  /\ task \in [Entries -> Tasks]

(* No other entry's file has e's name. *)
Alone(e) == \A f \in Entries \ {e} : task[f].name # task[e].name

=============================================================================
