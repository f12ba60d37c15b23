---------------------------- MODULE ServerMods ----------------------------
(***************************************************************************)
(* The jars of one Java server while its pages change them: the plugin     *)
(* pages over domain/plugins.py, and the marketplace's installs of         *)
(* runtime/installer.py.  The pages' file operations hold the event loop,  *)
(* so no other request runs between two of them; but the server's JVM may  *)
(* boot there (docker restarts it by itself), and the manager may die.     *)
(***************************************************************************)
EXTENDS FiniteSets

CONSTANTS
  Requests,   \* request slots that await something
  Jars,       \* names of jars in the directory that the server loads
  Plugins,    \* all of them, if that is plugins/: its pages change nothing else
  Builds,     \* whole jars that may be there
  Offered,    \* those of them an operator can upload, update to or install
  Torn,       \* a jar that is not whole
  None,
  MayCrash    \* whether the manager's process may die

VARIABLES
  jars,       \* <name>.jar
  disabled,   \* plugins/<name>.jar.disabled
  upload,     \* plugins/<name>.jar.upload
  loaded,     \* the jars that the JVM booted with, as they are now
  mapped,     \* those of them whose file still has its name
  loop,       \* what holds the event loop between two file operations
  req,        \* what each request slot awaits
  streamed    \* history: names an install has written into

files == <<jars, disabled, upload>>
jvm   == <<loaded, mapped>>
vars  == <<files, jvm, loop, req, streamed>>

Down == [j \in Jars |-> None]

(* replace_plugin and save_upload, at their next file operation. *)
Free  == [at |-> "free", file |-> None, target |-> None, build |-> None]
Loops == [at : {"free", "write", "unlink", "rename"}, file : Plugins \cup {None},
          target : Plugins \cup {None}, build : Builds \cup {None}]

(* holds: under which name the file an install writes is; mixed: whether   *)
(* another install has had it open as well.                                *)
Idle == [pc |-> "idle", file |-> None, target |-> None, build |-> None,
         holds |-> "none", mixed |-> FALSE]
Reqs == [pc : {"idle", "updating", "streaming"}, file : Plugins \cup {None},
         target : Jars \cup {None}, build : Builds \cup {None},
         holds : {"none", "jar", "disabled"}, mixed : BOOLEAN]

Writers(j, where) ==
  {r \in Requests : req[r].pc = "streaming" /\ req[r].target = j /\ req[r].holds = where}

(* The requests once the files that two names stood for have moved. *)
Moved(j, jarTo, disabledTo) ==
  [r \in Requests |->
     IF r \in Writers(j, "jar") THEN [req[r] EXCEPT !.holds = jarTo]
     ELSE IF r \in Writers(j, "disabled") THEN [req[r] EXCEPT !.holds = disabledTo]
     ELSE req[r]]

Init ==
  /\ jars = [j \in Jars |-> None]
  /\ disabled = [p \in Plugins |-> None] /\ upload = [p \in Plugins |-> None]
  /\ loaded = Down /\ mapped = {}
  /\ loop = Free /\ req = [r \in Requests |-> Idle]
  /\ streamed = {}

-----------------------------------------------------------------------------
(* The container.  A JVM loads what ends in .jar, and keeps the files open. *)
Boot ==
  /\ loaded' = jars /\ mapped' = {j \in Jars : jars[j] # None}
  /\ UNCHANGED <<files, loop, req, streamed>>

Stop ==
  /\ loaded' = Down /\ mapped' = {}
  /\ UNCHANGED <<files, loop, req, streamed>>

-----------------------------------------------------------------------------
(* The plugin pages.  The file is one that the page listed, which may be   *)
(* gone; a rename onto a name takes the file away that had it.             *)
Disable(p) ==
  /\ loop = Free /\ jars[p] # None
  /\ disabled' = [disabled EXCEPT ![p] = jars[p]] /\ jars' = [jars EXCEPT ![p] = None]
  /\ req' = Moved(p, "disabled", "none")
  /\ mapped' = mapped \ {p}
  /\ UNCHANGED <<upload, loaded, loop, streamed>>

Enable(p) ==
  /\ loop = Free /\ disabled[p] # None
  /\ jars' = [jars EXCEPT ![p] = disabled[p]] /\ disabled' = [disabled EXCEPT ![p] = None]
  /\ req' = Moved(p, "none", "jar")
  /\ mapped' = mapped \ {p}
  /\ UNCHANGED <<upload, loaded, loop, streamed>>

Remove(p) ==
  /\ loop = Free
  /\ \/ /\ jars[p] # None /\ jars' = [jars EXCEPT ![p] = None]
        /\ req' = Moved(p, "none", "disabled")
        /\ mapped' = mapped \ {p}
        /\ UNCHANGED disabled
     \/ /\ disabled[p] # None /\ disabled' = [disabled EXCEPT ![p] = None]
        /\ req' = Moved(p, "jar", "none")
        /\ UNCHANGED <<jars, mapped>>
  /\ UNCHANGED <<upload, loaded, loop, streamed>>

(* The old jar is unlinked first, as a rename onto its name would do. *)
OpensTemp_UnlinksFirst(file, target, build) ==
  /\ loop' = [at |-> IF file = None THEN "write" ELSE "unlink",
              file |-> file, target |-> target, build |-> build]
  /\ upload' = [upload EXCEPT ![target] = Torn]

(* save_upload and replace_plugin open the temp file of the new name.      *)
OpensTemp(file, target, build) ==
  /\ loop' = [at |-> "write", file |-> file, target |-> target, build |-> build]
  /\ upload' = [upload EXCEPT ![target] = Torn]

(* An upload is read to its end before the handler gets it. *)
UploadBegins ==
  /\ loop = Free
  /\ \E p \in Plugins, b \in Offered : OpensTemp(None, p, b)
  /\ UNCHANGED <<jars, disabled, jvm, req, streamed>>

(* plugins_update_one awaits its download: file is what the page listed.   *)
UpdateBegins(r) ==
  /\ loop = Free /\ req[r] = Idle
  /\ \E p, q \in Plugins, b \in Offered :
       req' = [req EXCEPT ![r] = [Idle EXCEPT !.pc = "updating", !.file = p,
                                              !.target = q, !.build = b]]
  /\ UNCHANGED <<files, jvm, loop, streamed>>

(* replace_plugin, if the file is still there. *)
UpdateFetched(r) ==
  /\ loop = Free /\ req[r].pc = "updating"
  /\ IF jars[req[r].file] = None THEN UNCHANGED <<loop, upload>>
     ELSE OpensTemp(req[r].file, req[r].target, req[r].build)
  /\ req' = [req EXCEPT ![r] = Idle]
  /\ UNCHANGED <<jars, disabled, jvm, streamed>>

(* The temp file is renamed whatever is_zipfile says of it. *)
TempWritten_NotLookedAt ==
  /\ loop.at = "write"
  /\ upload' \in {upload, [upload EXCEPT ![loop.target] = loop.build]}
  /\ loop' = [loop EXCEPT !.at = IF loop.file = None THEN "rename" ELSE "unlink"]
  /\ UNCHANGED <<jars, disabled, jvm, req, streamed>>

(* It is filled and looked at: a full disk or a file that is no zip ends   *)
(* it here.                                                                *)
TempWritten ==
  /\ loop.at = "write"
  /\ \/ /\ upload' = [upload EXCEPT ![loop.target] = loop.build]
        /\ loop' = [loop EXCEPT !.at = IF loop.file = None THEN "rename" ELSE "unlink"]
     \/ loop' = Free /\ upload' \in {upload, [upload EXCEPT ![loop.target] = None]}
  /\ UNCHANGED <<jars, disabled, jvm, req, streamed>>

OldUnlinked ==
  /\ loop.at = "unlink"
  /\ jars' = [jars EXCEPT ![loop.file] = None]
  /\ mapped' = mapped \ {loop.file}
  /\ req' = Moved(loop.file, "none", "disabled")
  /\ loop' = [loop EXCEPT !.at = "rename"]
  /\ UNCHANGED <<disabled, upload, loaded, streamed>>

TempRenamed ==
  LET q == loop.target
  IN  /\ loop.at = "rename"
      /\ jars' = [jars EXCEPT ![q] = upload[q]] /\ upload' = [upload EXCEPT ![q] = None]
      /\ mapped' = mapped \ {q}
      /\ req' = Moved(q, "none", "disabled")
      /\ loop' = Free
      /\ UNCHANGED <<disabled, loaded, streamed>>

-----------------------------------------------------------------------------
(* mods_install, once it has a version (and the snapshot, see Backups) and *)
(* the first answer: it streams into the jar's own name, and hashes what   *)
(* it was sent.  target.open("wb") truncates the file, and the JVM's too.  *)
InstallOpens(r) ==
  /\ loop = Free /\ req[r] = Idle
  /\ \E j \in Jars, b \in Offered :
       LET others == Writers(j, "jar")
       IN  /\ jars' = [jars EXCEPT ![j] = Torn]
           /\ loaded' = IF j \in mapped THEN [loaded EXCEPT ![j] = Torn] ELSE loaded
           /\ streamed' = streamed \cup {j}
           /\ req' = [q \in Requests |->
                IF q = r THEN [Idle EXCEPT !.pc = "streaming", !.target = j, !.build = b,
                                           !.holds = "jar", !.mixed = others # {}]
                ELSE [req[q] EXCEPT !.mixed = @ \/ q \in others]]
  /\ UNCHANGED <<disabled, upload, mapped, loop>>

(* What the file under its present name holds once all of it is written.   *)
Filled(r, names, where, whole) ==
  IF req[r].holds = where THEN [names EXCEPT ![req[r].target] = whole] ELSE names

InstallEnds(r) ==
  /\ loop = Free /\ req[r].pc = "streaming"
  /\ \E whole \in IF req[r].mixed THEN {req[r].build, Torn} ELSE {req[r].build} :
       /\ jars' = Filled(r, jars, "jar", whole)
       /\ disabled' = Filled(r, disabled, "disabled", whole)
       /\ loaded' = IF req[r].holds = "jar" /\ req[r].target \in mapped
                    THEN [loaded EXCEPT ![req[r].target] = whole] ELSE loaded
  /\ req' = [req EXCEPT ![r] = Idle]
  /\ UNCHANGED <<upload, mapped, loop, streamed>>

(* A sha1 that is not the one promised: the name is unlinked, whatever     *)
(* file has it by now.                                                     *)
InstallMismatches(r) ==
  LET j == req[r].target
  IN  /\ loop = Free /\ req[r].pc = "streaming"
      /\ jars' = [jars EXCEPT ![j] = None] /\ mapped' = mapped \ {j}
      /\ req' = [Moved(j, "none", "disabled") EXCEPT ![r] = Idle]
      /\ UNCHANGED <<disabled, upload, loaded, loop, streamed>>

(* An upstream error, or a stream that breaks: the jar stays as it is. *)
AwaitFails(r) ==
  /\ loop = Free /\ req[r] # Idle
  /\ req' = [req EXCEPT ![r] = Idle]
  /\ UNCHANGED <<files, jvm, loop, streamed>>

-----------------------------------------------------------------------------
Crash ==
  /\ MayCrash
  /\ loop' = Free /\ req' = [r \in Requests |-> Idle]
  /\ UNCHANGED <<files, jvm, streamed>>

Next ==
  \/ Boot \/ Stop \/ Crash
  \/ \E p \in Plugins : Disable(p) \/ Enable(p) \/ Remove(p)
  \/ UploadBegins \/ TempWritten \/ OldUnlinked \/ TempRenamed
  \/ \E r \in Requests :
       \/ UpdateBegins(r) \/ UpdateFetched(r)
       \/ InstallOpens(r) \/ InstallEnds(r) \/ InstallMismatches(r)
       \/ AwaitFails(r)

Spec == Init /\ [][Next]_vars

-----------------------------------------------------------------------------
(* The directory, the JVM and the requests have the shapes that their     *)
(* comments give them.                                                     *)
TypeOK ==
  /\ jars \in [Jars -> Builds \cup {Torn, None}]
  /\ disabled \in [Plugins -> Builds \cup {Torn, None}]
  /\ upload \in [Plugins -> Builds \cup {Torn, None}]
  /\ loaded \in [Jars -> Builds \cup {Torn, None}]
  /\ mapped \subseteq Jars
  /\ loop \in Loops
  /\ req \in [Requests -> Reqs]
  /\ streamed \subseteq Jars

(* save_upload and replace_plugin, domain/plugins.py: "so a half-write     *)
(* can't get loaded by the server".  A JVM that has half a jar has it from *)
(* a marketplace install, which streams under the jar's own name.          *)
HalvesAreStreamed == \A j \in Jars : loaded[j] = Torn => j \in streamed

(* replace_plugin: at each of its file operations, where the manager may   *)
(* die, the plugin's old jar is there, or all of the new one is.           *)
UpdateKeepsOne ==
  loop.file # None => jars[loop.file] # None \/ upload[loop.target] = loop.build
=============================================================================
