------------------------- MODULE ServerContentProofs -------------------------
(***************************************************************************)
(* Theorems of ServerContent, for any number of entries, names, plugins,   *)
(* builds and requests.                                                    *)
(*                                                                         *)
(* PaperInv is about the pages of a plugin server: a half jar is where an  *)
(* install has streamed (Sound), and a page that holds the event loop has  *)
(* what its next file operation needs (Looped).                            *)
(*                                                                         *)
(* Of a modpack server, Gathering says how far the parallel downloads are: *)
(* a half jar, a .part and a stream that another has disturbed each leave  *)
(* a task behind that will be in trouble, if none is yet (Torn1, Torn2,    *)
(* Torn3), so that gather raises or lists an entry; and a task whose file  *)
(* name is its own has its file (Own).  Done carries this over to what the *)
(* server boots with.                                                      *)
(***************************************************************************)
EXTENDS ServerContent, TLAPS

Held(r, names) ==
  /\ req[r].target \in names /\ req[r].target \in streamed
  /\ req[r].build \in Builds

(* A plugin server *)
Sound ==
  \A j \in Plugins : jars[j] = Torn \/ disabled[j] = Torn \/ loaded[j] = Torn => j \in streamed

Asked ==
  \A r \in Requests :
    /\ req[r].pc = "streaming" => Held(r, Plugins)
    /\ req[r].pc = "updating" => /\ req[r].file \in Plugins /\ req[r].target \in Plugins
                                 /\ req[r].build \in Builds

Looped ==
  /\ loop.at = "free" => loop.file = None
  /\ loop.at # "free" => loop.target \in Plugins /\ loop.build \in Builds
  /\ loop.at \in {"unlink", "rename"} => upload[loop.target] = loop.build
  /\ loop.at = "unlink" => loop.file \in Plugins
  /\ loop.at = "write" /\ loop.file # None => jars[loop.file] # None

PaperInv == Paper!TypeOK /\ Sound /\ Asked /\ Looped

(* A modpack server, before create is done *)
CreateTyped ==
  /\ step \in {"resolving", "fetching", "baking", "loading", "gathering", "done",
               "refused", "aborted"}
  /\ run_sh \in BOOLEAN /\ missing \subseteq Entries /\ raised \in {None, "value", "os"}
  /\ mods_dir \in BOOLEAN
  /\ part \in [Mods -> {Torn, None}]
  /\ task \in [Entries -> Pack!Tasks]
  /\ \A e \in Entries : task[e].pc \in {"asking", "streaming", "fetched"} => task[e].name \in Mods

Unused ==
  /\ disabled = [p \in {} |-> None] /\ upload = [p \in {} |-> None]
  /\ loaded = Modded!Down /\ mapped = {} /\ streamed = {}
  /\ loop = Modded!Free /\ req = [r \in Requests |-> Modded!Idle]
  /\ jars \in [Mods -> Entries \cup {Torn, None}]
  /\ missing = {}

Opening ==
  /\ raised = None
  /\ jars = [n \in Mods |-> None] /\ part = [n \in Mods |-> None]
  /\ task = [e \in Entries |-> Pack!Task("none")]

Trouble == \E e \in Entries : task[e].pc \in {"listed", "raised"}

Streams(e, n, where) ==
  task[e].pc = "streaming" /\ task[e].name = n /\ task[e].holds = where

Torn1 ==
  \A e \in Entries, n \in Mods :
    Streams(e, n, "part") /\ task[e].mixed
      => Trouble \/ \E f \in Entries \ {e} : Streams(f, n, "part")

Torn2 == \A n \in Mods : jars[n] = Torn => Trouble \/ \E f \in Entries : Streams(f, n, "jar")

Torn3 == \A n \in Mods : part[n] # None => Trouble \/ \E f \in Entries : Streams(f, n, "part")

Named ==
  \A n \in Mods : jars[n] # None \/ part[n] # None => \E f \in Entries : task[f].name = n

Owns(e) ==
  Pack!Alone(e) =>
    /\ task[e].pc = "streaming" =>
         ~ task[e].mixed /\ task[e].holds = "part" /\ part[task[e].name] # None
    /\ task[e].pc = "fetched" => jars[task[e].name] = e

Own == \A e \in Entries : Owns(e)

Told(e) ==
  /\ task[e].pc # "none"
  /\ task[e].pc \in {"waiting", "naming"} => task[e].name = None
  /\ task[e].pc = "raised" => raised # None

Gathering ==
  /\ Torn1 /\ Torn2 /\ Torn3 /\ Named /\ Own
  /\ \A e \in Entries : Told(e)

(* A modpack server, once it is *)
Quiet ==
  \A e \in Entries :
    /\ task[e].pc \in {"none", "fetched", "listed"}
    /\ task[e].pc = "none" => task[e].name = None
    /\ task[e].pc = "listed" => e \in missing

Whole(names) ==
  /\ missing = {} => \A n \in Mods : names[n] = Torn => n \in streamed
  /\ \A e \in Entries :
       task[e].pc = "fetched" /\ task[e].name \notin streamed /\ Pack!Alone(e)
         => names[task[e].name] = e

Serving ==
  /\ loop = Modded!Free
  /\ mapped \subseteq {j \in Mods : loaded[j] # None}
  /\ \A r \in Requests :
       req[r].pc # "updating" /\ (req[r].pc = "streaming" => Held(r, Mods))

Done == Modded!TypeOK /\ Quiet /\ Serving /\ Whole(jars) /\ (loaded = Modded!Down \/ Whole(loaded))

ModpackInv ==
  /\ CreateTyped
  /\ step # "done" => Unused
  /\ step \in {"resolving", "fetching", "loading", "baking"} => Opening
  /\ step = "gathering" => Gathering
  /\ step = "done" => Done

IInv ==
  \/ platform = "paper" /\ PaperInv
  \/ platform = "modpack" /\ ModpackInv

-----------------------------------------------------------------------------
LEMMA Tokens ==
  /\ None # Torn /\ None # "value" /\ None # "os"
  /\ None \notin Entries /\ None \notin Builds /\ None \notin Mods /\ None \notin Plugins
  /\ Torn \notin Entries /\ Torn \notin Builds /\ Torn \notin Mods /\ Torn \notin Plugins
BY ContentAssumption DEF ContentAssumption

JarT  == Builds \cup {Torn, None}
LoopT == [at : {"free", "write", "unlink", "rename"}, file : Plugins \cup {None},
          target : Plugins \cup {None}, build : Builds \cup {None}]
ReqT  == [pc : {"idle", "updating", "streaming"}, file : Plugins \cup {None},
          target : Plugins \cup {None}, build : Builds \cup {None},
          holds : {"none", "jar", "disabled"}, mixed : BOOLEAN]

PaperTyped ==
  /\ jars \in [Plugins -> JarT] /\ disabled \in [Plugins -> JarT]
  /\ upload \in [Plugins -> JarT] /\ loaded \in [Plugins -> JarT]
  /\ mapped \subseteq Plugins /\ loop \in LoopT /\ req \in [Requests -> ReqT]
  /\ streamed \subseteq Plugins

LEMMA PaperShapes == Paper!TypeOK <=> PaperTyped
BY DEF Paper!TypeOK, Paper!Loops, Paper!Reqs, PaperTyped, JarT, LoopT, ReqT

LEMMA NextPaperShapes == Paper!TypeOK' <=> PaperTyped'
BY DEF Paper!TypeOK, Paper!Loops, Paper!Reqs, PaperTyped, JarT, LoopT, ReqT

LEMMA FreeLoop ==
  Paper!Free \in LoopT /\ Paper!Free.at = "free" /\ Paper!Free.file = None
BY DEF Paper!Free, LoopT

LEMMA IdleReq ==
  /\ Paper!Idle \in ReqT /\ Paper!Idle.pc = "idle" /\ Paper!Idle.file = None
  /\ Paper!Idle.target = None /\ Paper!Idle.build = None /\ Paper!Idle.holds = "none"
  /\ Paper!Idle.mixed = FALSE
BY DEF Paper!Idle, ReqT

Same(r) ==
  /\ req'[r].pc = req[r].pc /\ req'[r].file = req[r].file
  /\ req'[r].target = req[r].target /\ req'[r].build = req[r].build

LEMMA PaperMoved ==
  ASSUME req \in [Requests -> ReqT], NEW j, NEW x \in {"none", "jar", "disabled"},
         NEW y \in {"none", "jar", "disabled"}, req' = Paper!Moved(j, x, y)
  PROVE  req' \in [Requests -> ReqT] /\ \A r \in Requests : Same(r)
BY DEF Paper!Moved, Paper!Writers, ReqT, Same

LEMMA AskedStays ==
  ASSUME Asked, streamed \subseteq streamed',
         \A r \in Requests : req'[r].pc = "idle" \/ Same(r)
  PROVE  Asked'
BY DEF Asked, Held, Same

LEMMA PaperNext ==
  ASSUME PaperTyped', Sound', Asked', Looped' PROVE PaperInv'
BY NextPaperShapes DEF PaperInv

(* The container and the process *)
LEMMA PaperJvm ==
  ASSUME PaperInv, Paper!Boot \/ Paper!Stop \/ Paper!Crash PROVE PaperInv'
<1>1. PaperTyped /\ Sound /\ Asked /\ Looped
  BY PaperShapes DEF PaperInv
<1>2. CASE Paper!Boot
  <2>1. /\ jars' = jars /\ disabled' = disabled /\ upload' = upload /\ loop' = loop
        /\ req' = req /\ streamed' = streamed /\ loaded' = jars /\ mapped' \subseteq Plugins
    BY <1>2 DEF Paper!Boot, Paper!files
  <2>2. PaperTyped'
    BY <1>1, <2>1 DEF PaperTyped
  <2>3. Sound' /\ Asked' /\ Looped'
    BY <1>1, <2>1 DEF Sound, Asked, Held, Looped
  <2>4. QED
    BY <2>2, <2>3, PaperNext
<1>3. CASE Paper!Stop
  <2>1. /\ jars' = jars /\ disabled' = disabled /\ upload' = upload /\ loop' = loop
        /\ req' = req /\ streamed' = streamed /\ loaded' = [j \in Plugins |-> None]
        /\ mapped' \subseteq Plugins
    BY <1>3 DEF Paper!Stop, Paper!files, Paper!Down
  <2>2. PaperTyped'
    BY <1>1, <2>1 DEF PaperTyped, JarT
  <2>3. Sound' /\ Asked' /\ Looped'
    BY <1>1, <2>1, Tokens DEF Sound, Asked, Held, Looped
  <2>4. QED
    BY <2>2, <2>3, PaperNext
<1>4. CASE Paper!Crash
  <2>1. /\ jars' = jars /\ disabled' = disabled /\ upload' = upload /\ loop' = Paper!Free
        /\ req' = [r \in Requests |-> Paper!Idle] /\ streamed' = streamed
        /\ loaded' = loaded /\ mapped' = mapped
    BY <1>4 DEF Paper!Crash, Paper!files, Paper!jvm
  <2>2. PaperTyped'
    BY <1>1, <2>1, FreeLoop, IdleReq DEF PaperTyped
  <2>3. Asked'
    BY <1>1, <2>1, IdleReq, AskedStays
  <2>4. Sound' /\ Looped'
    BY <1>1, <2>1, FreeLoop DEF Sound, Looped
  <2>5. QED
    BY <2>2, <2>3, <2>4, PaperNext
<1>5. QED
  BY <1>2, <1>3, <1>4

(* A page that leaves the event loop as it found it. *)
LEMMA FreeStep ==
  ASSUME PaperInv, loop = Paper!Free, loop' = loop, upload' = upload,
         jars' \in [Plugins -> JarT], disabled' \in [Plugins -> JarT],
         loaded' \in [Plugins -> JarT], mapped' \subseteq Plugins,
         streamed' \subseteq Plugins, streamed \subseteq streamed',
         req' \in [Requests -> ReqT], Asked',
         \A j \in Plugins :
            jars'[j] = Torn \/ disabled'[j] = Torn \/ loaded'[j] = Torn => j \in streamed'
  PROVE  PaperInv'
<1>1. PaperTyped'
  BY PaperShapes, FreeLoop DEF PaperInv, PaperTyped
<1>2. Sound' /\ Looped'
  BY FreeLoop DEF Sound, Looped
<1>3. QED
  BY <1>1, <1>2, PaperNext

LEMMA PaperToggles ==
  ASSUME PaperInv, NEW p \in Plugins, Paper!Disable(p) \/ Paper!Enable(p) \/ Paper!Remove(p)
  PROVE  PaperInv'
<1>1. PaperTyped /\ Sound /\ Asked
  BY PaperShapes DEF PaperInv
<1>2. /\ loop = Paper!Free /\ loop' = loop /\ upload' = upload /\ loaded' = loaded
      /\ streamed' = streamed /\ mapped' \subseteq Plugins
  BY <1>1 DEF Paper!Disable, Paper!Enable, Paper!Remove, PaperTyped
<1>3. PICK x \in {"none", "jar", "disabled"}, y \in {"none", "jar", "disabled"} :
        req' = Paper!Moved(p, x, y)
  BY DEF Paper!Disable, Paper!Enable, Paper!Remove
<1>4. req' \in [Requests -> ReqT] /\ \A r \in Requests : Same(r)
  BY <1>1, <1>3, PaperMoved DEF PaperTyped
<1>5. Asked'
  BY <1>1, <1>2, <1>4, AskedStays
<1>6. /\ jars' \in [Plugins -> JarT] /\ disabled' \in [Plugins -> JarT]
      /\ \A j \in Plugins : jars'[j] = Torn \/ disabled'[j] = Torn => j \in streamed
  <2>1. CASE Paper!Disable(p)
    BY <1>1, <2>1, Tokens DEF Paper!Disable, PaperTyped, JarT, Sound
  <2>2. CASE Paper!Enable(p)
    BY <1>1, <2>2, Tokens DEF Paper!Enable, PaperTyped, JarT, Sound
  <2>3. CASE Paper!Remove(p)
    BY <1>1, <2>3, Tokens DEF Paper!Remove, PaperTyped, JarT, Sound
  <2>4. QED
    BY <2>1, <2>2, <2>3
<1>7. QED
  BY <1>1, <1>2, <1>4, <1>5, <1>6, FreeStep DEF PaperTyped, Sound

(* save_upload and replace_plugin *)
LEMMA OpensLoop ==
  ASSUME PaperInv, NEW f \in Plugins \cup {None}, NEW q \in Plugins, NEW b \in Builds,
         f # None => jars[f] # None, Paper!OpensTemp(f, q, b),
         UNCHANGED <<jars, disabled, loaded, mapped, streamed>>,
         req' \in [Requests -> ReqT], Asked'
  PROVE  PaperInv'
<1>1. PaperTyped /\ Sound /\ Asked
  BY PaperShapes DEF PaperInv
<1>2. /\ loop' = [at |-> "write", file |-> f, target |-> q, build |-> b]
      /\ upload' = [upload EXCEPT ![q] = Torn]
  BY DEF Paper!OpensTemp
<1>3. /\ loop' \in LoopT /\ loop'.at = "write" /\ loop'.file = f /\ loop'.target = q
      /\ loop'.build = b
  BY <1>2 DEF LoopT
<1>4. upload' \in [Plugins -> JarT]
  BY <1>1, <1>2 DEF PaperTyped, JarT
<1>5. PaperTyped'
  BY <1>1, <1>3, <1>4 DEF PaperTyped
<1>6. Sound'
  BY <1>1 DEF Sound
<1>7. Looped'
  BY <1>3 DEF Looped
<1>8. QED
  BY <1>5, <1>6, <1>7, PaperNext

LEMMA PaperBegins ==
  ASSUME PaperInv, Paper!UploadBegins PROVE PaperInv'
<1>1. PaperTyped /\ Asked
  BY PaperShapes DEF PaperInv
<1>2. /\ UNCHANGED <<jars, disabled, loaded, mapped, streamed>> /\ req' = req
  BY DEF Paper!UploadBegins, Paper!jvm
<1>3. PICK p \in Plugins, b \in Builds : Paper!OpensTemp(None, p, b)
  BY DEF Paper!UploadBegins
<1>4. req' \in [Requests -> ReqT] /\ Asked'
  BY <1>1, <1>2 DEF PaperTyped, Asked, Held
<1>5. QED
  BY <1>2, <1>3, <1>4, OpensLoop

LEMMA OneReq ==
  ASSUME req \in [Requests -> ReqT], NEW r \in Requests, NEW x \in ReqT,
         req' = [req EXCEPT ![r] = x]
  PROVE  /\ req' \in [Requests -> ReqT] /\ req'[r] = x
         /\ \A q \in Requests \ {r} : req'[q] = req[q]
OBVIOUS

LEMMA Idles ==
  ASSUME PaperTyped, Asked, NEW r \in Requests, req' = [req EXCEPT ![r] = Paper!Idle],
         streamed \subseteq streamed'
  PROVE  req' \in [Requests -> ReqT] /\ Asked'
<1>1. /\ req' \in [Requests -> ReqT] /\ req'[r] = Paper!Idle
      /\ \A q \in Requests \ {r} : req'[q] = req[q]
  BY IdleReq, OneReq DEF PaperTyped
<1>2. \A q \in Requests : req'[q].pc = "idle" \/ Same(q)
  BY <1>1, IdleReq DEF Same
<1>3. QED
  BY <1>1, <1>2, AskedStays

LEMMA PaperUpdates ==
  ASSUME PaperInv, NEW r \in Requests, Paper!UpdateBegins(r) \/ Paper!UpdateFetched(r)
  PROVE  PaperInv'
<1>1. PaperTyped /\ Sound /\ Asked
  BY PaperShapes DEF PaperInv
<1>2. CASE Paper!UpdateBegins(r)
  <2>1. PICK p \in Plugins, q \in Plugins, b \in Builds :
          req' = [req EXCEPT ![r] = [Paper!Idle EXCEPT !.pc = "updating", !.file = p,
                                                       !.target = q, !.build = b]]
    BY <1>2 DEF Paper!UpdateBegins
  <2> DEFINE x == [Paper!Idle EXCEPT !.pc = "updating", !.file = p, !.target = q, !.build = b]
  <2>2. x \in ReqT /\ x.pc = "updating" /\ x.file = p /\ x.target = q /\ x.build = b
    BY IdleReq DEF ReqT
  <2>3. req' = [req EXCEPT ![r] = x]
    BY <2>1
  <2> HIDE DEF x
  <2>4. /\ req' \in [Requests -> ReqT] /\ req'[r] = x
        /\ \A u \in Requests \ {r} : req'[u] = req[u]
    BY <1>1, <2>2, <2>3, OneReq DEF PaperTyped
  <2>5. /\ loop = Paper!Free /\ loop' = loop /\ upload' = upload /\ jars' = jars
        /\ disabled' = disabled /\ loaded' = loaded /\ mapped' = mapped /\ streamed' = streamed
    BY <1>2 DEF Paper!UpdateBegins, Paper!files, Paper!jvm
  <2>6. Asked'
    BY <1>1, <2>2, <2>4, <2>5 DEF Asked, Held
  <2>7. QED
    BY <1>1, <2>4, <2>5, <2>6, FreeStep DEF PaperTyped, Sound
<1>3. CASE Paper!UpdateFetched(r)
  <2>1. /\ UNCHANGED <<jars, disabled, loaded, mapped, streamed>>
        /\ jars' = jars /\ disabled' = disabled /\ loaded' = loaded /\ mapped' = mapped
        /\ streamed' = streamed /\ loop = Paper!Free
        /\ req' = [req EXCEPT ![r] = Paper!Idle] /\ req[r].pc = "updating"
    BY <1>3 DEF Paper!UpdateFetched, Paper!jvm
  <2>2. req' \in [Requests -> ReqT] /\ Asked'
    BY <1>1, <2>1, Idles
  <2>3. req[r].file \in Plugins /\ req[r].target \in Plugins /\ req[r].build \in Builds
    BY <1>1, <2>1 DEF Asked
  <2>4. CASE jars[req[r].file] = None
    <3>1. loop' = loop /\ upload' = upload
      BY <1>3, <2>4 DEF Paper!UpdateFetched
    <3>2. QED
      BY <1>1, <2>1, <2>2, <3>1, FreeStep DEF PaperTyped, Sound
  <2>5. CASE jars[req[r].file] # None
    <3>1. Paper!OpensTemp(req[r].file, req[r].target, req[r].build)
      BY <1>3, <2>5 DEF Paper!UpdateFetched
    <3>2. QED
      BY <2>1, <2>2, <2>3, <2>5, <3>1, OpensLoop
  <2>6. QED
    BY <2>4, <2>5
<1>4. QED
  BY <1>2, <1>3

LEMMA LoopAt ==
  ASSUME NEW l \in LoopT, NEW at \in {"unlink", "rename"}, NEW m, m = [l EXCEPT !.at = at]
  PROVE  m \in LoopT /\ m.at = at /\ m.file = l.file /\ m.target = l.target /\ m.build = l.build
BY DEF LoopT

LEMMA PaperWritten ==
  ASSUME PaperInv, Paper!TempWritten PROVE PaperInv'
<1>1. PaperTyped /\ Sound /\ Asked /\ Looped
  BY PaperShapes DEF PaperInv
<1>2. /\ loop.at = "write" /\ jars' = jars /\ disabled' = disabled /\ loaded' = loaded
      /\ mapped' = mapped /\ req' = req /\ streamed' = streamed
  BY DEF Paper!TempWritten, Paper!jvm
<1>3. loop.target \in Plugins /\ loop.build \in Builds /\ loop.file \in Plugins \cup {None}
  BY <1>1, <1>2 DEF Looped, PaperTyped, LoopT
<1>4. upload' \in [Plugins -> JarT] /\ loop' \in LoopT /\ Looped'
  <2> DEFINE at == IF loop.file = None THEN "rename" ELSE "unlink"
  <2>1. CASE /\ upload' = [upload EXCEPT ![loop.target] = loop.build]
             /\ loop' = [loop EXCEPT !.at = at]
    <3>1. upload' \in [Plugins -> JarT] /\ upload'[loop.target] = loop.build
      BY <1>1, <1>3, <2>1 DEF PaperTyped, JarT
    <3>2. at \in {"unlink", "rename"} /\ (at = "unlink" => loop.file \in Plugins)
      BY <1>3
    <3> HIDE DEF at
    <3>3. /\ loop' \in LoopT /\ loop'.at = at /\ loop'.file = loop.file
          /\ loop'.target = loop.target /\ loop'.build = loop.build
      BY <1>1, <2>1, <3>2, LoopAt DEF PaperTyped
    <3>4. QED
      BY <1>3, <3>1, <3>2, <3>3 DEF Looped
  <2>2. CASE loop' = Paper!Free /\ upload' \in {upload, [upload EXCEPT ![loop.target] = None]}
    BY <1>1, <2>2, FreeLoop DEF PaperTyped, JarT, Looped
  <2>3. QED
    BY <2>1, <2>2 DEF Paper!TempWritten
<1>5. PaperTyped'
  BY <1>1, <1>2, <1>4 DEF PaperTyped
<1>6. Sound' /\ Asked'
  BY <1>1, <1>2 DEF Sound, Asked, Held
<1>7. QED
  BY <1>4, <1>5, <1>6, PaperNext

LEMMA PaperUnlinked ==
  ASSUME PaperInv, Paper!OldUnlinked PROVE PaperInv'
<1>1. PaperTyped /\ Sound /\ Asked /\ Looped
  BY PaperShapes DEF PaperInv
<1>2. /\ loop.at = "unlink" /\ jars' = [jars EXCEPT ![loop.file] = None]
      /\ disabled' = disabled /\ upload' = upload /\ loaded' = loaded /\ streamed' = streamed
      /\ mapped' = mapped \ {loop.file} /\ loop' = [loop EXCEPT !.at = "rename"]
      /\ req' = Paper!Moved(loop.file, "none", "disabled")
  BY DEF Paper!OldUnlinked
<1>3. /\ loop' \in LoopT /\ loop'.at = "rename" /\ loop'.file = loop.file
      /\ loop'.target = loop.target /\ loop'.build = loop.build
  BY <1>1, <1>2, LoopAt DEF PaperTyped
<1>4. req' \in [Requests -> ReqT] /\ \A r \in Requests : Same(r)
  BY <1>1, <1>2, PaperMoved DEF PaperTyped
<1>5. jars' \in [Plugins -> JarT] /\ \A j \in Plugins : jars'[j] \in {jars[j], None}
  BY <1>1, <1>2 DEF PaperTyped, JarT
<1>6. PaperTyped'
  BY <1>1, <1>2, <1>3, <1>4, <1>5 DEF PaperTyped
<1>7. Sound'
  BY <1>1, <1>2, <1>5, Tokens DEF Sound
<1>8. Asked'
  BY <1>1, <1>2, <1>4, AskedStays
<1>9. Looped'
  BY <1>1, <1>2, <1>3 DEF Looped
<1>10. QED
  BY <1>6, <1>7, <1>8, <1>9, PaperNext

LEMMA PaperRenamed ==
  ASSUME PaperInv, Paper!TempRenamed PROVE PaperInv'
<1>1. PaperTyped /\ Sound /\ Asked /\ Looped
  BY PaperShapes DEF PaperInv
<1> DEFINE q == loop.target
<1>2. /\ loop.at = "rename" /\ loop' = Paper!Free
      /\ jars' = [jars EXCEPT ![q] = upload[q]] /\ upload' = [upload EXCEPT ![q] = None]
      /\ disabled' = disabled /\ loaded' = loaded /\ streamed' = streamed
      /\ mapped' = mapped \ {q} /\ req' = Paper!Moved(q, "none", "disabled")
  BY DEF Paper!TempRenamed
<1>3. q \in Plugins /\ upload[q] \in Builds
  BY <1>1, <1>2 DEF Looped
<1> HIDE DEF q
<1>4. req' \in [Requests -> ReqT] /\ \A r \in Requests : Same(r)
  BY <1>1, <1>2, PaperMoved DEF PaperTyped
<1>5. /\ jars' \in [Plugins -> JarT] /\ upload' \in [Plugins -> JarT]
      /\ \A j \in Plugins : jars'[j] \in {jars[j]} \cup Builds
  BY <1>1, <1>2, <1>3 DEF PaperTyped, JarT
<1>6. PaperTyped'
  BY <1>1, <1>2, <1>4, <1>5, FreeLoop DEF PaperTyped
<1>7. Sound'
  BY <1>1, <1>2, <1>5, Tokens DEF Sound
<1>8. Asked'
  BY <1>1, <1>2, <1>4, AskedStays
<1>9. Looped'
  BY <1>2, FreeLoop DEF Looped
<1>10. QED
  BY <1>6, <1>7, <1>8, <1>9, PaperNext

-----------------------------------------------------------------------------
(* The marketplace, on a plugin server *)

LEMMA PaperOpens ==
  ASSUME PaperInv, NEW r \in Requests, Paper!InstallOpens(r) PROVE PaperInv'
<1>1. PaperTyped /\ Sound /\ Asked
  BY PaperShapes DEF PaperInv
<1>2. PICK j \in Plugins, b \in Builds :
        LET others == Paper!Writers(j, "jar")
        IN  /\ jars' = [jars EXCEPT ![j] = Torn]
            /\ loaded' = IF j \in mapped THEN [loaded EXCEPT ![j] = Torn] ELSE loaded
            /\ streamed' = streamed \cup {j}
            /\ req' = [q \in Requests |->
                 IF q = r THEN [Paper!Idle EXCEPT !.pc = "streaming", !.target = j, !.build = b,
                                            !.holds = "jar", !.mixed = others # {}]
                 ELSE [req[q] EXCEPT !.mixed = @ \/ q \in others]]
  BY DEF Paper!InstallOpens
<1>3. /\ loop = Paper!Free /\ loop' = loop /\ upload' = upload /\ disabled' = disabled
      /\ mapped' = mapped
  BY DEF Paper!InstallOpens
<1> DEFINE others == Paper!Writers(j, "jar")
           x == [Paper!Idle EXCEPT !.pc = "streaming", !.target = j, !.build = b,
                                   !.holds = "jar", !.mixed = others # {}]
<1>4. x \in ReqT /\ x.pc = "streaming" /\ x.target = j /\ x.build = b
  BY IdleReq DEF ReqT
<1>5. \A q \in Requests : LET y == [req[q] EXCEPT !.mixed = @ \/ q \in others] IN
        /\ y \in ReqT /\ y.pc = req[q].pc /\ y.file = req[q].file
        /\ y.target = req[q].target /\ y.build = req[q].build
  BY <1>1 DEF PaperTyped, ReqT
<1>6. req' = [q \in Requests |->
               IF q = r THEN x ELSE [req[q] EXCEPT !.mixed = @ \/ q \in others]]
  BY <1>2
<1> HIDE DEF x, others
<1>7. /\ req' \in [Requests -> ReqT] /\ req'[r] = x
      /\ \A q \in Requests \ {r} : Same(q)
  BY <1>4, <1>5, <1>6 DEF Same
<1>8. streamed' = streamed \cup {j}
  BY <1>2
<1>9. Asked'
  BY <1>1, <1>4, <1>7, <1>8 DEF Asked, Held, Same
<1>10. /\ jars' \in [Plugins -> JarT] /\ loaded' \in [Plugins -> JarT]
       /\ \A i \in Plugins \ {j} : jars'[i] = jars[i] /\ loaded'[i] = loaded[i]
  BY <1>1, <1>2 DEF PaperTyped, JarT
<1>11. streamed' \subseteq Plugins /\ j \in streamed'
       /\ \A i \in Plugins \ {j} : jars'[i] = Torn \/ disabled'[i] = Torn \/ loaded'[i] = Torn => i \in streamed'
  BY <1>1, <1>3, <1>8, <1>10 DEF PaperTyped, Sound
<1>12. \A i \in Plugins : jars'[i] = Torn \/ disabled'[i] = Torn \/ loaded'[i] = Torn => i \in streamed'
  BY <1>11
<1>13. QED
  BY <1>1, <1>3, <1>7, <1>8, <1>9, <1>10, <1>11, <1>12, FreeStep DEF PaperTyped

LEMMA PaperEnds ==
  ASSUME PaperInv, NEW r \in Requests, Paper!InstallEnds(r) PROVE PaperInv'
<1>1. PaperTyped /\ Sound /\ Asked
  BY PaperShapes DEF PaperInv
<1> DEFINE j == req[r].target
<1>2. j \in Plugins /\ j \in streamed /\ req[r].build \in Builds
  BY <1>1 DEF Asked, Held, Paper!InstallEnds
<1>3. PICK whole \in IF req[r].mixed THEN {req[r].build, Torn} ELSE {req[r].build} :
       /\ jars' = Paper!Filled(r, jars, "jar", whole)
       /\ disabled' = Paper!Filled(r, disabled, "disabled", whole)
       /\ loaded' = IF req[r].holds = "jar" /\ req[r].target \in mapped
                    THEN [loaded EXCEPT ![req[r].target] = whole] ELSE loaded
  BY DEF Paper!InstallEnds
<1>4. whole \in JarT
  BY <1>2, <1>3 DEF JarT
<1>5. /\ jars' \in {jars, [jars EXCEPT ![j] = whole]}
      /\ disabled' \in {disabled, [disabled EXCEPT ![j] = whole]}
      /\ loaded' \in {loaded, [loaded EXCEPT ![j] = whole]}
  BY <1>3 DEF Paper!Filled
<1>6. /\ loop = Paper!Free /\ loop' = loop /\ upload' = upload /\ mapped' = mapped
      /\ streamed' = streamed /\ req' = [req EXCEPT ![r] = Paper!Idle]
  BY DEF Paper!InstallEnds
<1> HIDE DEF j
<1>7. /\ jars' \in [Plugins -> JarT] /\ disabled' \in [Plugins -> JarT]
      /\ loaded' \in [Plugins -> JarT]
      /\ \A i \in Plugins \ {j} : /\ jars'[i] = jars[i] /\ disabled'[i] = disabled[i]
                                  /\ loaded'[i] = loaded[i]
  BY <1>1, <1>2, <1>4, <1>5 DEF PaperTyped
<1>8. req' \in [Requests -> ReqT] /\ Asked'
  BY <1>1, <1>6, Idles
<1>9. \A i \in Plugins : jars'[i] = Torn \/ disabled'[i] = Torn \/ loaded'[i] = Torn => i \in streamed'
  BY <1>1, <1>2, <1>6, <1>7 DEF Sound
<1>10. QED
  BY <1>1, <1>6, <1>7, <1>8, <1>9, FreeStep DEF PaperTyped

LEMMA PaperMismatches ==
  ASSUME PaperInv, NEW r \in Requests, Paper!InstallMismatches(r) PROVE PaperInv'
<1>1. PaperTyped /\ Sound /\ Asked
  BY PaperShapes DEF PaperInv
<1> DEFINE j == req[r].target
<1>2. /\ loop = Paper!Free /\ loop' = loop /\ upload' = upload /\ disabled' = disabled
      /\ loaded' = loaded /\ streamed' = streamed /\ mapped' \subseteq Plugins
      /\ jars' = [jars EXCEPT ![j] = None]
      /\ req' = [Paper!Moved(j, "none", "disabled") EXCEPT ![r] = Paper!Idle]
  BY <1>1 DEF Paper!InstallMismatches, PaperTyped
<1> HIDE DEF j
<1> DEFINE m == Paper!Moved(j, "none", "disabled")
<1>3. /\ m \in [Requests -> ReqT]
      /\ \A q \in Requests : /\ m[q].pc = req[q].pc /\ m[q].file = req[q].file
                             /\ m[q].target = req[q].target /\ m[q].build = req[q].build
  <2>1. ASSUME NEW q \in Requests
        PROVE  /\ m[q] \in ReqT /\ m[q].pc = req[q].pc /\ m[q].file = req[q].file
               /\ m[q].target = req[q].target /\ m[q].build = req[q].build
    <3>1. req[q] \in ReqT
      BY <1>1 DEF PaperTyped
    <3>2. m[q] = req[q] \/ \E h \in {"none", "jar", "disabled"} : m[q] = [req[q] EXCEPT !.holds = h]
      BY DEF Paper!Moved
    <3> HIDE DEF m
    <3>3. QED
      BY <3>1, <3>2 DEF ReqT
  <2>2. m = [q \in Requests |-> m[q]]
    BY DEF Paper!Moved
  <2> HIDE DEF m
  <2>3. m \in [Requests -> ReqT]
    BY <2>1, <2>2
  <2>4. QED
    BY <2>1, <2>3
<1>4. req' = [m EXCEPT ![r] = Paper!Idle]
  BY <1>2
<1> HIDE DEF m
<1>5. /\ req' \in [Requests -> ReqT]
      /\ \A q \in Requests : req'[q].pc = "idle" \/ Same(q)
  BY <1>3, <1>4, IdleReq DEF Same
<1>6. Asked'
  BY <1>1, <1>2, <1>5, AskedStays
<1>7. jars' \in [Plugins -> JarT] /\ \A i \in Plugins : jars'[i] \in {jars[i], None}
  BY <1>1, <1>2 DEF PaperTyped, JarT
<1>8. \A i \in Plugins : jars'[i] = Torn \/ disabled'[i] = Torn \/ loaded'[i] = Torn => i \in streamed'
  BY <1>1, <1>2, <1>7, Tokens DEF Sound
<1>9. QED
  BY <1>1, <1>2, <1>5, <1>6, <1>7, <1>8, FreeStep DEF PaperTyped

LEMMA PaperFails ==
  ASSUME PaperInv, NEW r \in Requests, Paper!AwaitFails(r) PROVE PaperInv'
<1>1. PaperTyped /\ Sound /\ Asked
  BY PaperShapes DEF PaperInv
<1>2. /\ loop = Paper!Free /\ loop' = loop /\ upload' = upload /\ disabled' = disabled
      /\ jars' = jars /\ loaded' = loaded /\ streamed' = streamed /\ mapped' = mapped
      /\ req' = [req EXCEPT ![r] = Paper!Idle]
  BY DEF Paper!AwaitFails, Paper!files, Paper!jvm
<1>3. req' \in [Requests -> ReqT] /\ Asked'
  BY <1>1, <1>2, Idles
<1>4. QED
  BY <1>1, <1>2, <1>3, FreeStep DEF PaperTyped, Sound

LEMMA PaperStep ==
  ASSUME PaperInv, Paper!Next PROVE PaperInv'
<1>1. ASSUME NEW r \in Requests,
             \/ Paper!UpdateBegins(r) \/ Paper!UpdateFetched(r)
             \/ Paper!InstallOpens(r) \/ Paper!InstallEnds(r) \/ Paper!InstallMismatches(r)
             \/ Paper!AwaitFails(r)
      PROVE  PaperInv'
  BY <1>1, PaperUpdates, PaperOpens, PaperEnds, PaperMismatches, PaperFails
<1>2. QED
  BY <1>1, PaperJvm, PaperToggles, PaperBegins, PaperWritten, PaperUnlinked, PaperRenamed
     DEF Paper!Next

-----------------------------------------------------------------------------
(* create, for a modpack *)

PackT == Entries \cup {Torn, None}
TaskPcs == {"none", "waiting", "naming", "asking", "streaming", "fetched", "listed", "raised"}
TaskT == [pc : TaskPcs, name : Mods \cup {None}, holds : {"none", "part", "jar"},
          mixed : BOOLEAN]

LEMMA TaskShapes == Pack!Tasks = TaskT
BY DEF Pack!Tasks, TaskT, TaskPcs

LEMMA TaskFacts ==
  ASSUME NEW pc \in TaskPcs
  PROVE  /\ Pack!Task(pc) \in TaskT /\ Pack!Task(pc).pc = pc /\ Pack!Task(pc).name = None
         /\ Pack!Task(pc).holds = "none" /\ Pack!Task(pc).mixed = FALSE
BY DEF Pack!Task, TaskT

LEMMA TaskPcNames ==
  {"none", "waiting", "naming", "asking", "streaming", "fetched", "listed", "raised"} \subseteq TaskPcs
BY DEF TaskPcs

LEMMA WritersAre ==
  ASSUME NEW n, NEW where
  PROVE  Pack!Writers(n, where) = {e \in Entries : Streams(e, n, where)}
BY DEF Pack!Writers, Pack!Running, Streams

(* The pages have not touched anything yet. *)
LEMMA UnusedStays ==
  ASSUME Unused, UNCHANGED pages, jars' \in [Mods -> PackT], missing' = {}
  PROVE  Unused'
BY DEF Unused, pages, PackT, Modded!Down, Modded!Free, Modded!Idle

LEMMA UnusedTyped ==
  ASSUME Unused PROVE Modded!TypeOK /\ Serving
<1>1. /\ disabled \in [{} -> (Entries \cup Builds) \cup {Torn, None}]
      /\ upload \in [{} -> (Entries \cup Builds) \cup {Torn, None}]
  BY DEF Unused
<1>2. /\ jars \in [Mods -> (Entries \cup Builds) \cup {Torn, None}]
      /\ loaded \in [Mods -> (Entries \cup Builds) \cup {Torn, None}]
  BY DEF Unused, Modded!Down
<1>3. loop \in Modded!Loops
  BY DEF Unused, Modded!Free, Modded!Loops
<1>4. req \in [Requests -> Modded!Reqs] /\ \A r \in Requests : req[r].pc = "idle"
  BY DEF Unused, Modded!Idle, Modded!Reqs
<1>5. mapped = {} /\ streamed = {} /\ loop = Modded!Free
  BY DEF Unused
<1>6. QED
  BY <1>1, <1>2, <1>3, <1>4, <1>5 DEF Modded!TypeOK, Serving

LEMMA NextUnusedTyped ==
  ASSUME Unused' PROVE (Modded!TypeOK /\ Serving)'
<1>1. /\ disabled' \in [{} -> (Entries \cup Builds) \cup {Torn, None}]
      /\ upload' \in [{} -> (Entries \cup Builds) \cup {Torn, None}]
  BY DEF Unused
<1>2. /\ jars' \in [Mods -> (Entries \cup Builds) \cup {Torn, None}]
      /\ loaded' \in [Mods -> (Entries \cup Builds) \cup {Torn, None}]
  BY DEF Unused, Modded!Down
<1>3. loop' \in Modded!Loops
  BY DEF Unused, Modded!Free, Modded!Loops
<1>4. req' \in [Requests -> Modded!Reqs] /\ \A r \in Requests : req'[r].pc = "idle"
  BY DEF Unused, Modded!Idle, Modded!Reqs
<1>5. mapped' = {} /\ streamed' = {} /\ loop' = Modded!Free
  BY DEF Unused, Modded!Free
<1>6. QED
  BY <1>1, <1>2, <1>3, <1>4, <1>5 DEF Modded!TypeOK, Serving, Modded!Loops, Modded!Reqs, Modded!Free

LEMMA RefuseStep ==
  ASSUME CreateTyped, Unused, Pack!Refuse, UNCHANGED pages PROVE ModpackInv'
<1>1. /\ step' = "refused" /\ run_sh' = FALSE /\ missing' = {} /\ mods_dir' = FALSE
      /\ jars' = [n \in Mods |-> None] /\ part' = [n \in Mods |-> None]
      /\ task' = [e \in Entries |-> [task[e] EXCEPT !.holds = "none"]] /\ raised' = raised
  BY DEF Pack!Refuse
<1>2. \A e \in Entries : LET t == [task[e] EXCEPT !.holds = "none"] IN
         t \in TaskT /\ t.pc = task[e].pc /\ t.name = task[e].name
  BY TaskShapes DEF CreateTyped, TaskT
<1>3. task' \in [Entries -> TaskT] /\ \A e \in Entries :
         task'[e].pc = task[e].pc /\ task'[e].name = task[e].name
  BY <1>1, <1>2
<1>4. CreateTyped'
  BY <1>1, <1>3, TaskShapes DEF CreateTyped
<1>5. Unused'
  BY <1>1, UnusedStays DEF PackT
<1>6. QED
  BY <1>1, <1>4, <1>5 DEF ModpackInv

LEMMA AbortStep ==
  ASSUME CreateTyped, Unused, Pack!Abort, UNCHANGED pages PROVE ModpackInv'
<1>1. /\ step' = "aborted" /\ run_sh' = run_sh /\ missing' = missing /\ mods_dir' = mods_dir
      /\ jars' = jars /\ part' = part /\ task' = task /\ raised' = raised
  BY DEF Pack!Abort, Pack!dir
<1>2. CreateTyped'
  BY <1>1 DEF CreateTyped
<1>3. Unused'
  BY <1>1, UnusedStays DEF PackT, Unused
<1>4. QED
  BY <1>1, <1>2, <1>3 DEF ModpackInv

LEMMA EarlyStep ==
  ASSUME ModpackInv, UNCHANGED pages,
         Pack!Resolve \/ Pack!FetchZip \/ Pack!Bake \/ Pack!StepFails
  PROVE  ModpackInv'
<1>1. /\ step \in {"resolving", "fetching", "loading", "baking"}
      /\ CreateTyped /\ Unused /\ Opening
  BY DEF ModpackInv, Pack!Resolve, Pack!FetchZip, Pack!Bake, Pack!StepFails
<1>2. CASE Pack!Refuse
  BY <1>1, <1>2, RefuseStep
<1>3. CASE Pack!Abort
  BY <1>1, <1>3, AbortStep
<1>4. CASE /\ step' \in {"fetching", "loading", "baking", "done"} /\ run_sh' \in BOOLEAN
           /\ UNCHANGED <<raised, missing, mods_dir, jars, part, task>>
  <2>1. /\ raised' = raised /\ missing' = missing /\ mods_dir' = mods_dir
        /\ jars' = jars /\ part' = part /\ task' = task
    BY <1>4
  <2>2. CreateTyped'
    BY <1>1, <1>4, <2>1 DEF CreateTyped
  <2>3. Unused'
    BY <1>1, <2>1, UnusedStays DEF PackT, Unused
  <2>4. Opening'
    BY <1>1, <2>1 DEF Opening, Pack!Task
  <2>5. Done'
    <3>1. (Modded!TypeOK /\ Serving)'
      BY <2>3, NextUnusedTyped
    <3>2. Quiet'
      BY <2>4, TaskFacts, TaskPcNames DEF Opening, Quiet
    <3>3. Whole(jars)'
      BY <2>4, <3>2, TaskFacts, TaskPcNames, Tokens DEF Opening, Whole
    <3>4. (loaded = Modded!Down)'
      BY <2>3 DEF Unused
    <3>5. QED
      BY <3>1, <3>2, <3>3, <3>4 DEF Done
  <2>6. QED
    BY <1>4, <2>2, <2>3, <2>4, <2>5 DEF ModpackInv
<1>5. QED
  BY <1>1, <1>2, <1>3, <1>4
     DEF Pack!Resolve, Pack!FetchZip, Pack!Bake, Pack!StepFails, Pack!GoesWrong, Pack!dir,
         CreateTyped

LEMMA GatherBegins ==
  ASSUME ModpackInv, UNCHANGED pages, Pack!LoadThenGather PROVE ModpackInv'
<1>1. CreateTyped /\ Unused /\ Opening
  BY DEF ModpackInv, Pack!LoadThenGather
<1>2. /\ step' = "gathering" /\ run_sh' = TRUE /\ mods_dir' = TRUE
      /\ task' = [e \in Entries |-> Pack!Task("waiting")]
      /\ raised' = raised /\ missing' = missing /\ jars' = jars /\ part' = part
  BY DEF Pack!LoadThenGather
<1>3. \A e \in Entries : /\ task'[e] = Pack!Task("waiting") /\ task'[e] \in TaskT
                         /\ task'[e].pc = "waiting" /\ task'[e].name = None
  BY <1>2, TaskFacts, TaskPcNames
<1>4. CreateTyped'
  BY <1>1, <1>2, <1>3, TaskShapes DEF CreateTyped
<1>5. Unused'
  BY <1>1, <1>2, UnusedStays DEF PackT, Unused
<1>6. \A n \in Mods : jars'[n] = None /\ part'[n] = None
  BY <1>1, <1>2 DEF Opening
<1>7. Gathering'
  BY <1>3, <1>6, Tokens DEF Gathering, Torn1, Torn2, Torn3, Named, Own, Owns, Told, Streams
<1>8. QED
  BY <1>2, <1>4, <1>5, <1>7 DEF ModpackInv

LEMMA GatherEnds ==
  ASSUME ModpackInv, UNCHANGED pages, Pack!GatherReturns \/ Pack!GatherRaises PROVE ModpackInv'
<1>1. CreateTyped /\ Unused /\ Gathering
  BY DEF ModpackInv, Pack!GatherReturns, Pack!GatherRaises
<1>2. CASE Pack!Refuse
  BY <1>1, <1>2, RefuseStep
<1>3. CASE Pack!Abort
  BY <1>1, <1>3, AbortStep
<1>4. CASE /\ Pack!GatherReturns /\ step' = "done" /\ missing' = Pack!Listed
           /\ UNCHANGED <<raised, run_sh, mods_dir, jars, part, task>>
  <2>1. /\ raised' = raised /\ run_sh' = run_sh /\ mods_dir' = mods_dir
        /\ jars' = jars /\ part' = part /\ task' = task
        /\ step' = "done" /\ missing' = {e \in Entries : task[e].pc = "listed"}
    BY <1>4 DEF Pack!Listed
  <2>2. \A e \in Entries : task[e].pc \in {"fetched", "listed"}
    BY <1>1, <1>4 DEF Pack!GatherReturns, Pack!Settled, Gathering, Told
  <2>3. CreateTyped'
    BY <1>1, <2>1 DEF CreateTyped
  <2>4. Modded!TypeOK' /\ Serving'
    <3>1. /\ disabled' = disabled /\ upload' = upload /\ loaded' = loaded /\ mapped' = mapped
          /\ loop' = loop /\ req' = req /\ streamed' = streamed
      BY DEF pages
    <3>2. Modded!TypeOK /\ Serving
      BY <1>1, UnusedTyped
    <3>3. QED
      BY <2>1, <3>1, <3>2 DEF Modded!TypeOK, Serving, Held, Modded!Loops, Modded!Reqs, Modded!Free
  <2>5. Quiet'
    BY <2>1, <2>2 DEF Quiet
  <2>6. Whole(jars)'
    <3>1. ASSUME missing' = {} PROVE \A n \in Mods : jars[n] # Torn
      <4>1. ~ Trouble
        BY <2>1, <2>2, <3>1 DEF Trouble
      <4>2. \A n \in Mods, f \in Entries : ~ Streams(f, n, "jar")
        BY <2>2 DEF Streams
      <4>3. QED
        BY <1>1, <4>1, <4>2 DEF Gathering, Torn2
    <3>2. ASSUME NEW e \in Entries, task[e].pc = "fetched", Pack!Alone(e)
          PROVE  jars[task[e].name] = e
      BY <1>1, <3>2 DEF Gathering, Own, Owns
    <3>3. \A e \in Entries : Pack!Alone(e)' => Pack!Alone(e)
      BY <2>1 DEF Pack!Alone
    <3>4. QED
      BY <2>1, <3>1, <3>2, <3>3 DEF Whole
  <2>7. (loaded = Modded!Down)'
    BY <1>1 DEF Unused, pages, Modded!Down
  <2>8. QED
    BY <2>1, <2>3, <2>4, <2>5, <2>6, <2>7 DEF ModpackInv, Done
<1>5. QED
  BY <1>2, <1>3, <1>4 DEF Pack!GatherReturns, Pack!GatherRaises, Pack!GoesWrong

-----------------------------------------------------------------------------
(* The parallel downloads *)

(* What a step of e's task does to the rest: nothing, unless another has   *)
(* the same file name.                                                     *)
Moves(e) ==
  /\ \A f \in Entries \ {e} :
       /\ task'[f].pc = task[f].pc /\ task'[f].name = task[f].name
       /\ task[f].name # task'[e].name =>
            task'[f].holds = task[f].holds /\ task'[f].mixed = task[f].mixed
  /\ task'[e].name = task[e].name \/ task[e].name = None
  /\ \A n \in Mods : n # task'[e].name => jars'[n] = jars[n] /\ part'[n] = part[n]
  /\ task[e].pc \notin {"listed", "raised"}
  /\ raised # None => raised' # None

LEMMA AloneWas ==
  ASSUME NEW e \in Entries, Moves(e), NEW f \in Entries \ {e}, task[f].name \in Mods,
         Pack!Alone(f)'
  PROVE  Pack!Alone(f) /\ task[f].name # task'[e].name
BY Tokens DEF Moves, Pack!Alone

LEMMA GatherKeeps ==
  ASSUME CreateTyped, Gathering, NEW e \in Entries, Moves(e),
         Owns(e)', Told(e)', Trouble' \/ (Torn1' /\ Torn2' /\ Torn3')
  PROVE  Gathering'
<1>1. Torn1' /\ Torn2' /\ Torn3'
  BY DEF Torn1, Torn2, Torn3, Trouble
<1>2. ASSUME NEW n \in Mods, jars'[n] # None \/ part'[n] # None
      PROVE  \E f \in Entries : task'[f].name = n
  <2>1. CASE n = task'[e].name
    BY <2>1
  <2>2. CASE n # task'[e].name
    <3>1. jars[n] # None \/ part[n] # None
      BY <1>2, <2>2 DEF Moves
    <3>2. PICK f \in Entries : task[f].name = n
      BY <3>1 DEF Gathering, Named
    <3>3. f # e
      BY <2>2, <3>2, Tokens DEF Moves
    <3>4. QED
      BY <3>2, <3>3 DEF Moves
  <2>3. QED
    BY <2>1, <2>2
<1>3. ASSUME NEW f \in Entries \ {e} PROVE Owns(f)' /\ Told(f)'
  <2>1. Owns(f) /\ Told(f)
    BY DEF Gathering, Own
  <2>2. task'[f].pc = task[f].pc /\ task'[f].name = task[f].name
    BY DEF Moves
  <2>3. Told(f)'
    BY <2>1, <2>2 DEF Told, Moves
  <2>4. ASSUME Pack!Alone(f)', task'[f].pc \in {"streaming", "fetched"}
        PROVE  /\ task'[f].pc = "streaming" =>
                    ~ task'[f].mixed /\ task'[f].holds = "part" /\ part'[task'[f].name] # None
               /\ task'[f].pc = "fetched" => jars'[task'[f].name] = f
    <3>1. task[f].name \in Mods
      BY <2>2, <2>4 DEF CreateTyped
    <3>2. Pack!Alone(f) /\ task[f].name # task'[e].name
      BY <2>4, <3>1, AloneWas
    <3>3. /\ task'[f].holds = task[f].holds /\ task'[f].mixed = task[f].mixed
          /\ jars'[task[f].name] = jars[task[f].name] /\ part'[task[f].name] = part[task[f].name]
      BY <3>1, <3>2 DEF Moves
    <3>4. QED
      BY <2>1, <2>2, <3>2, <3>3 DEF Owns
  <2>5. Owns(f)'
    BY <2>4 DEF Owns
  <2>6. QED
    BY <2>3, <2>5
<1>4. Own' /\ \A f \in Entries : Told(f)'
  BY <1>3 DEF Own
<1>5. QED
  BY <1>1, <1>2, <1>4 DEF Gathering, Named

(* What a step of e's task does to the task itself. *)
Becomes(e, t) ==
  /\ task' \in [Entries -> TaskT] /\ task'[e] = t
  /\ \A f \in Entries \ {e} : task'[f] = task[f]

LEMMA SetTask ==
  ASSUME CreateTyped, NEW e \in Entries, NEW t \in TaskT, task' = [task EXCEPT ![e] = t]
  PROVE  Becomes(e, t)
BY TaskShapes DEF CreateTyped, Becomes

LEMMA TaskWith ==
  ASSUME NEW t \in TaskT, NEW pc \in TaskPcs, NEW n \in Mods \cup {None}
  PROVE  /\ LET u == [t EXCEPT !.pc = pc] IN
              /\ u \in TaskT /\ u.pc = pc /\ u.name = t.name
              /\ u.holds = t.holds /\ u.mixed = t.mixed
         /\ LET u == [t EXCEPT !.pc = pc, !.holds = "none"] IN
              /\ u \in TaskT /\ u.pc = pc /\ u.name = t.name
         /\ LET u == [t EXCEPT !.name = n, !.pc = pc] IN
              /\ u \in TaskT /\ u.pc = pc /\ u.name = n
         /\ LET u == [Pack!Task(pc) EXCEPT !.name = n] IN
              /\ u \in TaskT /\ u.pc = pc /\ u.name = n
<1>1. Pack!Task(pc) \in TaskT /\ Pack!Task(pc).pc = pc
  BY TaskFacts
<1>2. QED
  BY <1>1 DEF TaskT

(* A step that begins and ends outside of a stream. *)
LEMMA TornStays ==
  ASSUME Torn1, Torn2, Torn3, NEW e \in Entries, NEW t, Becomes(e, t),
         task[e].pc # "streaming", t.pc # "streaming", task[e].pc \notin {"listed", "raised"},
         jars' = jars, part' = part
  PROVE  Torn1' /\ Torn2' /\ Torn3'
<1>1. \A where : \A f \in Entries, n \in Mods :
        Streams(f, n, where)' <=> Streams(f, n, where)
  BY DEF Streams, Becomes
<1>2. Trouble => Trouble'
  BY DEF Trouble, Becomes
<1>3. \A f \in Entries, n \in Mods : Streams(f, n, "part") => f # e /\ task'[f] = task[f]
  BY DEF Streams, Becomes
<1>4. Torn1'
  BY <1>1, <1>2, <1>3 DEF Torn1
<1>5. Torn2' /\ Torn3'
  BY <1>1, <1>2 DEF Torn2, Torn3
<1>6. QED
  BY <1>4, <1>5

(* The rest of create's variables, and the pages'. *)
LEMMA CreateKeeps ==
  ASSUME ModpackInv, step \in {"gathering", "refused", "aborted"},
         step' = step, run_sh' = run_sh, missing' = missing, UNCHANGED pages,
         mods_dir' \in BOOLEAN, raised' \in {None, "value", "os"},
         part' \in [Mods -> {Torn, None}], jars' \in [Mods -> PackT],
         task' \in [Entries -> TaskT],
         \A e \in Entries : task'[e].pc \in {"asking", "streaming", "fetched"} => task'[e].name \in Mods,
         step = "gathering" => Gathering'
  PROVE  ModpackInv'
<1>1. CreateTyped /\ Unused
  BY DEF ModpackInv
<1>2. CreateTyped'
  BY <1>1, TaskShapes DEF CreateTyped
<1>3. Unused'
  BY <1>1, UnusedStays DEF Unused
<1>4. QED
  BY <1>2, <1>3 DEF ModpackInv

LEMMA Typed ==
  ASSUME ModpackInv, step \in {"gathering", "refused", "aborted"}
  PROVE  /\ CreateTyped /\ Unused /\ task \in [Entries -> TaskT] /\ jars \in [Mods -> PackT]
         /\ part \in [Mods -> {Torn, None}] /\ raised \in {None, "value", "os"}
         /\ mods_dir \in BOOLEAN
         /\ \A e \in Entries : task[e].pc \in {"asking", "streaming", "fetched"} => task[e].name \in Mods
         /\ step = "gathering" => Gathering
BY TaskShapes DEF ModpackInv, CreateTyped, Unused, PackT

(* One task changes, and no file. *)
LEMMA TaskMoves ==
  ASSUME ModpackInv, step \in {"gathering", "refused", "aborted"}, UNCHANGED pages,
         step' = step, run_sh' = run_sh, missing' = missing,
         jars' = jars, part' = part, mods_dir' \in BOOLEAN, raised' \in {None, "value", "os"},
         NEW e \in Entries, NEW t \in TaskT, task' = [task EXCEPT ![e] = t],
         task[e].pc \notin {"none", "listed", "raised"},
         step = "gathering" => t.name = task[e].name \/ task[e].name = None,
         t.pc \in {"asking", "fetched"} => t.name \in Mods,
         t.pc \notin {"none", "streaming", "waiting"},
         step = "gathering" /\ t.pc = "naming" => t.name = None,
         t.pc = "raised" => raised' # None, raised # None => raised' # None,
         t.pc \notin {"listed", "raised"} => task[e].pc # "streaming",
         step = "gathering" /\ t.pc = "fetched" => ~ Pack!Alone(e)'
  PROVE  ModpackInv'
<1>1. Becomes(e, t)
  BY Typed, SetTask
<1>2. CASE step = "gathering"
  <2>1. CreateTyped /\ Gathering
    BY <1>2, Typed
  <2>2. Moves(e)
    BY <1>1, <1>2 DEF Moves, Becomes
  <2>3. Owns(e)' /\ Told(e)'
    BY <1>1, <1>2 DEF Owns, Told, Becomes
  <2>4. CASE t.pc \in {"listed", "raised"}
    <3>1. Trouble'
      BY <1>1, <2>4 DEF Trouble, Becomes
    <3>2. Gathering'
      BY <2>1, <2>2, <2>3, <3>1, GatherKeeps
    <3>3. QED
      BY <1>1, <3>2, Typed, CreateKeeps DEF Becomes
  <2>5. CASE t.pc \notin {"listed", "raised"}
    <3>1. Torn1' /\ Torn2' /\ Torn3'
      BY <1>1, <2>1, <2>5, TornStays DEF Gathering
    <3>2. Gathering'
      BY <2>1, <2>2, <2>3, <3>1, GatherKeeps
    <3>3. QED
      BY <1>1, <3>2, Typed, CreateKeeps DEF Becomes
  <2>6. QED
    BY <2>4, <2>5
<1>3. CASE step # "gathering"
  BY <1>1, <1>3, Typed, CreateKeeps DEF Becomes
<1>4. QED
  BY <1>2, <1>3

LEMMA PlainDownload ==
  ASSUME ModpackInv, step \in {"gathering", "refused", "aborted"}, UNCHANGED pages,
         NEW e \in Entries,
         Pack!TaskStarts(e) \/ Pack!TaskFails(e) \/ Pack!TaskReadsNoJson(e) \/ Pack!TaskNamed(e)
  PROVE  ModpackInv'
<1>1. /\ task \in [Entries -> TaskT] /\ task[e] \in TaskT
      /\ mods_dir \in BOOLEAN /\ raised \in {None, "value", "os"}
      /\ step = "gathering" => Gathering
  BY Typed
<1>2. CASE Pack!TaskStarts(e)
  <2> DEFINE t == [task[e] EXCEPT !.pc = "naming"]
  <2>1. t \in TaskT /\ t.pc = "naming" /\ t.name = task[e].name
    BY <1>1 DEF TaskT, TaskPcs
  <2>2. task' = [task EXCEPT ![e] = t]
    BY <1>1, <1>2 DEF Pack!TaskStarts
  <2> HIDE DEF t
  <2>3. /\ step' = step /\ run_sh' = run_sh /\ missing' = missing /\ mods_dir' = mods_dir
        /\ jars' = jars /\ part' = part /\ raised' = raised /\ task[e].pc = "waiting"
    BY <1>2 DEF Pack!TaskStarts, Pack!dir
  <2>4. step = "gathering" => task[e].name = None
    BY <1>1, <2>3 DEF Gathering, Told
  <2>5. QED
    BY <1>1, <2>1, <2>2, <2>3, <2>4, TaskMoves
<1>3. CASE Pack!TaskFails(e)
  <2> DEFINE t == [Pack!Task("listed") EXCEPT !.name = task[e].name]
  <2>1. t \in TaskT /\ t.pc = "listed" /\ t.name = task[e].name
    BY <1>1, TaskFacts, TaskPcNames DEF TaskT
  <2>2. task' = [task EXCEPT ![e] = t]
    BY <1>3 DEF Pack!TaskFails, Pack!Settles
  <2> HIDE DEF t
  <2>3. /\ step' = step /\ run_sh' = run_sh /\ missing' = missing /\ mods_dir' = mods_dir
        /\ jars' = jars /\ part' = part /\ raised' = raised
        /\ task[e].pc \in {"naming", "asking", "streaming"}
    BY <1>3 DEF Pack!TaskFails, Pack!dir
  <2>4. QED
    BY <1>1, <2>1, <2>2, <2>3, TaskMoves
<1>4. CASE Pack!TaskReadsNoJson(e)
  <2> DEFINE t == [task[e] EXCEPT !.pc = "raised", !.holds = "none"]
  <2>1. t \in TaskT /\ t.pc = "raised" /\ t.name = task[e].name
    BY <1>1 DEF TaskT, TaskPcs
  <2>2. task' = [task EXCEPT ![e] = t]
    BY <1>1, <1>4 DEF Pack!TaskReadsNoJson, Pack!Raises
  <2> HIDE DEF t
  <2>3. /\ step' = step /\ run_sh' = run_sh /\ missing' = missing /\ mods_dir' = mods_dir
        /\ jars' = jars /\ part' = part /\ task[e].pc = "naming"
        /\ raised' = IF raised = None THEN "value" ELSE raised
    BY <1>4 DEF Pack!TaskReadsNoJson, Pack!dir, Pack!Raises
  <2>4. raised' \in {None, "value", "os"} /\ raised' # None
    BY <1>1, <2>3, Tokens
  <2>5. QED
    BY <1>1, <2>1, <2>2, <2>3, <2>4, TaskMoves
<1>5. CASE Pack!TaskNamed(e)
  <2>1. PICK n \in Mods, pc \in {"asking", "fetched"} :
         /\ pc = "fetched" => jars[n] # None
         /\ task' = [task EXCEPT ![e].name = n, ![e].pc = pc]
    BY <1>5 DEF Pack!TaskNamed
  <2> DEFINE t == [task[e] EXCEPT !.name = n, !.pc = pc]
  <2>2. t \in TaskT /\ t.pc = pc /\ t.name = n
    BY <1>1 DEF TaskT, TaskPcs
  <2>3. task' = [task EXCEPT ![e] = t]
    BY <1>1, <2>1
  <2> HIDE DEF t
  <2>4. /\ step' = step /\ run_sh' = run_sh /\ missing' = missing /\ mods_dir' = TRUE
        /\ jars' = jars /\ part' = part /\ raised' = raised /\ task[e].pc = "naming"
    BY <1>5 DEF Pack!TaskNamed
  <2>5. step = "gathering" => task[e].name = None
    BY <1>1, <2>4 DEF Gathering, Told
  <2>6. ASSUME step = "gathering", pc = "fetched" PROVE ~ Pack!Alone(e)'
    <3>1. PICK f \in Entries : task[f].name = n
      BY <1>1, <2>1, <2>6 DEF Gathering, Named
    <3>2. f # e
      BY <2>5, <2>6, <3>1, Tokens
    <3>3. task'[f].name = n /\ task'[e].name = n
      BY <1>1, <2>2, <2>3, <3>1, <3>2
    <3>4. QED
      BY <3>2, <3>3 DEF Pack!Alone
  <2>7. QED
    BY <1>1, <2>2, <2>3, <2>4, <2>5, <2>6, TaskMoves
<1>6. QED
  BY <1>2, <1>3, <1>4, <1>5

LEMMA OpensDownload ==
  ASSUME ModpackInv, step \in {"gathering", "refused", "aborted"}, UNCHANGED pages,
         NEW e \in Entries, Pack!TaskOpens(e)
  PROVE  ModpackInv'
<1>0. PICK n \in Mods : n = task[e].name
  BY Typed DEF Pack!TaskOpens
<1> DEFINE others == Pack!Writers(n, "part")
<1>1. /\ task \in [Entries -> TaskT] /\ task[e] \in TaskT /\ part \in [Mods -> {Torn, None}]
      /\ mods_dir \in BOOLEAN /\ raised \in {None, "value", "os"}
      /\ step = "gathering" => Gathering /\ CreateTyped
  BY Typed
<1>2. /\ step' = step /\ run_sh' = run_sh /\ missing' = missing /\ mods_dir' = mods_dir
      /\ jars' = jars /\ task[e].pc = "asking"
  BY DEF Pack!TaskOpens
<1>3. CASE ~ mods_dir
  <2> DEFINE t == [task[e] EXCEPT !.pc = "raised", !.holds = "none"]
  <2>1. t \in TaskT /\ t.pc = "raised" /\ t.name = task[e].name
    BY <1>1 DEF TaskT, TaskPcs
  <2>2. Pack!Raises(e, "os") /\ part' = part
    BY <1>3 DEF Pack!TaskOpens
  <2>3. task' = [task EXCEPT ![e] = t]
    BY <1>1, <2>2 DEF Pack!Raises
  <2> HIDE DEF t
  <2>4. raised' = IF raised = None THEN "os" ELSE raised
    BY <2>2 DEF Pack!Raises
  <2>5. raised' \in {None, "value", "os"} /\ raised' # None
    BY <1>1, <2>4, Tokens
  <2>6. QED
    BY <1>1, <1>2, <2>1, <2>2, <2>3, <2>5, TaskMoves
<1>4. CASE mods_dir
  <2>1. /\ part' = [part EXCEPT ![n] = Torn] /\ raised' = raised
        /\ task' = [f \in Entries |->
                      IF f = e THEN [pc |-> "streaming", name |-> n, holds |-> "part",
                                     mixed |-> others # {}]
                      ELSE [task[f] EXCEPT !.mixed = @ \/ f \in others]]
    BY <1>0, <1>4 DEF Pack!TaskOpens
  <2>2. others = {f \in Entries : Streams(f, n, "part")} /\ e \notin others
    BY <1>2, WritersAre DEF Streams
  <2> HIDE DEF others
  <2> DEFINE t == [pc |-> "streaming", name |-> n, holds |-> "part", mixed |-> others # {}]
  <2>3. /\ t \in TaskT /\ t.pc = "streaming" /\ t.name = n /\ t.holds = "part"
        /\ (t.mixed <=> others # {})
    BY <1>1 DEF TaskT, TaskPcs
  <2>4. \A f \in Entries : LET u == [task[f] EXCEPT !.mixed = @ \/ f \in others] IN
          /\ u \in TaskT /\ u.pc = task[f].pc /\ u.name = task[f].name
          /\ u.holds = task[f].holds /\ (u.mixed <=> task[f].mixed \/ f \in others)
    BY <1>1 DEF TaskT
  <2>5. task' = [f \in Entries |-> IF f = e THEN t ELSE [task[f] EXCEPT !.mixed = @ \/ f \in others]]
    BY <2>1
  <2> HIDE DEF t
  <2>6. /\ task' \in [Entries -> TaskT] /\ task'[e] = t
        /\ \A f \in Entries \ {e} :
             /\ task'[f].pc = task[f].pc /\ task'[f].name = task[f].name
             /\ task'[f].holds = task[f].holds
             /\ (task'[f].mixed <=> task[f].mixed \/ f \in others)
    BY <2>3, <2>4, <2>5
  <2>7. part' \in [Mods -> {Torn, None}] /\ part'[n] = Torn
        /\ \A m \in Mods \ {n} : part'[m] = part[m]
    BY <1>1, <2>1
  <2>8. ASSUME step = "gathering" PROVE Gathering'
    <3>1. Gathering /\ CreateTyped
      BY <1>1, <2>8
    <3>2. \A f \in Entries \ {e} : task[f].name # n => f \notin others
      BY <2>2 DEF Streams
    <3>3. \A f \in Entries \ {e} : task[f].mixed \in BOOLEAN /\ task'[f].mixed \in BOOLEAN
      BY <1>1, <2>6 DEF TaskT
    <3>4. \A f \in Entries \ {e} : task[f].name # n => task'[f].mixed = task[f].mixed
      BY <2>6, <3>2, <3>3
    <3>5. Moves(e)
      BY <1>0, <1>2, <2>1, <2>3, <2>6, <2>7, <3>4 DEF Moves
    <3>6. Told(e)'
      BY <2>3, <2>6 DEF Told
    <3>7. Owns(e)'
      <4>1. ASSUME Pack!Alone(e)' PROVE others = {}
        BY <2>2, <2>3, <2>6, <4>1 DEF Pack!Alone, Streams
      <4>2. QED
        BY <2>3, <2>6, <2>7, <4>1, Tokens DEF Owns
    <3>8. /\ \A where : \A f \in Entries \ {e}, m \in Mods :
               Streams(f, m, where)' <=> Streams(f, m, where)
          /\ Streams(e, n, "part")'
          /\ \A where : \A m \in Mods : ~ Streams(e, m, where)
          /\ \A where : \A m \in Mods \ {n} : ~ Streams(e, m, where)'
      <4>1. \A where : \A f \in Entries \ {e}, m \in Mods :
               Streams(f, m, where)' <=> Streams(f, m, where)
        BY <2>6 DEF Streams
      <4>2. Streams(e, n, "part")' /\ \A where : \A m \in Mods \ {n} : ~ Streams(e, m, where)'
        BY <2>3, <2>6 DEF Streams
      <4>3. \A where : \A m \in Mods : ~ Streams(e, m, where)
        BY <1>2 DEF Streams
      <4>4. QED
        BY <4>1, <4>2, <4>3
    <3>9. Trouble => Trouble'
      BY <1>2, <2>6 DEF Trouble
    <3>10. Torn1'
      <4>1. ASSUME NEW f \in Entries, NEW m \in Mods, Streams(f, m, "part")', task'[f].mixed
            PROVE  Trouble' \/ \E g \in Entries \ {f} : Streams(g, m, "part")'
        <5>1. CASE f = e
          <6>1. m = n /\ others # {}
            BY <2>3, <2>6, <3>8, <4>1, <5>1
          <6>2. PICK g \in others : TRUE
            BY <6>1
          <6>3. g \in Entries \ {e} /\ Streams(g, n, "part")
            BY <2>2
          <6>4. QED
            BY <3>8, <5>1, <6>1, <6>3
        <5>2. CASE f # e /\ f \in others
          <6>1. m = n
            <7>1. Streams(f, m, "part") /\ Streams(f, n, "part")
              BY <2>2, <3>8, <4>1, <5>2
            <7>2. QED
              BY <7>1 DEF Streams
          <6>2. QED
            BY <3>8, <5>2, <6>1
        <5>3. CASE f # e /\ f \notin others
          <6>1. Streams(f, m, "part") /\ task[f].mixed
            BY <2>6, <3>8, <4>1, <5>3
          <6>2. Trouble \/ \E g \in Entries \ {f} : Streams(g, m, "part")
            BY <3>1, <6>1 DEF Gathering, Torn1
          <6>3. QED
            BY <3>8, <3>9, <6>2
        <5>4. QED
          BY <5>1, <5>2, <5>3
      <4>2. QED
        BY <4>1 DEF Torn1
    <3>11. Torn2'
      BY <1>2, <3>1, <3>8, <3>9 DEF Gathering, Torn2
    <3>12. Torn3'
      <4>1. ASSUME NEW m \in Mods, part'[m] # None
            PROVE  Trouble' \/ \E g \in Entries : Streams(g, m, "part")'
        <5>1. CASE m = n
          BY <3>8, <5>1
        <5>2. CASE m # n
          <6>1. Trouble \/ \E g \in Entries : Streams(g, m, "part")
            BY <2>7, <3>1, <4>1, <5>2 DEF Gathering, Torn3
          <6>2. QED
            BY <3>8, <3>9, <6>1
        <5>3. QED
          BY <5>1, <5>2
      <4>2. QED
        BY <4>1 DEF Torn3
    <3>13. QED
      BY <3>1, <3>5, <3>6, <3>7, <3>10, <3>11, <3>12, GatherKeeps
  <2>9. \A f \in Entries : task'[f].pc \in {"asking", "streaming", "fetched"} => task'[f].name \in Mods
    BY <1>1, <2>3, <2>6, Typed
  <2>10. jars' \in [Mods -> PackT]
    BY <1>2, Typed
  <2>11. QED
    BY <1>1, <1>2, <2>1, <2>6, <2>7, <2>8, <2>9, <2>10, CreateKeeps
<1>5. QED
  BY <1>1, <1>3, <1>4

(* A task that finds no .part to rename raises. *)
LEMMA RaisesDownload ==
  ASSUME ModpackInv, step \in {"gathering", "refused", "aborted"}, UNCHANGED pages,
         NEW e \in Entries, task[e].pc = "streaming", NEW n \in Mods, n = task[e].name,
         step' = step, run_sh' = run_sh, missing' = missing, mods_dir' = mods_dir, part' = part,
         NEW whole \in {e, Torn},
         jars' = IF task[e].holds = "jar" THEN [jars EXCEPT ![n] = whole] ELSE jars,
         Pack!Raises(e, "os")
  PROVE  ModpackInv'
<1>1. /\ task \in [Entries -> TaskT] /\ task[e] \in TaskT /\ jars \in [Mods -> PackT]
      /\ mods_dir \in BOOLEAN /\ raised \in {None, "value", "os"} /\ CreateTyped
      /\ step = "gathering" => Gathering
  BY Typed
<1> DEFINE t == [task[e] EXCEPT !.pc = "raised", !.holds = "none"]
<1>2. t \in TaskT /\ t.pc = "raised" /\ t.name = n
  BY <1>1 DEF TaskT, TaskPcs
<1>3. task' = [task EXCEPT ![e] = t]
  BY <1>1 DEF Pack!Raises
<1> HIDE DEF t
<1>4. Becomes(e, t)
  BY <1>1, <1>2, <1>3, SetTask
<1>5. raised' \in {None, "value", "os"} /\ raised' # None
  BY <1>1, Tokens DEF Pack!Raises
<1>6. jars' \in [Mods -> PackT] /\ \A m \in Mods \ {n} : jars'[m] = jars[m]
  BY <1>1 DEF PackT
<1>7. ASSUME step = "gathering" PROVE Gathering'
  <2>1. Moves(e)
    BY <1>2, <1>4, <1>5, <1>6 DEF Moves, Becomes
  <2>2. Owns(e)' /\ Told(e)'
    BY <1>2, <1>4, <1>5 DEF Owns, Told, Becomes
  <2>3. Trouble'
    BY <1>2, <1>4 DEF Trouble, Becomes
  <2>4. QED
    BY <1>1, <1>7, <2>1, <2>2, <2>3, GatherKeeps
<1>8. part' \in [Mods -> {Torn, None}]
  BY Typed
<1>9. \A f \in Entries : task'[f].pc \in {"asking", "streaming", "fetched"} => task'[f].name \in Mods
  BY <1>2, <1>4, Typed DEF Becomes
<1>10. QED
  BY <1>1, <1>4, <1>5, <1>6, <1>7, <1>8, <1>9, CreateKeeps DEF Becomes

LEMMA FetchedTask ==
  ASSUME NEW n \in Mods, NEW t, t = [Pack!Task("fetched") EXCEPT !.name = n]
  PROVE  t \in TaskT /\ t.pc = "fetched" /\ t.name = n
<1>1. ASSUME NEW u \in TaskT, t = [u EXCEPT !.name = n]
      PROVE  t \in TaskT /\ t.pc = u.pc /\ t.name = n
  BY <1>1 DEF TaskT
<1>2. QED
  BY <1>1, TaskFacts, TaskPcNames

(* One that does takes the file of whoever is writing it. *)
LEMMA RenamesDownload ==
  ASSUME ModpackInv, step \in {"gathering", "refused", "aborted"}, UNCHANGED pages,
         NEW e \in Entries, task[e].pc = "streaming", NEW n \in Mods, n = task[e].name,
         step' = step, run_sh' = run_sh, missing' = missing, mods_dir' = mods_dir,
         NEW whole \in Pack!Written(e), part[n] # None, Pack!Renamed(e, n, whole)
  PROVE  ModpackInv'
<1>1. /\ task \in [Entries -> TaskT] /\ task[e] \in TaskT /\ jars \in [Mods -> PackT]
      /\ part \in [Mods -> {Torn, None}]
      /\ mods_dir \in BOOLEAN /\ raised \in {None, "value", "os"} /\ CreateTyped
      /\ step = "gathering" => Gathering
  BY Typed
<1>2. whole \in {e, Torn} /\ (whole = Torn => task[e].mixed)
  <2>1. e # Torn
    BY Tokens
  <2>2. CASE task[e].mixed
    BY <2>2 DEF Pack!Written
  <2>3. CASE ~ task[e].mixed
    BY <2>1, <2>3 DEF Pack!Written
  <2>4. QED
    BY <2>2, <2>3
<1> DEFINE t == [Pack!Task("fetched") EXCEPT !.name = n]
<1>3. t \in TaskT /\ t.pc = "fetched" /\ t.name = n
  BY FetchedTask
<1>4. /\ jars' = [jars EXCEPT ![n] = IF task[e].holds = "part" THEN whole ELSE part[n]]
      /\ part' = [part EXCEPT ![n] = None] /\ raised' = raised
      /\ task' = [f \in Entries |->
                IF f = e THEN t
                ELSE IF Streams(f, n, "part") THEN [task[f] EXCEPT !.holds = "jar"]
                ELSE IF Streams(f, n, "jar") THEN [task[f] EXCEPT !.holds = "none"]
                ELSE task[f]]
  BY WritersAre DEF Pack!Renamed
<1> HIDE DEF t
<1>5. \A f \in Entries, h \in {"jar", "none"} : LET u == [task[f] EXCEPT !.holds = h] IN
        /\ u \in TaskT /\ u.pc = task[f].pc /\ u.name = task[f].name
        /\ u.mixed = task[f].mixed /\ u.holds = h
  BY <1>1 DEF TaskT
<1>6. /\ task' \in [Entries -> TaskT] /\ task'[e] = t
      /\ \A f \in Entries \ {e} :
           /\ task'[f].pc = task[f].pc /\ task'[f].name = task[f].name
           /\ task'[f].mixed = task[f].mixed
           /\ task'[f].holds = IF Streams(f, n, "part") THEN "jar"
                               ELSE IF Streams(f, n, "jar") THEN "none" ELSE task[f].holds
  BY <1>1, <1>3, <1>4, <1>5
<1>7. /\ jars' \in [Mods -> PackT] /\ part' \in [Mods -> {Torn, None}]
      /\ part'[n] = None /\ jars'[n] = IF task[e].holds = "part" THEN whole ELSE part[n]
      /\ \A m \in Mods \ {n} : jars'[m] = jars[m] /\ part'[m] = part[m]
  BY <1>1, <1>2, <1>4 DEF PackT
<1>8. ASSUME step = "gathering" PROVE Gathering'
  <2>1. Gathering /\ Moves(e)
    <3>1. \A f \in Entries \ {e} : task[f].name # n => task'[f].holds = task[f].holds
      BY <1>6 DEF Streams
    <3>2. QED
      BY <1>1, <1>3, <1>4, <1>6, <1>7, <1>8, <3>1 DEF Moves
  <2>2. Told(e)'
    BY <1>3, <1>6 DEF Told
  <2>3. Owns(e)'
    <3>1. ASSUME Pack!Alone(e)' PROVE jars'[n] = e
      <4>1. Pack!Alone(e)
        BY <1>3, <1>6, <3>1 DEF Pack!Alone
      <4>2. ~ task[e].mixed /\ task[e].holds = "part"
        BY <2>1, <4>1 DEF Gathering, Own, Owns
      <4>3. QED
        BY <1>2, <1>7, <4>2
    <3>2. QED
      BY <1>3, <1>6, <3>1 DEF Owns
  <2>4. Trouble => Trouble'
    BY <1>6 DEF Trouble
  <2>5. \A where : \A f \in Entries \ {e}, m \in Mods \ {n} :
          Streams(f, m, where)' <=> Streams(f, m, where)
    BY <1>6 DEF Streams
  <2>6. /\ \A f \in Entries \ {e} : Streams(f, n, "part") => Streams(f, n, "jar")'
        /\ \A f \in Entries \ {e} : ~ Streams(f, n, "part")'
        /\ \A where : \A m \in Mods : ~ Streams(e, m, where)'
        /\ \A where : \A m \in Mods \ {n} : ~ Streams(e, m, where)
    BY <1>3, <1>6 DEF Streams
  <2>7. Torn1'
    <3>1. ASSUME NEW f \in Entries, NEW m \in Mods, Streams(f, m, "part")', task'[f].mixed
          PROVE  Trouble' \/ \E g \in Entries \ {f} : Streams(g, m, "part")'
      <4>1. f # e /\ m # n
        BY <2>6, <3>1
      <4>2. Streams(f, m, "part") /\ task[f].mixed
        BY <1>6, <2>5, <3>1, <4>1
      <4>3. Trouble \/ \E g \in Entries \ {f} : Streams(g, m, "part")
        BY <2>1, <4>2 DEF Gathering, Torn1
      <4>4. QED
        BY <2>4, <2>5, <2>6, <4>1, <4>3
    <3>2. QED
      BY <3>1 DEF Torn1
  <2>8. Torn2'
    <3>1. ASSUME NEW m \in Mods, jars'[m] = Torn
          PROVE  Trouble' \/ \E g \in Entries : Streams(g, m, "jar")'
      <4>1. CASE m # n
        <5>1. Trouble \/ \E g \in Entries : Streams(g, m, "jar")
          BY <1>7, <2>1, <3>1, <4>1 DEF Gathering, Torn2
        <5>2. QED
          BY <2>4, <2>5, <2>6, <4>1, <5>1
      <4>2. CASE m = n /\ task[e].holds = "part"
        <5>1. task[e].mixed /\ Streams(e, n, "part")
          BY <1>2, <1>7, <3>1, <4>2 DEF Streams
        <5>2. Trouble \/ \E g \in Entries \ {e} : Streams(g, n, "part")
          BY <2>1, <5>1 DEF Gathering, Torn1
        <5>3. QED
          BY <2>4, <2>6, <4>2, <5>2
      <4>3. CASE m = n /\ task[e].holds # "part"
        <5>1. Trouble \/ \E g \in Entries : Streams(g, n, "part")
          BY <2>1 DEF Gathering, Torn3
        <5>2. ~ Streams(e, n, "part")
          BY <4>3 DEF Streams
        <5>3. QED
          BY <2>4, <2>6, <4>3, <5>1, <5>2
      <4>4. QED
        BY <4>1, <4>2, <4>3
    <3>2. QED
      BY <3>1 DEF Torn2
  <2>9. Torn3'
    <3>1. ASSUME NEW m \in Mods, part'[m] # None
          PROVE  Trouble' \/ \E g \in Entries : Streams(g, m, "part")'
      <4>1. m # n
        BY <1>7, <3>1
      <4>2. Trouble \/ \E g \in Entries : Streams(g, m, "part")
        BY <1>7, <2>1, <3>1, <4>1 DEF Gathering, Torn3
      <4>3. QED
        BY <2>4, <2>5, <2>6, <4>1, <4>2
    <3>2. QED
      BY <3>1 DEF Torn3
  <2>10. QED
    BY <1>1, <2>1, <2>2, <2>3, <2>7, <2>8, <2>9, GatherKeeps
<1>9. \A f \in Entries : task'[f].pc \in {"asking", "streaming", "fetched"} => task'[f].name \in Mods
  BY <1>3, <1>6, Typed
<1>10. QED
  BY <1>1, <1>4, <1>6, <1>7, <1>8, <1>9, CreateKeeps

LEMMA EndsDownload ==
  ASSUME ModpackInv, step \in {"gathering", "refused", "aborted"}, UNCHANGED pages,
         NEW e \in Entries, Pack!TaskEnds(e)
  PROVE  ModpackInv'
<1>0. PICK n \in Mods : n = task[e].name
  BY Typed DEF Pack!TaskEnds
<1>1. /\ step' = step /\ run_sh' = run_sh /\ missing' = missing /\ mods_dir' = mods_dir
      /\ task[e].pc = "streaming"
  BY DEF Pack!TaskEnds
<1>2. PICK whole \in Pack!Written(e) :
        IF part[n] # None THEN Pack!Renamed(e, n, whole)
        ELSE /\ jars' = IF task[e].holds = "jar" THEN [jars EXCEPT ![n] = whole] ELSE jars
             /\ Pack!Raises(e, "os") /\ part' = part
  BY <1>0 DEF Pack!TaskEnds
<1>3. whole \in {e, Torn}
  BY DEF Pack!Written
<1>4. CASE part[n] # None
  BY <1>0, <1>1, <1>2, <1>4, RenamesDownload
<1>5. CASE part[n] = None
  BY <1>0, <1>1, <1>2, <1>3, <1>5, RaisesDownload
<1>6. QED
  BY <1>4, <1>5

LEMMA DownloadStep ==
  ASSUME ModpackInv, UNCHANGED pages, NEW e \in Entries, Pack!Download(e)
  PROVE  ModpackInv'
<1>1. task[e].pc \in {"waiting", "naming", "asking", "streaming"}
  BY DEF Pack!Download, Pack!TaskStarts, Pack!TaskFails, Pack!TaskReadsNoJson, Pack!TaskNamed,
         Pack!TaskOpens, Pack!TaskEnds
<1>2. ASSUME Opening PROVE FALSE
  <2>1. task[e] = Pack!Task("none")
    BY <1>2 DEF Opening
  <2>2. QED
    BY <1>1, <2>1, TaskFacts, TaskPcNames
<1>3. ASSUME Done PROVE FALSE
  BY <1>1, <1>3 DEF Done, Quiet
<1>4. step \in {"gathering", "refused", "aborted"}
  BY <1>2, <1>3 DEF ModpackInv, CreateTyped
<1>5. QED
  BY <1>4, PlainDownload, OpensDownload, EndsDownload DEF Pack!Download

LEMMA CreateStep ==
  ASSUME ModpackInv, UNCHANGED pages, Pack!Next
  PROVE  ModpackInv'
BY EarlyStep, GatherBegins, GatherEnds, DownloadStep DEF Pack!Next, Pack!Create

-----------------------------------------------------------------------------
(* The pages of a modpack server: the marketplace, and what the container  *)
(* does.                                                                   *)

ModT  == (Entries \cup Builds) \cup {Torn, None}
MReqT == [pc : {"idle", "updating", "streaming"}, file : {} \cup {None},
          target : Mods \cup {None}, build : (Entries \cup Builds) \cup {None},
          holds : {"none", "jar", "disabled"}, mixed : BOOLEAN]

ModTyped ==
  /\ jars \in [Mods -> ModT] /\ disabled \in [{} -> ModT]
  /\ upload \in [{} -> ModT] /\ loaded \in [Mods -> ModT]
  /\ mapped \subseteq Mods /\ loop \in Modded!Loops /\ req \in [Requests -> MReqT]
  /\ streamed \subseteq Mods

LEMMA ModShapes == Modded!TypeOK <=> ModTyped
BY DEF Modded!TypeOK, Modded!Reqs, ModTyped, ModT, MReqT

LEMMA NextModShapes == Modded!TypeOK' <=> ModTyped'
BY DEF Modded!TypeOK, Modded!Reqs, ModTyped, ModT, MReqT, Modded!Loops

LEMMA ModIdle ==
  Modded!Idle \in MReqT /\ Modded!Idle.pc = "idle"
BY DEF Modded!Idle, MReqT

LEMMA PagesKeep ==
  ASSUME ModpackInv, step = "done", UNCHANGED create, ModTyped', loop' = Modded!Free,
         mapped' \subseteq {j \in Mods : loaded'[j] # None},
         \A r \in Requests :
            req'[r].pc # "updating" /\ (req'[r].pc = "streaming" => Held(r, Mods)'),
         streamed \subseteq streamed', NEW S \in SUBSET Mods, S \subseteq streamed',
         \A n \in Mods \ S : jars'[n] = jars[n],
         \/ loaded' = Modded!Down
         \/ loaded' = jars
         \/ loaded # Modded!Down /\ \A n \in Mods \ S : loaded'[n] = loaded[n]
  PROVE  ModpackInv'
<1>1. /\ step' = step /\ run_sh' = run_sh /\ missing' = missing /\ raised' = raised
      /\ mods_dir' = mods_dir /\ part' = part /\ task' = task
  BY DEF create
<1>2. Done /\ CreateTyped
  BY DEF ModpackInv
<1>3. CreateTyped'
  BY <1>1, <1>2 DEF CreateTyped
<1>4. Quiet'
  BY <1>1, <1>2 DEF Done, Quiet
<1>5. Serving'
  BY DEF Serving, Modded!Free
<1>6. \A e \in Entries : task[e].pc = "fetched" => task[e].name \in Mods
  BY <1>2 DEF CreateTyped
<1>7. \A e \in Entries : Pack!Alone(e)' => Pack!Alone(e)
  BY <1>1 DEF Pack!Alone
<1>8. Whole(jars)'
  <2>1. Whole(jars)
    BY <1>2 DEF Done
  <2>2. missing' = {} => \A n \in Mods : jars'[n] = Torn => n \in streamed'
    BY <1>1, <2>1 DEF Whole
  <2>3. \A e \in Entries :
          task'[e].pc = "fetched" /\ task'[e].name \notin streamed' /\ Pack!Alone(e)'
            => jars'[task'[e].name] = e
    BY <1>1, <1>6, <1>7, <2>1 DEF Whole
  <2>4. QED
    BY <2>2, <2>3 DEF Whole
<1>9. (loaded = Modded!Down)' \/ Whole(loaded)'
  <2>1. CASE loaded' = Modded!Down
    BY <2>1 DEF Modded!Down
  <2>2. CASE loaded' = jars
    <3>1. Whole(jars)
      BY <1>2 DEF Done
    <3>2. missing' = {} => \A n \in Mods : loaded'[n] = Torn => n \in streamed'
      BY <1>1, <2>2, <3>1 DEF Whole
    <3>3. \A e \in Entries :
            task'[e].pc = "fetched" /\ task'[e].name \notin streamed' /\ Pack!Alone(e)'
              => loaded'[task'[e].name] = e
      BY <1>1, <1>6, <1>7, <2>2, <3>1 DEF Whole
    <3>4. QED
      BY <3>2, <3>3 DEF Whole
  <2>3. CASE loaded # Modded!Down /\ \A n \in Mods \ S : loaded'[n] = loaded[n]
    <3>1. Whole(loaded)
      BY <1>2, <2>3 DEF Done
    <3>2. missing' = {} => \A n \in Mods : loaded'[n] = Torn => n \in streamed'
      BY <1>1, <2>3, <3>1 DEF Whole
    <3>3. \A e \in Entries :
            task'[e].pc = "fetched" /\ task'[e].name \notin streamed' /\ Pack!Alone(e)'
              => loaded'[task'[e].name] = e
      BY <1>1, <1>6, <1>7, <2>3, <3>1 DEF Whole
    <3>4. QED
      BY <3>2, <3>3 DEF Whole
  <2>4. QED
    BY <2>1, <2>2, <2>3
<1>10. Done'
  BY <1>4, <1>5, <1>8, <1>9, NextModShapes DEF Done
<1>11. QED
  BY <1>1, <1>3, <1>10 DEF ModpackInv

LEMMA NothingWritten ==
  ASSUME ModpackInv, step = "done", UNCHANGED create, ModTyped', loop' = Modded!Free,
         mapped' \subseteq {j \in Mods : loaded'[j] # None},
         \A r \in Requests :
            req'[r].pc # "updating" /\ (req'[r].pc = "streaming" => Held(r, Mods)'),
         streamed' = streamed, jars' = jars,
         loaded' \in {loaded, jars, Modded!Down}
  PROVE  ModpackInv'
<1> DEFINE S == {}
<1>1. S \in SUBSET Mods /\ S \subseteq streamed' /\ streamed \subseteq streamed'
      /\ \A n \in Mods \ S : jars'[n] = jars[n]
  OBVIOUS
<1>2. \/ loaded' = Modded!Down
      \/ loaded' = jars
      \/ loaded # Modded!Down /\ \A n \in Mods \ S : loaded'[n] = loaded[n]
  OBVIOUS
<1> HIDE DEF S
<1>3. QED
  BY <1>1, <1>2, PagesKeep

LEMMA ContainerStep ==
  ASSUME ModpackInv, step = "done", UNCHANGED create,
         Modded!Boot \/ Modded!Stop \/ Modded!Crash
  PROVE  ModpackInv'
<1>1. ModTyped /\ Serving
  BY ModShapes DEF ModpackInv, Done
<1>2. /\ jars' = jars /\ disabled' = disabled /\ upload' = upload /\ streamed' = streamed
      /\ loop' = Modded!Free
      /\ req' = req \/ req' = [r \in Requests |-> Modded!Idle]
  BY <1>1 DEF Modded!Boot, Modded!Stop, Modded!Crash, Modded!files, Serving
<1>3. /\ req' \in [Requests -> MReqT]
      /\ \A r \in Requests :
            req'[r].pc # "updating" /\ (req'[r].pc = "streaming" => Held(r, Mods)')
  BY <1>1, <1>2, ModIdle DEF ModTyped, Serving, Held
<1>4. loop' \in Modded!Loops
  BY <1>1, <1>2 DEF ModTyped, Serving
<1>5. CASE Modded!Boot
  <2>1. loaded' = jars /\ mapped' = {j \in Mods : jars[j] # None}
    BY <1>5 DEF Modded!Boot
  <2>2. ModTyped'
    BY <1>1, <1>2, <1>3, <1>4, <2>1 DEF ModTyped, Modded!Loops
  <2>3. QED
    BY <1>2, <1>3, <2>1, <2>2, NothingWritten
<1>6. CASE Modded!Stop
  <2>1. loaded' = Modded!Down /\ mapped' = {} /\ loaded' \in [Mods -> ModT]
    BY <1>6 DEF Modded!Stop, Modded!Down, ModT
  <2>2. ModTyped'
    BY <1>1, <1>2, <1>3, <1>4, <2>1 DEF ModTyped, Modded!Loops
  <2>3. QED
    BY <1>2, <1>3, <2>1, <2>2, NothingWritten
<1>7. CASE Modded!Crash
  <2>1. loaded' = loaded /\ mapped' = mapped
    BY <1>7 DEF Modded!Crash, Modded!jvm
  <2>2. ModTyped'
    BY <1>1, <1>2, <1>3, <1>4, <2>1 DEF ModTyped, Modded!Loops
  <2>3. mapped' \subseteq {j \in Mods : loaded'[j] # None}
    BY <1>1, <2>1 DEF Serving
  <2>4. QED
    BY <1>2, <1>3, <2>1, <2>2, <2>3, NothingWritten
<1>8. QED
  BY <1>5, <1>6, <1>7

(* loaded as a step leaves it that wrote x into the file of j, if the JVM  *)
(* has it open.                                                            *)
LEMMA LoadedWith ==
  ASSUME ModTyped, Serving, NEW j \in Mods, NEW x \in ModT, x # None,
         loaded' = loaded \/ (j \in mapped /\ loaded' = [loaded EXCEPT ![j] = x]),
         mapped' \subseteq mapped
  PROVE  /\ loaded' \in [Mods -> ModT] /\ mapped' \subseteq {i \in Mods : loaded'[i] # None}
         /\ \/ loaded' = Modded!Down
            \/ loaded # Modded!Down /\ \A n \in Mods \ {j} : loaded'[n] = loaded[n]
<1>1. j \in mapped => loaded # Modded!Down
  BY DEF Serving, Modded!Down
<1>2. CASE loaded' = loaded
  BY <1>2 DEF ModTyped, Serving, Modded!Down
<1>3. CASE j \in mapped /\ loaded' = [loaded EXCEPT ![j] = x]
  BY <1>1, <1>3 DEF ModTyped, Serving
<1>4. QED
  BY <1>2, <1>3

LEMMA ModInstallOpens ==
  ASSUME ModpackInv, step = "done", UNCHANGED create, NEW r \in Requests,
         Modded!InstallOpens(r)
  PROVE  ModpackInv'
<1>1. ModTyped /\ Serving
  BY ModShapes DEF ModpackInv, Done
<1>2. PICK j \in Mods, b \in Builds :
        LET others == Modded!Writers(j, "jar")
        IN  /\ jars' = [jars EXCEPT ![j] = Torn]
            /\ loaded' = IF j \in mapped THEN [loaded EXCEPT ![j] = Torn] ELSE loaded
            /\ streamed' = streamed \cup {j}
            /\ req' = [q \in Requests |->
                 IF q = r THEN [Modded!Idle EXCEPT !.pc = "streaming", !.target = j, !.build = b,
                                            !.holds = "jar", !.mixed = others # {}]
                 ELSE [req[q] EXCEPT !.mixed = @ \/ q \in others]]
  BY DEF Modded!InstallOpens
<1>3. /\ loop = Modded!Free /\ loop' = loop /\ upload' = upload /\ disabled' = disabled
      /\ mapped' = mapped
  BY DEF Modded!InstallOpens
<1> DEFINE others == Modded!Writers(j, "jar")
           x == [Modded!Idle EXCEPT !.pc = "streaming", !.target = j, !.build = b,
                                    !.holds = "jar", !.mixed = others # {}]
<1>4. x \in MReqT /\ x.pc = "streaming" /\ x.target = j /\ x.build = b
  BY DEF MReqT, Modded!Idle
<1>5. \A q \in Requests : LET y == [req[q] EXCEPT !.mixed = @ \/ q \in others] IN
        /\ y \in MReqT /\ y.pc = req[q].pc /\ y.file = req[q].file
        /\ y.target = req[q].target /\ y.build = req[q].build
  BY <1>1 DEF ModTyped, MReqT
<1>6. req' = [q \in Requests |->
               IF q = r THEN x ELSE [req[q] EXCEPT !.mixed = @ \/ q \in others]]
  BY <1>2
<1> HIDE DEF x, others
<1>7. /\ req' \in [Requests -> MReqT] /\ req'[r] = x
      /\ \A q \in Requests \ {r} : Same(q)
  BY <1>4, <1>5, <1>6 DEF Same
<1>8. streamed' = streamed \cup {j}
  BY <1>2
<1>9. \A q \in Requests :
        req'[q].pc # "updating" /\ (req'[q].pc = "streaming" => Held(q, Mods)')
  BY <1>1, <1>4, <1>7, <1>8 DEF Serving, Held, Same
<1>10. jars' \in [Mods -> ModT] /\ \A i \in Mods \ {j} : jars'[i] = jars[i]
  BY <1>1, <1>2 DEF ModTyped, ModT
<1>11. /\ loaded' \in [Mods -> ModT] /\ mapped' \subseteq {i \in Mods : loaded'[i] # None}
       /\ \/ loaded' = Modded!Down
          \/ loaded # Modded!Down /\ \A n \in Mods \ {j} : loaded'[n] = loaded[n]
  <2>1. Torn \in ModT /\ Torn # None
    BY Tokens DEF ModT
  <2>2. loaded' = loaded \/ (j \in mapped /\ loaded' = [loaded EXCEPT ![j] = Torn])
    BY <1>2
  <2>3. QED
    BY <1>1, <1>3, <2>1, <2>2, LoadedWith
<1>12. ModTyped'
  BY <1>1, <1>3, <1>7, <1>8, <1>10, <1>11 DEF ModTyped, Modded!Loops
<1>13. {j} \in SUBSET Mods /\ {j} \subseteq streamed' /\ streamed \subseteq streamed'
  BY <1>8
<1>14. QED
  BY <1>3, <1>9, <1>10, <1>11, <1>12, <1>13, PagesKeep

LEMMA ModRequestEnds ==
  ASSUME ModTyped, Serving, NEW r \in Requests, streamed' = streamed,
         NEW m \in [Requests -> MReqT],
         \A q \in Requests : /\ m[q].pc = req[q].pc /\ m[q].target = req[q].target
                             /\ m[q].build = req[q].build,
         req' = [m EXCEPT ![r] = Modded!Idle]
  PROVE  /\ req' \in [Requests -> MReqT]
         /\ \A q \in Requests :
              req'[q].pc # "updating" /\ (req'[q].pc = "streaming" => Held(q, Mods)')
<1>1. /\ req' \in [Requests -> MReqT] /\ req'[r] = Modded!Idle
      /\ \A q \in Requests \ {r} : req'[q] = m[q]
  BY ModIdle
<1>2. QED
  BY <1>1, ModIdle DEF Serving, Held

LEMMA ModInstallEnds ==
  ASSUME ModpackInv, step = "done", UNCHANGED create, NEW r \in Requests,
         Modded!InstallEnds(r)
  PROVE  ModpackInv'
<1>1. ModTyped /\ Serving
  BY ModShapes DEF ModpackInv, Done
<1>2. PICK j \in Mods : j = req[r].target /\ j \in streamed /\ req[r].build \in Builds
  BY <1>1 DEF Serving, Held, Modded!InstallEnds
<1>3. PICK whole \in IF req[r].mixed THEN {req[r].build, Torn} ELSE {req[r].build} :
       /\ jars' = Modded!Filled(r, jars, "jar", whole)
       /\ disabled' = Modded!Filled(r, disabled, "disabled", whole)
       /\ loaded' = IF req[r].holds = "jar" /\ req[r].target \in mapped
                    THEN [loaded EXCEPT ![req[r].target] = whole] ELSE loaded
  BY DEF Modded!InstallEnds
<1>4. whole \in ModT /\ whole # None
  BY <1>2, <1>3, Tokens DEF ModT
<1>5. /\ jars' \in {jars, [jars EXCEPT ![j] = whole]}
      /\ disabled' \in {disabled, [disabled EXCEPT ![j] = whole]}
      /\ loaded' = loaded \/ (j \in mapped /\ loaded' = [loaded EXCEPT ![j] = whole])
  BY <1>2, <1>3 DEF Modded!Filled
<1>6. /\ loop = Modded!Free /\ loop' = loop /\ upload' = upload /\ mapped' = mapped
      /\ streamed' = streamed /\ req' = [req EXCEPT ![r] = Modded!Idle]
  BY DEF Modded!InstallEnds
<1>7. /\ jars' \in [Mods -> ModT] /\ disabled' \in [{} -> ModT]
      /\ \A i \in Mods \ {j} : jars'[i] = jars[i]
  BY <1>1, <1>4, <1>5 DEF ModTyped
<1>8. /\ loaded' \in [Mods -> ModT] /\ mapped' \subseteq {i \in Mods : loaded'[i] # None}
      /\ \/ loaded' = Modded!Down
         \/ loaded # Modded!Down /\ \A n \in Mods \ {j} : loaded'[n] = loaded[n]
  BY <1>1, <1>4, <1>5, <1>6, LoadedWith
<1>9. /\ req' \in [Requests -> MReqT]
      /\ \A q \in Requests :
           req'[q].pc # "updating" /\ (req'[q].pc = "streaming" => Held(q, Mods)')
  BY <1>1, <1>6, ModRequestEnds DEF ModTyped
<1>10. ModTyped'
  BY <1>1, <1>6, <1>7, <1>8, <1>9 DEF ModTyped, Modded!Loops
<1>11. {j} \in SUBSET Mods /\ {j} \subseteq streamed' /\ streamed \subseteq streamed'
  BY <1>2, <1>6
<1>12. QED
  BY <1>6, <1>7, <1>8, <1>9, <1>10, <1>11, PagesKeep

LEMMA ModInstallMismatches ==
  ASSUME ModpackInv, step = "done", UNCHANGED create, NEW r \in Requests,
         Modded!InstallMismatches(r)
  PROVE  ModpackInv'
<1>1. ModTyped /\ Serving
  BY ModShapes DEF ModpackInv, Done
<1>2. PICK j \in Mods : j = req[r].target /\ j \in streamed
  BY <1>1 DEF Serving, Held, Modded!InstallMismatches
<1>3. /\ loop = Modded!Free /\ loop' = loop /\ upload' = upload /\ disabled' = disabled
      /\ loaded' = loaded /\ streamed' = streamed /\ mapped' = mapped \ {j}
      /\ jars' = [jars EXCEPT ![j] = None]
      /\ req' = [Modded!Moved(j, "none", "disabled") EXCEPT ![r] = Modded!Idle]
  BY <1>2 DEF Modded!InstallMismatches
<1> DEFINE m == Modded!Moved(j, "none", "disabled")
<1>4. /\ m \in [Requests -> MReqT]
      /\ \A q \in Requests : /\ m[q].pc = req[q].pc /\ m[q].target = req[q].target
                             /\ m[q].build = req[q].build
  BY <1>1 DEF ModTyped, Modded!Moved, Modded!Writers, MReqT
<1>5. req' = [m EXCEPT ![r] = Modded!Idle]
  BY <1>3
<1> HIDE DEF m
<1>6. /\ req' \in [Requests -> MReqT]
      /\ \A q \in Requests :
           req'[q].pc # "updating" /\ (req'[q].pc = "streaming" => Held(q, Mods)')
  BY <1>1, <1>3, <1>4, <1>5, ModRequestEnds
<1>7. jars' \in [Mods -> ModT] /\ \A i \in Mods \ {j} : jars'[i] = jars[i]
  BY <1>1, <1>3 DEF ModTyped, ModT
<1>8. /\ mapped' \subseteq {i \in Mods : loaded'[i] # None}
      /\ \/ loaded' = Modded!Down
         \/ loaded # Modded!Down /\ \A n \in Mods \ {j} : loaded'[n] = loaded[n]
  BY <1>1, <1>3 DEF Serving
<1>9. ModTyped'
  BY <1>1, <1>3, <1>6, <1>7 DEF ModTyped, Modded!Loops
<1>10. {j} \in SUBSET Mods /\ {j} \subseteq streamed' /\ streamed \subseteq streamed'
  BY <1>2, <1>3
<1>11. QED
  BY <1>3, <1>6, <1>7, <1>8, <1>9, <1>10, PagesKeep

LEMMA ModAwaitFails ==
  ASSUME ModpackInv, step = "done", UNCHANGED create, NEW r \in Requests,
         Modded!AwaitFails(r)
  PROVE  ModpackInv'
<1>1. ModTyped /\ Serving
  BY ModShapes DEF ModpackInv, Done
<1>2. /\ loop = Modded!Free /\ loop' = loop /\ upload' = upload /\ disabled' = disabled
      /\ jars' = jars /\ loaded' = loaded /\ streamed' = streamed /\ mapped' = mapped
      /\ req' = [req EXCEPT ![r] = Modded!Idle]
  BY DEF Modded!AwaitFails, Modded!files, Modded!jvm
<1>3. /\ req' \in [Requests -> MReqT]
      /\ \A q \in Requests :
           req'[q].pc # "updating" /\ (req'[q].pc = "streaming" => Held(q, Mods)')
  BY <1>1, <1>2, ModRequestEnds DEF ModTyped
<1>4. ModTyped'
  BY <1>1, <1>2, <1>3 DEF ModTyped, Modded!Loops
<1>5. mapped' \subseteq {i \in Mods : loaded'[i] # None}
  BY <1>1, <1>2 DEF Serving
<1>6. QED
  BY <1>2, <1>3, <1>4, <1>5, NothingWritten

LEMMA PagesStep ==
  ASSUME ModpackInv, step = "done", UNCHANGED create, Modded!Next
  PROVE  ModpackInv'
<1>1. Serving
  BY DEF ModpackInv, Done
<1>2. loop = Modded!Free /\ Modded!Free.at = "free"
  BY <1>1 DEF Serving, Modded!Free
<1>3. ~ Modded!TempWritten /\ ~ Modded!OldUnlinked /\ ~ Modded!TempRenamed
  BY <1>2 DEF Modded!TempWritten, Modded!OldUnlinked, Modded!TempRenamed
<1>4. ~ Modded!UploadBegins /\ \A r \in Requests : ~ Modded!UpdateBegins(r)
  BY DEF Modded!UploadBegins, Modded!UpdateBegins
<1>5. \A r \in Requests : ~ Modded!UpdateFetched(r)
  BY <1>1 DEF Serving, Modded!UpdateFetched
<1>6. ASSUME NEW r \in Requests,
             \/ Modded!InstallOpens(r) \/ Modded!InstallEnds(r) \/ Modded!InstallMismatches(r)
             \/ Modded!AwaitFails(r)
      PROVE  ModpackInv'
  BY <1>6, ModInstallOpens, ModInstallEnds, ModInstallMismatches, ModAwaitFails
<1>7. QED
  BY <1>3, <1>4, <1>5, <1>6, ContainerStep DEF Modded!Next

-----------------------------------------------------------------------------
LEMMA InitInv == Init => IInv
<1> SUFFICES ASSUME Init PROVE IInv
  OBVIOUS
<1>1. CASE platform = "modpack" /\ Pack!Init /\ Modded!Init
  <2>1. /\ step = "resolving" /\ raised = None /\ run_sh = FALSE /\ missing = {}
        /\ mods_dir = FALSE
        /\ jars = [n \in Mods |-> None] /\ part = [n \in Mods |-> None]
        /\ task = [e \in Entries |-> Pack!Task("none")]
    BY <1>1 DEF Pack!Init
  <2>2. CreateTyped
    <3>1. \A e \in Entries : task[e] \in TaskT /\ task[e].pc = "none"
      BY <2>1, TaskFacts, TaskPcNames
    <3>2. QED
      BY <2>1, <3>1, TaskShapes DEF CreateTyped
  <2>3. Unused
    BY <1>1, <2>1 DEF Unused, Modded!Init
  <2>4. Opening
    BY <2>1 DEF Opening
  <2>5. QED
    BY <1>1, <2>1, <2>2, <2>3, <2>4 DEF IInv, ModpackInv
<1>2. CASE platform = "paper" /\ Paper!Init
  <2>1. /\ jars = [j \in Plugins |-> None] /\ disabled = [p \in Plugins |-> None]
        /\ upload = [p \in Plugins |-> None] /\ loaded = [j \in Plugins |-> None]
        /\ mapped = {} /\ loop = Paper!Free /\ req = [r \in Requests |-> Paper!Idle]
        /\ streamed = {}
    BY <1>2 DEF Paper!Init, Paper!Down
  <2>2. PaperTyped
    BY <2>1, FreeLoop, IdleReq DEF PaperTyped, JarT
  <2>3. Sound /\ Looped
    BY <2>1, FreeLoop, Tokens DEF Sound, Looped
  <2>4. Asked
    BY <2>1, IdleReq DEF Asked
  <2>5. QED
    BY <1>2, <2>2, <2>3, <2>4, PaperShapes DEF IInv, PaperInv
<1>3. QED
  BY <1>1, <1>2 DEF Init

LEMMA NextInv ==
  ASSUME IInv, [Next]_vars PROVE IInv'
<1>1. CASE UNCHANGED vars
  <2>1. /\ platform' = platform /\ step' = step /\ run_sh' = run_sh /\ missing' = missing
        /\ raised' = raised /\ mods_dir' = mods_dir /\ part' = part /\ task' = task
        /\ jars' = jars /\ disabled' = disabled /\ upload' = upload /\ loaded' = loaded
        /\ mapped' = mapped /\ loop' = loop /\ req' = req /\ streamed' = streamed
    BY <1>1 DEF vars, create, pages
  <2>2. PaperInv => PaperInv'
    BY <2>1, PaperShapes, PaperNext DEF PaperInv, PaperTyped, Sound, Asked, Held, Looped
  <2>3. ModpackInv => ModpackInv'
    <3>1. SUFFICES ASSUME ModpackInv PROVE ModpackInv'
      OBVIOUS
    <3>2. CreateTyped'
      BY <2>1, <3>1 DEF ModpackInv, CreateTyped
    <3>3. step # "done" => Unused'
      BY <2>1, <3>1 DEF ModpackInv, Unused, Modded!Down, Modded!Free, Modded!Idle
    <3>4. Opening => Opening'
      BY <2>1 DEF Opening
    <3>5. Gathering => Gathering'
      BY <2>1 DEF Gathering, Torn1, Torn2, Torn3, Trouble, Streams, Named, Own, Owns, Told, Pack!Alone
    <3>6. Done => Done'
      <4>1. ASSUME Done PROVE Done'
        <5>1. ModTyped'
          BY <2>1, <4>1, ModShapes DEF Done, ModTyped, Modded!Loops
        <5>2. Quiet' /\ Serving' /\ Whole(jars)'
          BY <2>1, <4>1 DEF Done, Quiet, Serving, Held, Whole, Pack!Alone, Modded!Free
        <5>3. (loaded = Modded!Down)' \/ Whole(loaded)'
          BY <2>1, <4>1 DEF Done, Whole, Pack!Alone, Modded!Down
        <5>4. QED
          BY <5>1, <5>2, <5>3, NextModShapes DEF Done
      <4>2. QED
        BY <4>1
    <3>7. QED
      BY <2>1, <3>1, <3>2, <3>3, <3>4, <3>5, <3>6 DEF ModpackInv
  <2>4. QED
    BY <2>1, <2>2, <2>3 DEF IInv
<1>2. CASE Creates
  BY <1>2, CreateStep DEF Creates, IInv
<1>3. CASE PaperPages
  BY <1>3, PaperStep DEF PaperPages, IInv
<1>4. CASE ModpackPages
  BY <1>4, PagesStep DEF ModpackPages, IInv
<1>5. QED
  BY <1>1, <1>2, <1>3, <1>4 DEF Next

THEOREM Invariance == Spec => []IInv
<1>1. IInv /\ [Next]_vars => IInv'
  BY NextInv
<1>2. QED
  BY InitInv, <1>1, PTL DEF Spec

LEMMA PackTyped ==
  CreateTyped /\ Unused => Pack!TypeOK
BY DEF CreateTyped, Unused, Pack!TypeOK

(* Every variable keeps its type, on either platform. *)
THEOREM TypeCorrect == Spec => []TypeOK
<1>1. IInv => TypeOK
  <2>1. PaperInv => Paper!TypeOK
    BY DEF PaperInv
  <2>2. ModpackInv => (step # "done" => Pack!TypeOK) /\ Modded!TypeOK
    BY PackTyped, UnusedTyped DEF ModpackInv, Done
  <2>3. QED
    BY <2>1, <2>2 DEF IInv, TypeOK
<1>2. QED
  BY <1>1, Invariance, PTL

(* save_upload, replace_plugin and download_all_mods never let half a jar  *)
(* be loaded: a JVM that has one has it from a marketplace install, or the *)
(* pack's install has listed an entry as missing.                          *)
THEOREM HalvesStayOut == Spec => []HalvesAreStreamed
<1>1. IInv => HalvesAreStreamed
  <2>1. ASSUME PaperInv PROVE Paper!HalvesAreStreamed
    BY <2>1 DEF PaperInv, Sound, Paper!HalvesAreStreamed
  <2>2. ASSUME ModpackInv, missing = {} PROVE Modded!HalvesAreStreamed
    <3>1. CASE loaded = Modded!Down
      BY <3>1, Tokens DEF Modded!Down, Modded!HalvesAreStreamed
    <3>2. CASE Whole(loaded)
      BY <2>2, <3>2 DEF Whole, Modded!HalvesAreStreamed
    <3>3. QED
      BY <2>2, <3>1, <3>2 DEF ModpackInv, Unused, Done
  <2>3. QED
    BY <2>1, <2>2 DEF IInv, HalvesAreStreamed
<1>2. QED
  BY <1>1, Invariance, PTL

(* replace_plugin writes the temp file before it unlinks the old jar: at   *)
(* each of its file operations one of the two is there, whatever the other *)
(* requests and the container do.                                          *)
THEOREM UpdatesKeepOne == Spec => []UpdateKeepsOne
<1>1. IInv => UpdateKeepsOne
  <2>1. ASSUME PaperInv PROVE Paper!UpdateKeepsOne
    <3>1. loop.at \in {"free", "write", "unlink", "rename"}
      BY <2>1, PaperShapes DEF PaperInv, PaperTyped, LoopT
    <3>2. QED
      BY <2>1, <3>1 DEF PaperInv, Looped, Paper!UpdateKeepsOne
  <2>2. QED
    BY <2>1 DEF IInv, UpdateKeepsOne
<1>2. QED
  BY <1>1, Invariance, PTL

(* create of a modpack, for any number of entries downloaded in parallel   *)
(* under any file names: a server that boots has the whole jar of each     *)
(* entry that the list of missing mods does not name, unless a name is     *)
(* shared or the marketplace has written over it.                          *)
THEOREM BootsAreComplete == Spec => []BootsWithThePack
<1>1. IInv => BootsWithThePack
  <2> SUFFICES ASSUME ModpackInv, loaded # Modded!Down, NEW e \in Entries,
                      task[e].name # None, e \notin missing, task[e].name \notin streamed,
                      Pack!Alone(e)
               PROVE  loaded[task[e].name] = e
    BY DEF IInv, BootsWithThePack
  <2>1. Done
    BY DEF ModpackInv, Unused
  <2>2. task[e].pc = "fetched"
    BY <2>1 DEF Done, Quiet
  <2>3. QED
    BY <2>1, <2>2 DEF Done, Whole
<1>2. QED
  BY <1>1, Invariance, PTL
=============================================================================
