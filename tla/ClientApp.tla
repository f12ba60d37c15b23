----------------------------- MODULE ClientApp -----------------------------
(***************************************************************************)
(* The windows of the player's client: app.py with its worker threads,     *)
(* deeplink.py (who gets a ndrchst:// link, and the pinned server's        *)
(* config), settings.py, and launcher.py with the cloudflared sidecars of  *)
(* tunnel.py.  Windows are processes of one account: they share the pin    *)
(* file, the instance file and the ports of localhost.                     *)
(* The build is a generic one; servers are modded and reached through a    *)
(* tunnel.  What a launch reads of cfg it reads in one step; servers.dat   *)
(* and the crash reports are left out.                                     *)
(***************************************************************************)
EXTENDS Naturals, FiniteSets

CONSTANTS
  Windows,    \* client processes
  Workers,    \* bound: link, discovery and launch threads at once
  Duties,     \* bound: which kinds of threads one behaviour has
  Servers,    \* what config.json pins
  Ports,      \* bound: ports of localhost
  Preferred,  \* 25565
  Attempts,   \* of Tunnel.start
  Empty,      \* client-config.json once it is opened for writing
  Torn,       \* ... and once it has the bytes of two writers
  Discover,   \* what a window without a link is asked to do
  None

ASSUME AppAssumption ==
  /\ Duties \subseteq SUBSET {"pin", "launch"}
  /\ Preferred \in Ports /\ Attempts \in Nat \ {0}
  /\ {Empty, Torn, Discover, None} \cap Servers = {}
  /\ Empty \notin {Torn, Discover, None} /\ Torn \notin {Discover, None} /\ Discover # None
  /\ None \notin Ports \cup Workers \cup Windows

VARIABLES
  duty,     \* the one of Duties that this behaviour has
  pin,      \* ~/.ndrchst-client/client-config.json
  primary,  \* the window that instance.json names, if it is there to answer
  win,      \* each window: [pc, asked, cfg, play, upd]
  job,      \* each worker thread: [pc, win, server, port, attempt, alone]
  side,     \* cloudflared processes: [job, port, server, bound]
  touched   \* history: the window that last opened or wrote the pin file, if it
            \* lives and no write of the file has failed since

shared == <<duty, pin, primary, touched>>
vars   == <<shared, win, job, side>>

Off  == [pc |-> "off", asked |-> None, cfg |-> None, play |-> FALSE, upd |-> "unchecked"]
Free == [pc |-> "free", win |-> None, server |-> None, port |-> None,
         attempt |-> 0, alone |-> FALSE]

Init ==
  /\ duty \in Duties
  /\ pin \in {None} \cup Servers /\ primary = None
  /\ win = [w \in Windows |-> Off]
  /\ job = [t \in Workers |-> Free]
  /\ side = {} /\ touched = None

-----------------------------------------------------------------------------
(* Starting a window: with a link, or without one *)

(* Mutant: whatever the file holds is taken. *)
Load_BUG == pin

(* settings.load: a file that does not parse is skipped.                    *)
Load == IF pin \in Servers THEN pin ELSE None

(* What a window is asked to do when it is started. *)
Asks == IF "pin" \in duty THEN Servers \cup {Discover} ELSE {None}

Open(w) ==
  /\ win[w].pc = "off"
  /\ \E a \in Asks :
       win' = [win EXCEPT ![w] = [Off EXCEPT !.pc = "starting", !.asked = a]]
  /\ UNCHANGED <<shared, job, side>>

(* try_forward: the link goes to the primary window, and this one exits. *)
Forwards(w) ==
  /\ win[w].pc = "starting" /\ win[w].asked \in Servers
  /\ primary # None /\ win[primary].asked = None
  /\ win' = [win EXCEPT ![w] = Off, ![primary].asked = win[w].asked]
  /\ UNCHANGED <<shared, job, side>>

Loads(w) ==
  /\ win[w].pc = "starting"
  /\ win[w].asked \notin Servers \/ primary = None
  /\ win' = [win EXCEPT ![w].pc = "loaded", ![w].cfg = Load]
  /\ UNCHANGED <<shared, job, side>>

(* start_listener, with what run does beside it. *)
Listens(w) ==
  /\ win[w].pc = "loaded"
  /\ primary' = w
  /\ win' = [win EXCEPT ![w].pc = "up", ![w].play = TRUE]
  /\ UNCHANGED <<duty, pin, touched, job, side>>

-----------------------------------------------------------------------------
(* Pinning a server *)

Starts(t, w, pc, server) ==
  /\ job[t] = Free
  /\ job' = [job EXCEPT ![t] = [Free EXCEPT !.pc = pc, !.win = w, !.server = server]]

(* apply_deeplink *)
FollowsLink(w, t) ==
  /\ "pin" \in duty /\ win[w].pc = "up" /\ win[w].asked \in Servers
  /\ Starts(t, w, "fetching", win[w].asked)
  /\ win' = [win EXCEPT ![w].asked = None]
  /\ UNCHANGED <<shared, side>>

(* _try_discover_server: it is pinned, or the catalog offers none, or some. *)
Discovers(w, t) ==
  /\ "pin" \in duty /\ win[w].pc = "up" /\ win[w].asked = Discover
  /\ win' = [win EXCEPT ![w].asked = None]
  /\ \/ job' = job
     \/ win[w].cfg = None /\ \E s \in Servers : Starts(t, w, "fetching", s)
  /\ UNCHANGED <<shared, side>>

Goes(t, pc) == job' = [job EXCEPT ![t].pc = pc]
Past(t, pc) == job' = [job EXCEPT ![t] = [Free EXCEPT !.pc = pc, !.win = job[t].win]]
Ends(t)     == job' = [job EXCEPT ![t] = Free]

(* The request, the parsing, makedirs or the open raises: logged only.      *)
FetchFails(t) ==
  /\ job[t].pc = "fetching" /\ Ends(t)
  /\ UNCHANGED <<shared, win, side>>

(* open(dest, "wb") *)
Opens(t) ==
  /\ job[t].pc = "fetching" /\ Goes(t, "opened")
  /\ pin' = Empty /\ touched' = job[t].win
  /\ UNCHANGED <<duty, primary, win, side>>

(* Mutant: the window is not told to read the new config. *)
Writes_BUG(t) ==
  /\ job[t].pc = "opened" /\ Ends(t)
  /\ pin' = job[t].server /\ touched' = job[t].win
  /\ UNCHANGED <<duty, primary, win, side>>

(* The bytes go to the start of the file: of a longer config that another  *)
(* thread wrote since the opening, the end remains.                        *)
Writes(t) ==
  /\ job[t].pc = "opened" /\ Past(t, "written")
  /\ pin' \in IF pin \in {Empty, job[t].server} THEN {job[t].server} ELSE {job[t].server, Torn}
  /\ touched' = job[t].win
  /\ UNCHANGED <<duty, primary, win, side>>

(* A write or the close raises, of a full disk for one: it is logged, and   *)
(* the window is not told.  What the file holds by then is nothing, a part *)
(* of the config, the whole of it, or what another thread has put there.   *)
WriteFails(t) ==
  /\ job[t].pc = "opened" /\ Ends(t)
  /\ pin' \in {pin, job[t].server, Torn}
  /\ touched' = None
  /\ UNCHANGED <<duty, primary, win, side>>

(* reload_config, on the main thread. *)
Reloads(t) ==
  /\ job[t].pc = "written" /\ Ends(t)
  /\ win' = [win EXCEPT ![job[t].win].cfg = Load]
  /\ UNCHANGED <<shared, side>>

-----------------------------------------------------------------------------
(* Playing *)

Launching == {"signing", "spawning", "waiting", "installing", "playing", "ended"}

(* Mutant: Play stays enabled while a Microsoft sign-in is awaited. *)
Play_BUG(w, t) ==
  /\ "launch" \in duty /\ win[w].pc = "up" /\ win[w].play
  /\ Starts(t, w, "signing", None)
  /\ UNCHANGED <<shared, win, side>>

Play(w, t) ==
  /\ "launch" \in duty /\ win[w].pc = "up" /\ win[w].play
  /\ Starts(t, w, "signing", None)
  /\ win' = [win EXCEPT ![w].play = FALSE]
  /\ UNCHANGED <<shared, side>>

(* OnlineAuthError enables Play again; any other exception only ends the    *)
(* thread.                                                                 *)
SignInFails(t) ==
  /\ job[t].pc = "signing"
  /\ Past(t, "ended") \/ Ends(t)
  /\ UNCHANGED <<shared, win, side>>

(* Launches that are being prepared, and sidecars that are not up yet.      *)
Going    == {t \in Workers : job[t].pc \in {"spawning", "waiting", "installing"}}
ComingUp == {s \in side : ~ s.bound}

(* launch is called with the window's cfg; without a server there is no     *)
(* modpack and no tunnel.                                                  *)
LaunchReads(t) ==
  LET s == win[job[t].win].cfg IN
  /\ job[t].pc = "signing"
  /\ job' = [u \in Workers |->
       IF u = t THEN [job[t] EXCEPT !.pc = IF s = None THEN "installing" ELSE "spawning",
                                    !.server = s, !.alone = ComingUp = {} /\ Going = {}]
       ELSE [job[u] EXCEPT !.alone = @ /\ u \notin Going]]
  /\ UNCHANGED <<shared, win, side>>

(* install_client_pack or ensure_cloudflared raises. *)
PrepareFails(t) ==
  /\ job[t].pc = "spawning" /\ job[t].attempt = 0
  /\ Past(t, "ended")
  /\ UNCHANGED <<shared, win, side>>

Listeners(p) == {s \in side : s.bound /\ s.port = p}

(* Mutant: the preferred port is taken for free. *)
_pick_free_port_BUG == {Preferred}

_pick_free_port ==
  IF Listeners(Preferred) = {} THEN {Preferred}
  ELSE {p \in Ports \ {Preferred} : Listeners(p) = {}}

(* _spawn_once, after the pack is synchronised and cloudflared is there. *)
Spawns(t) ==
  /\ job[t].pc = "spawning"
  /\ \E p \in _pick_free_port :
       /\ job' = [job EXCEPT ![t].pc = "waiting", ![t].port = p, ![t].attempt = @ + 1]
       /\ side' = side \cup {[job |-> t, port |-> p, server |-> job[t].server, bound |-> FALSE]}
  /\ UNCHANGED <<shared, win>>

(* cloudflared *)
Binds(s) ==
  /\ ~ s.bound /\ Listeners(s.port) = {}
  /\ side' = (side \ {s}) \cup {[s EXCEPT !.bound = TRUE]}
  /\ UNCHANGED <<shared, win, job>>

ExitsEarly(s) ==
  /\ ~ s.bound
  /\ side' = side \ {s}
  /\ UNCHANGED <<shared, win, job>>

Own(t)  == {s \in side : s.job = t}
Stop(t) == side' = side \ Own(t)

(* Something accepts on the port; the sidecar was alive when last polled. *)
Connects(t) ==
  /\ job[t].pc = "waiting" /\ Listeners(job[t].port) # {}
  /\ Goes(t, "installing")
  /\ UNCHANGED <<shared, win, side>>

(* It exited, or its time is up: stop, and a new attempt or none. *)
AttemptFails(t) ==
  /\ job[t].pc = "waiting"
  /\ Own(t) = {} \/ Listeners(job[t].port) = {}
  /\ Stop(t)
  /\ \/ job[t].attempt < Attempts /\ Goes(t, "spawning")
     \/ job[t].attempt = Attempts /\ Past(t, "ended")
  /\ UNCHANGED <<shared, win>>

GameStarts(t) ==
  /\ job[t].pc = "installing" /\ Past(t, "playing")
  /\ UNCHANGED <<shared, win, side>>

Stray(gone) ==
  side' = {IF s.job \in gone THEN [s EXCEPT !.job = None] ELSE s : s \in side}

(* version.install raises outside the try that stops the tunnel. *)
InstallFails(t) ==
  /\ job[t].pc = "installing" /\ Past(t, "ended")
  /\ Stray({t})
  /\ UNCHANGED <<shared, win>>

GameExits(t) ==
  /\ job[t].pc = "playing" /\ Past(t, "ended")
  /\ Stop(t)
  /\ UNCHANGED <<shared, win>>

(* set_controls(True), on the main thread. *)
PlayReturns(t) ==
  /\ job[t].pc = "ended" /\ Ends(t)
  /\ win' = [win EXCEPT ![job[t].win].play = TRUE]
  /\ UNCHANGED <<shared, side>>

-----------------------------------------------------------------------------
(* Updating, and going away *)

(* do_update: by itself when the check finds one, or clicked after that. *)
UpdateBegins(w) ==
  /\ win[w].pc = "up" /\ win[w].upd # "busy"
  /\ win' = [win EXCEPT ![w].upd = "busy", ![w].play = FALSE]
  /\ UNCHANGED <<shared, job, side>>

UpdateFails(w) ==
  /\ win[w].upd = "busy"
  /\ win' = [win EXCEPT ![w].upd = "failed", ![w].play = TRUE]
  /\ UNCHANGED <<shared, job, side>>

(* The window's threads are gone with it; what they spawned is not. *)
Dies(w) ==
  LET gone == {t \in Workers : job[t].win = w} IN
  /\ job' = [t \in Workers |-> IF t \in gone THEN Free ELSE job[t]]
  /\ Stray(gone)
  /\ primary' = IF primary = w THEN None ELSE primary
  /\ touched' = IF touched = w THEN None ELSE touched
  /\ UNCHANGED <<duty, pin>>

(* execv: the window starts over, with the link it was started with; which  *)
(* one that was is not kept here.                                          *)
Reexecs(w) ==
  /\ win[w].upd = "busy" /\ Dies(w)
  /\ \E a \in Asks :
       win' = [win EXCEPT ![w] = [Off EXCEPT !.pc = "starting", !.asked = a]]

Closes(w) ==
  /\ win[w].pc # "off" /\ Dies(w)
  /\ win' = [win EXCEPT ![w] = Off]

Next ==
  \/ \E w \in Windows :
       \/ Open(w) \/ Forwards(w) \/ Loads(w) \/ Listens(w)
       \/ UpdateBegins(w) \/ UpdateFails(w) \/ Reexecs(w) \/ Closes(w)
       \/ \E t \in Workers : FollowsLink(w, t) \/ Discovers(w, t) \/ Play(w, t)
  \/ \E t \in Workers :
       \/ FetchFails(t) \/ Opens(t) \/ Writes(t) \/ WriteFails(t) \/ Reloads(t)
       \/ SignInFails(t) \/ LaunchReads(t) \/ PrepareFails(t)
       \/ Spawns(t) \/ Connects(t) \/ AttemptFails(t)
       \/ GameStarts(t) \/ InstallFails(t) \/ GameExits(t) \/ PlayReturns(t)
  \/ \E s \in side : Binds(s) \/ ExitsEarly(s)

Spec == Init /\ [][Next]_vars

-----------------------------------------------------------------------------
(* Properties *)

(* The types that the comments at the variables say. *)
TypeOK ==
  /\ duty \in Duties
  /\ pin \in Servers \cup {None, Empty, Torn}
  /\ primary \in Windows \cup {None} /\ touched \in Windows \cup {None}
  /\ win \in [Windows -> [pc : {"off", "starting", "loaded", "up"},
                          asked : Servers \cup {Discover, None},
                          cfg : Servers \cup {None}, play : BOOLEAN, upd : {"unchecked", "busy", "failed"}]]
  /\ job \in [Workers -> [pc : {"free", "fetching", "opened", "written"} \cup Launching,
                          win : Windows \cup {None}, server : Servers \cup {None},
                          port : Ports \cup {None}, attempt : 0..Attempts, alone : BOOLEAN]]
  /\ side \subseteq [job : Workers \cup {None}, port : Ports, server : Servers, bound : BOOLEAN]

(* Play, "Running…" and "Updating…" are one button that four callbacks set: *)
(* until a window has begun an update, Play is enabled only while nothing  *)
(* is being launched in it, and it never launches twice at once.           *)
OnePlay ==
  \A w \in Windows :
    LET mine == {t \in Workers : job[t].win = w /\ job[t].pc \in Launching} IN
    win[w].upd = "unchecked" =>
      Cardinality(mine) <= 1 /\ (win[w].play => mine = {})

(* "refresh the header to match": when nobody is writing the pin or about   *)
(* to read it, the window that wrote it last shows, and will launch, what   *)
(* the next start of the client will, whoever else was writing meanwhile.   *)
(* Not so once a write of the file has failed, until the next one: the file *)
(* may be cut short by then, and no window is told.                         *)
HeaderMatchesPin ==
  (\A t \in Workers : job[t].pc \notin {"opened", "written"}) =>
    \A w \in Windows :
      touched = w /\ win[w].pc \in {"loaded", "up"} => win[w].cfg = Load

(* A launch that begins when no sidecar is still coming up, and beside      *)
(* which no other is being prepared, dials its own sidecar: whatever       *)
(* sidecars failed launches and killed windows have left, for whichever    *)
(* servers, the game is sent to the one it was launched for.               *)
LaunchReachesItsServer ==
  \A t \in Workers :
    job[t].pc = "installing" /\ job[t].alone /\ job[t].server # None =>
      Listeners(job[t].port) =
        {[job |-> t, port |-> job[t].port, server |-> job[t].server, bound |-> TRUE]}
=============================================================================
