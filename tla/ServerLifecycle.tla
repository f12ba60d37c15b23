-------------------------- MODULE ServerLifecycle --------------------------
(***************************************************************************)
(* The server manager: runtime/lifecycle.py with the docker calls it makes *)
(* (runtime/docker.py) and the table it keeps (store/servers.py).          *)
(*                                                                         *)
(* One asyncio loop runs every request.  A request gives up the loop at an *)
(* await only, so an action is the code between two awaits.  A docker call *)
(* runs in a worker thread: the daemon's effect (Docker...) and the        *)
(* continuation that reads its result are separate actions wherever the    *)
(* continuation writes the table or the disk, because another request may  *)
(* run in between.  Requests share no lock.                                *)
(***************************************************************************)
EXTENDS FiniteSets

CONSTANTS
  Servers,       \* ids that _new_server_id can return: a fresh uuid each time
  Requests,      \* request slots: as many HTTP requests as may be in flight
  Ids,           \* container ids that docker can return
  Configs,       \* memory, JVM flags and env, as one recreate-time value
  Ports,         \* host port numbers
  RconPorts,     \* RCON_PORT_RANGE
  CreateInputs,  \* what create may be asked: [family, port, bridge]
  MayCrash,      \* whether the manager's process may die
  None           \* no row, no container, no port, no value

Families == {"java", "bedrock"}

PortsOfServer == [family : Families, port : Ports, bridge : Ports \cup {None},
                  rcon : RconPorts \cup {None}]

(* ServerStatus; "crashed" is never stored. *)
Statuses == {"created", "starting", "running", "stopping", "stopped"}

Row == [status : Statuses, cid : Ids, config : Configs, ports : PortsOfServer]

Container == [server : Servers, up : BOOLEAN, config : Configs, ports : PortsOfServer]

ASSUME ConstantsAssumption ==
  /\ CreateInputs \subseteq [family : Families, port : Ports, bridge : Ports \cup {None}]
  /\ RconPorts \subseteq Ports
  /\ MayCrash \in BOOLEAN
  /\ None \notin Servers \cup Ids \cup Configs \cup Ports \cup Row \cup Container
                   \cup PortsOfServer

VARIABLES
  row,         \* the servers table
  containers,  \* what the docker daemon holds
  data_dirs,   \* servers with a directory under SERVERS_ROOT
  bundles,     \* servers with a client bundle under CLIENTS_ROOT
  req,         \* the handler each request slot runs, and its locals
  used,        \* server ids handed out so far
  overlap,     \* history: pairs of servers whose creates were in flight together
  doomed,      \* history: servers a delete with remove_files was asked for
  company,     \* history: whether the request begun last has had another beside
               \* it ("now"), or only earlier ones have ("before"), or none ("never")
  lost         \* history: servers whose last create_container raised although
               \* docker had made the container

history == <<used, overlap, doomed, company, lost>>
vars == <<row, containers, data_dirs, bundles, req, history>>

-----------------------------------------------------------------------------
(* A request's locals: the Server object it read (server, cid, config,     *)
(* ports) and, for delete, remove_files.                                   *)
Pcs == {"idle", "installing", "bridging", "replacing", "building", "built",
        "halting", "removing", "removed", "starting", "started", "stopping",
        "stopped", "restarting"}

Ops == {"none", "create", "rebuild", "start", "stop", "restart", "delete"}

Idle == [pc |-> "idle", op |-> "none", server |-> None, cid |-> None,
         config |-> None, ports |-> None, files |-> FALSE]

Request == [pc : Pcs, op : Ops, server : Servers \cup {None}, cid : Ids \cup {None},
            config : Configs \cup {None}, ports : PortsOfServer \cup {None},
            files : BOOLEAN]

Live == {s \in Servers : row[s] # None}

Exists(c) == c \in Ids /\ containers[c] # None

(* Container names are "ndrchst-<server id>": docker keeps them unique. *)
Named(s) == {c \in Ids : Exists(c) /\ containers[c].server = s}

Reserved(ports) == {ports.port, ports.bridge, ports.rcon} \ {None}

port_in_use(p) == \E s \in Live : p \in Reserved(row[s].ports)

(* The host sockets a container's docker-proxies bind. *)
Bindings(ports) ==
  (IF ports.family = "java" THEN {<<ports.port, "tcp">>, <<ports.rcon, "tcp">>,
                                  <<ports.bridge, "udp">>}
                            ELSE {<<ports.port, "udp">>})

is_port_free(p, proto) ==
  ~ \E c \in Ids : Exists(c) /\ containers[c].up
                   /\ <<p, proto>> \in Bindings(containers[c].ports)

Creating == {s \in Servers : \E r \in Requests :
                               req[r].op = "create" /\ req[r].server = s}

Goto(r, pc) == req' = [req EXCEPT ![r].pc = pc]
Finish(r)   == req' = [req EXCEPT ![r] = Idle]

AtRest == \A r \in Requests : req[r] = Idle

(* A request arrives in a free slot. *)
Arrive(r) ==
  /\ req[r] = Idle
  /\ company' = IF ~ AtRest THEN "now" ELSE IF company = "now" THEN "before" ELSE company

Init ==
  /\ row = [s \in Servers |-> None]
  /\ containers = [c \in Ids |-> None]
  /\ data_dirs = {} /\ bundles = {}
  /\ req = [r \in Requests |-> Idle]
  /\ used = {} /\ overlap = {} /\ doomed = {} /\ company = "never" /\ lost = {}

-----------------------------------------------------------------------------
(* create *)

(* Mutant: only the host is probed, so a stopped server's port looks free. *)
Validate_BUG(in) ==
  /\ is_port_free(in.port, IF in.family = "java" THEN "tcp" ELSE "udp")
  /\ in.bridge # None => in.family = "java" /\ is_port_free(in.bridge, "udp")

(* _validate, then the fresh id.  A refused request changes nothing. *)
Validate(in) ==
  /\ ~ port_in_use(in.port)
  /\ is_port_free(in.port, IF in.family = "java" THEN "tcp" ELSE "udp")
  /\ in.bridge # None =>
       /\ in.family = "java" /\ in.bridge # in.port
       /\ ~ port_in_use(in.bridge) /\ is_port_free(in.bridge, "udp")

CreateBegin(r) ==
  /\ Arrive(r)
  /\ \E s \in Servers \ used, in \in CreateInputs, m \in Configs :
       /\ Validate(in)
       /\ req' = [req EXCEPT ![r] =
                    [pc |-> "installing", op |-> "create", server |-> s, cid |-> None,
                     config |-> m, files |-> FALSE,
                     ports |-> [family |-> in.family, port |-> in.port,
                                bridge |-> in.bridge, rcon |-> None]]]
       /\ used' = used \cup {s}
       /\ overlap' = overlap \cup (Creating \X {s}) \cup ({s} \X Creating)
  /\ UNCHANGED <<row, containers, data_dirs, bundles, doomed, lost>>

(* platform.install makes the directory and fills it while it is awaited. *)
InstallWrites(r) ==
  /\ req[r].pc = "installing" /\ req[r].server \notin data_dirs
  /\ data_dirs' = data_dirs \cup {req[r].server}
  /\ UNCHANGED <<row, containers, bundles, req, history>>

(* The synchronous part between the installs and create_container: a Java  *)
(* server gets an RCON port that no row holds and the host has free.       *)
PickRcon(r) ==
  LET free == {p \in RconPorts : ~ port_in_use(p) /\ is_port_free(p, "tcp")}
  IN  \/ /\ req[r].ports.family = "bedrock"
         /\ Goto(r, "replacing")
      \/ /\ req[r].ports.family = "java"
         /\ \E p \in free :
              req' = [req EXCEPT ![r].pc = "replacing", ![r].ports.rcon = p]
      \/ /\ req[r].ports.family = "java" /\ free = {}
         /\ Finish(r)

InstallSucceeds(r) ==
  /\ req[r].pc = "installing" /\ req[r].server \in data_dirs
  /\ \/ req[r].ports.bridge # None /\ Goto(r, "bridging")
     \/ req[r].ports.bridge = None /\ PickRcon(r)
  /\ UNCHANGED <<row, containers, data_dirs, bundles, history>>

BridgeInstalled(r) ==
  /\ req[r].pc = "bridging"
  /\ PickRcon(r)
  /\ UNCHANGED <<row, containers, data_dirs, bundles, history>>

(* The exceptions create catches around platform.install. *)
InstallFails(r) ==
  /\ req[r].pc = "installing"
  /\ data_dirs' = data_dirs \ {req[r].server}
  /\ Finish(r)
  /\ UNCHANGED <<row, containers, bundles, history>>

(* The ones it does not catch (a transport error), and any failure of the  *)
(* cross-play install: the directory stays.                                *)
InstallAborts(r) ==
  /\ req[r].pc \in {"installing", "bridging"}
  /\ Finish(r)
  /\ UNCHANGED <<row, containers, data_dirs, bundles, history>>

(* A bundle is of a Java server; what the zip holds is not told apart. *)
build_bundle(s, family) == family = "java" /\ bundles' = bundles \cup {s}

(* create_container has returned: insert the row, build the bundle.  A     *)
(* ClientBuildError is logged and swallowed.                               *)
Insert(r) ==
  LET s == req[r].server
  IN  /\ req[r].pc = "built" /\ req[r].op = "create"
      /\ row' = [row EXCEPT ![s] = [status |-> "created", cid |-> req[r].cid,
                                    config |-> req[r].config, ports |-> req[r].ports]]
      /\ \/ bundles' = bundles
         \/ build_bundle(s, req[r].ports.family)
      /\ Finish(r)
      /\ UNCHANGED <<containers, data_dirs, history>>

-----------------------------------------------------------------------------
(* Docker.create_container, for create and for a rebuild. *)

DockerReplaces(r) ==
  /\ req[r].pc = "replacing"
  /\ containers' = [c \in Ids |-> IF c \in Named(req[r].server) THEN None
                                  ELSE containers[c]]
  /\ Goto(r, "building")
  /\ lost' = lost \ {req[r].server}
  /\ UNCHANGED <<row, data_dirs, bundles, used, overlap, doomed, company>>

(* A docker id never comes back: c is one nothing refers to. *)
Fresh(c) ==
  /\ ~ Exists(c)
  /\ \A s \in Live : row[s].cid # c
  /\ \A r \in Requests : req[r].cid # c

(* The daemon makes the container c, unless the name is taken by now.       *)
Makes(r, c) ==
  /\ req[r].pc = "building" /\ Named(req[r].server) = {} /\ Fresh(c)
  /\ containers' = [containers EXCEPT ![c] =
                      [server |-> req[r].server, up |-> FALSE,
                       config |-> req[r].config, ports |-> req[r].ports]]

DockerCreates(r) ==
  /\ \E c \in Ids :
       /\ Makes(r, c)
       /\ req' = [req EXCEPT ![r].pc = "built", ![r].cid = c]
  /\ UNCHANGED <<row, data_dirs, bundles, history>>

(* Mutant: the cleanup create lacks here, put where a rebuild fails too. *)
DockerFails_BUG(r) ==
  /\ req[r].pc \in {"replacing", "building"}
  /\ data_dirs' = data_dirs \ {req[r].server}
  /\ Finish(r)
  /\ UNCHANGED <<row, containers, bundles, history>>

(* Any docker call may raise, and the daemon has done nothing: the handler  *)
(* ends there, with no more writes.                                        *)
DockerFails(r) ==
  /\ req[r].pc \in {"replacing", "building", "removing", "starting", "stopping",
                    "restarting"}
  /\ Finish(r)
  /\ UNCHANGED <<row, containers, data_dirs, bundles, history>>

(* ... or it raises although the daemon has made the container: the reply   *)
(* is late or lost, or the inspect that follows it fails.                  *)
CreateFailsLate(r) ==
  /\ \E c \in Ids : Makes(r, c)
  /\ lost' = lost \cup {req[r].server}
  /\ Finish(r)
  /\ UNCHANGED <<row, data_dirs, bundles, used, overlap, doomed, company>>

-----------------------------------------------------------------------------
(* update_config and recreate_container *)

(* The handler's Server object is read before its first await. *)
Read(r, s, op, pc, m) ==
  req' = [req EXCEPT ![r] = [pc |-> pc, op |-> op, server |-> s, cid |-> row[s].cid,
                             config |-> m, ports |-> row[s].ports, files |-> FALSE]]

(* What is left of a rebuild when its old container is there, or is gone. *)
RebuildFrom(c, pc) == IF Exists(c) THEN pc ELSE "replacing"

(* Mutant: the container is built from the values read before the update. *)
ConfigBegin_BUG(r) ==
  /\ Arrive(r)
  /\ \E s \in Live, m \in Configs :
       /\ m # row[s].config
       /\ row' = [row EXCEPT ![s].config = m]
       /\ Read(r, s, "rebuild", RebuildFrom(row[s].cid, "halting"), row[s].config)
  /\ UNCHANGED <<containers, data_dirs, bundles, used, overlap, doomed, lost>>

ConfigBegin(r) ==
  /\ Arrive(r)
  /\ \E s \in Live, m \in Configs :
       /\ m # row[s].config
       /\ row' = [row EXCEPT ![s].config = m]
       /\ Read(r, s, "rebuild", RebuildFrom(row[s].cid, "halting"), m)
  /\ UNCHANGED <<containers, data_dirs, bundles, used, overlap, doomed, lost>>

RecreateBegin(r) ==
  /\ Arrive(r)
  /\ \E s \in Live :
       Read(r, s, "rebuild", RebuildFrom(row[s].cid, "halting"), row[s].config)
  /\ UNCHANGED <<row, containers, data_dirs, bundles, used, overlap, doomed, lost>>

(* The stop's exceptions are suppressed: the container may still be up. *)
RebuildHalted(r) ==
  LET c == req[r].cid
  IN  /\ req[r].pc = "halting"
      /\ \/ Exists(c) /\ containers' = [containers EXCEPT ![c].up = FALSE]
         \/ UNCHANGED containers
      /\ Goto(r, RebuildFrom(c, "removing"))
      /\ UNCHANGED <<row, data_dirs, bundles, history>>

(* remove(force=True); a container that is already gone is no error.  A    *)
(* delete's continuation is an action of its own (DeleteFinish).           *)
DockerRemoves(r) ==
  /\ req[r].pc = "removing"
  /\ containers' = [containers EXCEPT ![req[r].cid] = None]
  /\ Goto(r, IF req[r].op = "delete" THEN "removed" ELSE "replacing")
  /\ UNCHANGED <<row, data_dirs, bundles, history>>

(* It raises although the container is gone: a delete ends with its row.    *)
RemoveFailsLate(r) ==
  /\ req[r].pc = "removing"
  /\ containers' = [containers EXCEPT ![req[r].cid] = None]
  /\ Finish(r)
  /\ UNCHANGED <<row, data_dirs, bundles, history>>

(* Mutants: the id is not stored; the row is upserted; WHERE is forgotten. *)
Rebuilt_NoId(r) ==
  LET s == req[r].server
  IN  /\ req[r].pc = "built" /\ req[r].op = "rebuild"
      /\ row' = IF s \in Live
                THEN [row EXCEPT ![s].cid = None, ![s].status = "stopped"]
                ELSE row
      /\ Finish(r)
      /\ UNCHANGED <<containers, data_dirs, bundles, history>>

Rebuilt_Upsert(r) ==
  /\ req[r].pc = "built" /\ req[r].op = "rebuild"
  /\ row' = [row EXCEPT ![req[r].server] =
               [status |-> "stopped", cid |-> req[r].cid,
                config |-> req[r].config, ports |-> req[r].ports]]
  /\ Finish(r)
  /\ UNCHANGED <<containers, data_dirs, bundles, history>>

Rebuilt_Everywhere(r) ==
  /\ req[r].pc = "built" /\ req[r].op = "rebuild"
  /\ row' = [s \in Servers |-> IF s \in Live THEN [row[s] EXCEPT !.cid = req[r].cid]
                               ELSE None]
  /\ Finish(r)
  /\ UNCHANGED <<containers, data_dirs, bundles, history>>

(* set_container_id and update_status: UPDATEs of a row that may be gone. *)
Rebuilt(r) ==
  LET s == req[r].server
  IN  /\ req[r].pc = "built" /\ req[r].op = "rebuild"
      /\ row' = IF s \in Live
                THEN [row EXCEPT ![s].cid = req[r].cid, ![s].status = "stopped"]
                ELSE row
      /\ Finish(r)
      /\ UNCHANGED <<containers, data_dirs, bundles, history>>

-----------------------------------------------------------------------------
(* start, stop, restart *)

(* The status is written, then docker is asked for the container: when it  *)
(* is gone the handler raises and the status stays.                        *)
PowerBegin(r, op, status, pc) ==
  /\ Arrive(r)
  /\ \E s \in Live :
       /\ row' = [row EXCEPT ![s].status = status]
       /\ \/ Exists(row[s].cid) /\ Read(r, s, op, pc, row[s].config)
          \/ ~ Exists(row[s].cid) /\ UNCHANGED req
  /\ UNCHANGED <<containers, data_dirs, bundles, used, overlap, doomed, lost>>

StartBegin(r) == PowerBegin(r, "start", "starting", "starting")
StopBegin(r)  == PowerBegin(r, "stop", "stopping", "stopping")

(* restart reads the row and never writes it. *)
RestartBegin(r) ==
  /\ Arrive(r)
  /\ \E s \in Live : Exists(row[s].cid)
                     /\ Read(r, s, "restart", "restarting", row[s].config)
  /\ UNCHANGED <<row, containers, data_dirs, bundles, used, overlap, doomed, lost>>

(* docker starts a container when its host ports can all be bound. *)
CanBind(c) ==
  LET mine == containers[c].ports
  IN  /\ mine.family = "java" => mine.rcon # mine.port
      /\ \A d \in Ids \ {c} :
           Exists(d) /\ containers[d].up =>
             \A b \in Bindings(mine) : b[1] # None => b \notin Bindings(containers[d].ports)

Power(r, from, on, to) ==
  /\ req[r].pc = from /\ Exists(req[r].cid)
  /\ on => CanBind(req[r].cid)
  /\ containers' = [containers EXCEPT ![req[r].cid].up = on]
  /\ to
  /\ UNCHANGED <<row, data_dirs, bundles, history>>

DockerStarts(r)   == Power(r, "starting", TRUE, Goto(r, "started"))
DockerStops(r)    == Power(r, "stopping", FALSE, Goto(r, "stopped"))
DockerRestarts(r) == Power(r, "restarting", TRUE, Finish(r))

(* A restart whose second half fails leaves the container down; a start or  *)
(* a stop may raise although docker has done it.                           *)
DockerHalfRestarts(r) == Power(r, "restarting", FALSE, Finish(r))
StartFailsLate(r)     == Power(r, "starting", TRUE, Finish(r))
StopFailsLate(r)      == Power(r, "stopping", FALSE, Finish(r))

PowerDone(r) ==
  LET s == req[r].server
  IN  /\ req[r].pc \in {"started", "stopped"}
      /\ row' = IF s \in Live
                THEN [row EXCEPT ![s].status =
                        IF req[r].pc = "started" THEN "running" ELSE "stopped"]
                ELSE row
      /\ Finish(r)
      /\ UNCHANGED <<containers, data_dirs, bundles, history>>

-----------------------------------------------------------------------------
(* delete, the client bundle *)

(* The tail of delete: files, then the bundle, then the row. *)
Erase(s, files) ==
  /\ data_dirs' = IF files THEN data_dirs \ {s} ELSE data_dirs
  /\ bundles' = bundles \ {s}
  /\ row' = [row EXCEPT ![s] = None]

(* Mutant: the row is dropped without removing the container. *)
DeleteBegin_BUG(r) ==
  /\ Arrive(r)
  /\ \E s \in Live, files \in BOOLEAN :
       /\ doomed' = IF files THEN doomed \cup {s} ELSE doomed
       /\ Erase(s, files)
  /\ UNCHANGED <<containers, req, used, overlap, lost>>

DeleteBegin(r) ==
  /\ Arrive(r)
  /\ \E s \in Live, files \in BOOLEAN :
       /\ doomed' = IF files THEN doomed \cup {s} ELSE doomed
       /\ \/ /\ Exists(row[s].cid)
             /\ req' = [req EXCEPT ![r] =
                          [pc |-> "removing", op |-> "delete", server |-> s,
                           cid |-> row[s].cid, config |-> row[s].config,
                           ports |-> row[s].ports, files |-> files]]
             /\ UNCHANGED <<row, data_dirs, bundles>>
          \/ /\ ~ Exists(row[s].cid)
             /\ Erase(s, files)
             /\ UNCHANGED req
  /\ UNCHANGED <<containers, used, overlap, lost>>

DeleteFinish(r) ==
  /\ req[r].pc = "removed"
  /\ Erase(req[r].server, req[r].files)
  /\ Finish(r)
  /\ UNCHANGED <<containers, history>>

(* regenerate_client reads the row and writes the bundle without an await. *)
RegenerateClient ==
  /\ \E s \in Live : build_bundle(s, row[s].ports.family)
  /\ UNCHANGED <<row, containers, data_dirs, req, history>>

-----------------------------------------------------------------------------
(* The process dies: every handler with it, possibly between two writes of *)
(* one synchronous stretch.  Nothing is repaired at the next boot.         *)

(* Who was in the tail of a delete, and had erased a part of the server. *)
ErasedInPart(s, files) ==
  /\ \/ \E r \in Requests : req[r].pc = "removed" /\ req[r].server = s
                            /\ req[r].files = files
     \/ s \in Live /\ ~ Exists(row[s].cid)
  /\ doomed' = IF files THEN doomed \cup {s} ELSE doomed
  /\ data_dirs' = IF files THEN data_dirs \ {s} ELSE data_dirs
  /\ bundles' \in {bundles, bundles \ {s}}
  /\ UNCHANGED row

(* A rebuild that had stored the new id but not yet the status. *)
RebuiltInPart(r) ==
  /\ req[r].pc = "built" /\ req[r].op = "rebuild" /\ req[r].server \in Live
  /\ row' = [row EXCEPT ![req[r].server].cid = req[r].cid]
  /\ UNCHANGED <<data_dirs, bundles, doomed>>

(* A create that had stored the row but built no bundle. *)
InsertedInPart(r) ==
  /\ req[r].pc = "built" /\ req[r].op = "create"
  /\ row' = [row EXCEPT ![req[r].server] =
               [status |-> "created", cid |-> req[r].cid,
                config |-> req[r].config, ports |-> req[r].ports]]
  /\ UNCHANGED <<data_dirs, bundles, doomed>>

Crash ==
  /\ MayCrash
  /\ \/ UNCHANGED <<row, data_dirs, bundles, doomed>>
     \/ \E s \in Servers, files \in BOOLEAN : ErasedInPart(s, files)
     \/ \E r \in Requests : RebuiltInPart(r) \/ InsertedInPart(r)
  /\ req' = [r \in Requests |-> Idle]
  /\ company' = "before"
  /\ UNCHANGED <<containers, used, overlap, lost>>

-----------------------------------------------------------------------------
(* The steps of a handler that has begun. *)
Progress(r) ==
  \/ InstallWrites(r) \/ InstallSucceeds(r) \/ InstallFails(r) \/ InstallAborts(r)
  \/ BridgeInstalled(r) \/ Insert(r)
  \/ DockerReplaces(r) \/ DockerCreates(r) \/ DockerFails(r)
  \/ CreateFailsLate(r) \/ RemoveFailsLate(r) \/ StartFailsLate(r) \/ StopFailsLate(r)
  \/ RebuildHalted(r) \/ DockerRemoves(r) \/ Rebuilt(r)
  \/ DockerStarts(r) \/ DockerStops(r) \/ DockerRestarts(r) \/ DockerHalfRestarts(r)
  \/ PowerDone(r) \/ DeleteFinish(r)

Begin(r) ==
  \/ CreateBegin(r) \/ ConfigBegin(r) \/ RecreateBegin(r) \/ DeleteBegin(r)
  \/ StartBegin(r) \/ StopBegin(r) \/ RestartBegin(r)

Next ==
  \/ \E r \in Requests : Begin(r) \/ Progress(r)
  \/ RegenerateClient
  \/ Crash

Spec == Init /\ [][Next]_vars

-----------------------------------------------------------------------------
(* Properties *)

TypeOK ==
  /\ row \in [Servers -> Row \cup {None}]
  /\ containers \in [Ids -> Container \cup {None}]
  /\ data_dirs \subseteq Servers
  /\ bundles \subseteq Servers
  /\ req \in [Requests -> Request]
  /\ used \subseteq Servers
  /\ overlap \subseteq Servers \X Servers
  /\ doomed \subseteq Servers
  /\ company \in {"never", "before", "now"}
  /\ lost \subseteq Servers

(* Two servers in the table hold a common host port only if their creates  *)
(* were in flight together: a create validates against every row that was  *)
(* there before it began, and its RCON port against those there since.     *)
SharedPortsOverlapped ==
  \A s, t \in Live :
    s # t /\ Reserved(row[s].ports) \cap Reserved(row[t].ports) # {}
      => <<s, t>> \in overlap

(* A server in the table has its world on disk, whatever failed, crashed   *)
(* or ran beside it, until a delete with remove_files is asked for it: the *)
(* failure paths of create remove directories, and rebuilds must not.      *)
WorldKept == \A s \in Live : s \in data_dirs \/ s \in doomed

(* A container id in a row, or captured by a handler, never denotes a      *)
(* container of another server: a late handler can stop or remove only     *)
(* its own server's container.                                             *)
IdsNeverCross ==
  /\ \A s \in Live :
       Exists(row[s].cid) => containers[row[s].cid].server = s
  /\ \A r \in Requests :
       Exists(req[r].cid) => containers[req[r].cid].server = req[r].server

(* As long as no two requests have overlapped and the process has not      *)
(* died, whatever docker calls fail, before or after their effect: at rest  *)
(* a container is the one its server's row names.  The one way to leave    *)
(* another is a create_container that raised although docker had made it,  *)
(* and such a container never runs.                                        *)
NoOrphansAtRest ==
  AtRest /\ company = "never" =>
    \A c \in Ids : Exists(c) =>
      LET s == containers[c].server
      IN  \/ s \in Live /\ row[s].cid = c
          \/ s \in lost /\ ~ containers[c].up

(* A rebuild that ran alone mends its server whatever came before (a       *)
(* crash, a docker failure, handlers that raced): the row then names the   *)
(* server's one container, and that one was made from the row's own        *)
(* configuration.                                                          *)
RebuildMends ==
  [][\A r \in Requests, s \in Live :
       company # "now" /\ req[r].server = s /\ Rebuilt(r) =>
         /\ Named(s)' = {row'[s].cid}
         /\ containers'[row'[s].cid].config = row'[s].config
    ]_vars

(* Servers as the registry sees them: one id, one life. *)
Ended == {s \in used : s \notin Live /\ s \notin Creating}

Registry == INSTANCE ServerRegistry WITH live <- Live, ended <- Ended

(* The manager implements the registry: an UPDATE by a handler that        *)
(* outlived its server brings no row back, and every bundle on the public  *)
(* surface belongs to a server in the table, a crash inside delete or      *)
(* create included.                                                        *)
ImplementsRegistry == Registry!Spec

(* update_config returns early when the values equal the row's; its        *)
(* docstring rebuilds whenever "the values would change the container      *)
(* spec".  So at rest the container a row names was made from the row.     *)
UnchangedMeansBuilt ==
  AtRest => \A s \in Live : Exists(row[s].cid)
                            /\ containers[row[s].cid].config = row[s].config
=============================================================================
