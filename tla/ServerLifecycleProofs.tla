----------------------- MODULE ServerLifecycleProofs -----------------------
(***************************************************************************)
(* Theorems of ServerLifecycle, for every value of its constants.          *)
(*                                                                         *)
(* None of the properties is inductive as it stands.  What makes them so   *)
(* is said by IInv: what a handler's locals hold at each of its awaits     *)
(* (Locals), that a server being created is nobody else's business         *)
(* (Births), that its directory is there once the install is done          *)
(* (Worlds), and that a create which has validated its ports shares none   *)
(* with a row it did not overlap (Overlaps).                               *)
(*                                                                         *)
(* Tidy is a second invariant, on top of it, for what is true of requests  *)
(* that come one at a time: a handler on its own finds the row as it read  *)
(* it, and every container is claimed by a row or by a handler.            *)
(***************************************************************************)
EXTENDS ServerLifecycle, TLAPS

CreatePcs == {"installing", "bridging"}
PowerPcs == {"starting", "started", "stopping", "stopped", "restarting"}
IdPcs == {"built", "halting", "removing", "removed", "starting", "started",
          "stopping", "stopped", "restarting"}

(* What a handler's locals hold, by the await it is at. *)
LocalsOf(v) ==
  /\ v.pc = "idle" => v = Idle
  /\ v.pc # "idle" =>
       /\ v.server \in used
       /\ v.config \in Configs
       /\ v.ports \in PortsOfServer
       /\ v.op # "none"
  /\ v.pc \in CreatePcs => v.op = "create"
  /\ v.pc \in {"replacing", "building", "built"} => v.op \in {"create", "rebuild"}
  /\ v.pc = "halting" => v.op = "rebuild"
  /\ v.pc = "removing" => v.op \in {"rebuild", "delete"}
  /\ v.pc = "removed" => v.op = "delete"
  /\ v.pc \in PowerPcs => v.op \in {"start", "stop", "restart"}
  /\ v.pc \in IdPcs => v.cid \in Ids
  /\ v.files => v.server \in doomed

Locals == Live \subseteq used /\ \A r \in Requests : LocalsOf(req[r])

Births ==
  \A q \in Requests : req[q].op = "create" =>
    /\ req[q].server \notin Live
    /\ \A r \in Requests \ {q} : req[r].server # req[q].server

Worlds ==
  /\ WorldKept
  /\ \A r \in Requests :
       req[r].op = "create" /\ req[r].pc # "installing" => req[r].server \in data_dirs

Share(a, b) == Reserved(a) \cap Reserved(b) # {}

Overlaps ==
  /\ SharedPortsOverlapped
  /\ \A r \in Requests, t \in Live :
       req[r].op = "create" /\ Share(req[r].ports, row[t].ports) =>
         <<req[r].server, t>> \in overlap /\ <<t, req[r].server>> \in overlap
  /\ \A q, r \in Requests :
       q # r /\ req[q].op = "create" /\ req[r].op = "create" =>
         <<req[q].server, req[r].server>> \in overlap

IInv == TypeOK /\ Locals /\ Births /\ Worlds /\ Overlaps /\ IdsNeverCross

-----------------------------------------------------------------------------
(* Typing facts about the constants and the locals. *)

LEMMA NoneFacts ==
  /\ None \notin Servers /\ None \notin Ids /\ None \notin Configs
  /\ None \notin Ports /\ None \notin Row /\ None \notin Container
  /\ None \notin PortsOfServer
BY ConstantsAssumption DEF ConstantsAssumption

LEMMA IdleFacts ==
  /\ Idle \in Request
  /\ Idle.pc = "idle" /\ Idle.op = "none" /\ Idle.server = None
  /\ Idle.cid = None /\ Idle.files = FALSE
BY DEF Idle, Request, Pcs, Ops

(* Giving a slot another value leaves the other slots alone. *)
LEMMA Update ==
  ASSUME TypeOK, NEW r \in Requests, NEW v \in Request,
         req' = [req EXCEPT ![r] = v]
  PROVE  /\ req' \in [Requests -> Request]
         /\ req'[r] = v
         /\ \A q \in Requests \ {r} : req'[q] = req[q]
BY DEF TypeOK

-----------------------------------------------------------------------------
(* What a step that leaves the set of live servers and their ports alone   *)
(* has to show for the handler it moves.                                   *)
LEMMA Carry ==
  ASSUME IInv, NEW r \in Requests, NEW v \in Request,
         req' = [req EXCEPT ![r] = v],
         Live' = Live,
         \A s \in Live : row'[s].ports = row[s].ports,
         data_dirs \subseteq data_dirs', doomed \subseteq doomed',
         overlap' = overlap,
         v.op = "create" =>
           /\ req[r].op = "create" /\ v.server = req[r].server
           /\ v.pc # "installing" => v.server \in data_dirs'
           /\ \A t \in Live : Share(v.ports, row[t].ports)
                                => Share(req[r].ports, row[t].ports),
         \/ v.op \in {"create", "none"}
         \/ v.server \in Live
         \/ req[r].op # "create" /\ v.server = req[r].server,
         v.op = "none" => v = Idle
  PROVE  Births' /\ Worlds' /\ Overlaps'
<1>1. /\ req'[r] = v
      /\ \A q \in Requests \ {r} : req'[q] = req[q]
  BY Update DEF IInv
<1>2. \A q \in Requests : req[q].op = "create" => req[q].server \in Servers
  BY IdleFacts DEF IInv, TypeOK, Locals, LocalsOf
<1>3. Births'
  BY <1>1, <1>2, IdleFacts, NoneFacts DEF IInv, Births
<1>4. Worlds'
  BY <1>1 DEF IInv, Worlds, WorldKept
<1>5. SharedPortsOverlapped'
  BY DEF IInv, Overlaps, SharedPortsOverlapped
<1>6. ASSUME NEW q \in Requests, NEW s \in Live,
             req'[q].op = "create", Share(req'[q].ports, row'[s].ports)
      PROVE  <<req'[q].server, s>> \in overlap /\ <<s, req'[q].server>> \in overlap
  <2>1. Share(req'[q].ports, row[s].ports)
    BY <1>6
  <2>2. CASE q = r
    BY <1>1, <1>6, <2>1, <2>2 DEF IInv, Overlaps
  <2>3. CASE q # r
    BY <1>1, <1>6, <2>1, <2>3 DEF IInv, Overlaps
  <2> QED BY <2>2, <2>3
<1>7. ASSUME NEW p \in Requests, NEW q \in Requests, p # q,
             req'[p].op = "create", req'[q].op = "create"
      PROVE  <<req'[p].server, req'[q].server>> \in overlap
  BY <1>1, <1>7 DEF IInv, Overlaps
<1>8. Overlaps'
  BY <1>5, <1>6, <1>7 DEF Overlaps, Share
<1> QED BY <1>3, <1>4, <1>8

(* The same for the handlers' locals and for the container ids. *)
LEMMA CarryLocals ==
  ASSUME IInv, NEW r \in Requests, NEW v \in Request,
         req' = [req EXCEPT ![r] = v],
         Live' \subseteq used', used \subseteq used', doomed \subseteq doomed',
         LocalsOf(v)'
  PROVE  Locals'
<1>1. /\ req'[r] = v
      /\ \A q \in Requests \ {r} : req'[q] = req[q]
  BY Update DEF IInv
<1>2. ASSUME NEW q \in Requests \ {r}
      PROVE  LocalsOf(req[q])'
  BY <1>1 DEF IInv, Locals, LocalsOf
<1> QED BY <1>1, <1>2 DEF Locals, LocalsOf

LEMMA CarryIds ==
  ASSUME IInv, NEW r \in Requests, NEW v \in Request,
         req' = [req EXCEPT ![r] = v],
         \A c \in Ids : containers'[c] # None =>
           containers[c] # None /\ containers'[c].server = containers[c].server,
         \A s \in Live' :
           \/ s \in Live /\ row'[s].cid = row[s].cid
           \/ \E q \in Requests : req[q].cid = row'[s].cid /\ req[q].server = s,
         \/ v.cid = None
         \/ v.cid = req[r].cid /\ v.server = req[r].server
         \/ v.server \in Live /\ v.cid = row[v.server].cid
  PROVE  IdsNeverCross'
<1>1. /\ req'[r] = v
      /\ \A q \in Requests \ {r} : req'[q] = req[q]
  BY Update DEF IInv
<1>2. ASSUME NEW s \in Live', row'[s].cid \in Ids, containers'[row'[s].cid] # None
      PROVE  containers'[row'[s].cid].server = s
  BY <1>2 DEF IInv, IdsNeverCross, Exists
<1>3. ASSUME NEW q \in Requests, req'[q].cid \in Ids, containers'[req'[q].cid] # None
      PROVE  containers'[req'[q].cid].server = req'[q].server
  BY <1>1, <1>3, NoneFacts DEF IInv, IdsNeverCross, Exists
<1> QED BY <1>2, <1>3 DEF IdsNeverCross, Exists

-----------------------------------------------------------------------------
(* A step of one handler that enters no row and removes none.              *)
LEMMA Move ==
  ASSUME IInv, NEW r \in Requests, NEW v \in Request,
         req' = [req EXCEPT ![r] = v],
         row' \in [Servers -> Row \cup {None}],
         Live' = Live,
         \A s \in Live : row'[s].ports = row[s].ports,
         \A s \in Live : \/ row'[s].cid = row[s].cid
                         \/ row'[s].cid = req[r].cid /\ req[r].server = s,
         containers' \in [Ids -> Container \cup {None}],
         \A c \in Ids : containers'[c] # None =>
           containers[c] # None /\ containers'[c].server = containers[c].server,
         UNCHANGED <<data_dirs, bundles, used, overlap>>,
         doomed \subseteq doomed', doomed' \subseteq Servers,
         company' \in {"never", "before", "now"} /\ lost' \subseteq Servers,
         LocalsOf(v)',
         v.op = "create" =>
           /\ req[r].op = "create" /\ v.server = req[r].server
           /\ v.pc # "installing" => v.server \in data_dirs
           /\ \A t \in Live : Share(v.ports, row[t].ports)
                                => Share(req[r].ports, row[t].ports),
         \/ v = Idle
         \/ v.op # "none" /\ v.server = req[r].server /\ v.cid = req[r].cid
            /\ (v.op # "create" => req[r].op # "create")
         \/ v.op # "none" /\ v.server \in Live /\ v.cid = row[v.server].cid
  PROVE  IInv'
<1>1. TypeOK'
  BY Update DEF IInv, TypeOK
<1>2. Locals'
  BY CarryLocals DEF IInv, Locals
<1>3. IdsNeverCross'
  BY CarryIds, IdleFacts
<1>4. Births' /\ Worlds' /\ Overlaps'
  <2>1. \/ v.op \in {"create", "none"}
        \/ v.server \in Live
        \/ req[r].op # "create" /\ v.server = req[r].server
    BY IdleFacts
  <2>2. v.op = "none" => v = Idle
    OBVIOUS
  <2> QED BY <2>1, <2>2, Carry
<1> QED BY <1>1, <1>2, <1>3, <1>4 DEF IInv

(* The handler ends: what it wrote last concerns its own server's row.     *)
LEMMA Ends ==
  ASSUME IInv, NEW r \in Requests,
         req' = [req EXCEPT ![r] = Idle],
         row' \in [Servers -> Row \cup {None}],
         Live' = Live,
         \A s \in Live : row'[s].ports = row[s].ports,
         \A s \in Live : \/ row'[s].cid = row[s].cid
                         \/ row'[s].cid = req[r].cid /\ req[r].server = s,
         containers' \in [Ids -> Container \cup {None}],
         \A c \in Ids : containers'[c] # None =>
           containers[c] # None /\ containers'[c].server = containers[c].server,
         UNCHANGED <<data_dirs, bundles, used, overlap>>,
         doomed \subseteq doomed', doomed' \subseteq Servers,
         company' \in {"never", "before", "now"} /\ lost' \subseteq Servers
  PROVE  IInv'
<1>1. LocalsOf(Idle)'
  BY DEF LocalsOf, Idle, CreatePcs, PowerPcs, IdPcs
<1> QED BY <1>1, IdleFacts, Move

(* What most steps do to the history: nothing that a row or a handler is   *)
(* measured by.                                                            *)
HistoryKept == UNCHANGED <<used, overlap, doomed, company>> /\ lost' \subseteq Servers

LEMMA HistoryStays ==
  ASSUME IInv, UNCHANGED history
  PROVE  HistoryKept
BY DEF IInv, TypeOK, history, HistoryKept

(* A handler that goes on to its next await, containers changing at most.  *)
LEMMA Advance ==
  ASSUME IInv, NEW r \in Requests, NEW v \in Request,
         req' = [req EXCEPT ![r] = v],
         UNCHANGED <<row, data_dirs, bundles>>, HistoryKept,
         containers' \in [Ids -> Container \cup {None}],
         \A c \in Ids : containers'[c] # None =>
           containers[c] # None /\ containers'[c].server = containers[c].server,
         LocalsOf(v),
         v.op = req[r].op, v.server = req[r].server, v.cid = req[r].cid,
         v.op # "none",
         v.op = "create" /\ v.pc # "installing" => v.server \in data_dirs,
         \A t \in Live : Share(v.ports, row[t].ports) => Share(req[r].ports, row[t].ports)
  PROVE  IInv'
<1>1. Live' = Live
  BY DEF Live
<1>2. LocalsOf(v)'
  BY DEF LocalsOf, HistoryKept
<1>3. /\ row' \in [Servers -> Row \cup {None}]
      /\ \A s \in Live : row'[s].ports = row[s].ports /\ row'[s].cid = row[s].cid
      /\ doomed' = doomed /\ doomed \subseteq Servers /\ company' \in {"never", "before", "now"} /\ lost' \subseteq Servers
      /\ UNCHANGED <<data_dirs, bundles, used, overlap>>
  BY DEF IInv, TypeOK, HistoryKept
<1> QED BY <1>1, <1>2, <1>3, Move

(* The locals of a handler that is under way, and where Goto takes it. *)
LEMMA UnderWay ==
  ASSUME IInv, NEW r \in Requests, req[r].pc # "idle"
  PROVE  /\ req[r] \in Request /\ LocalsOf(req[r])
         /\ req[r].server \in Servers
         /\ req[r].op # "none"
BY DEF IInv, TypeOK, Locals, LocalsOf

LEMMA GotoFacts ==
  ASSUME IInv, NEW r \in Requests, NEW pc \in Pcs, Goto(r, pc)
  PROVE  LET v == [req[r] EXCEPT !.pc = pc]
         IN  /\ req' = [req EXCEPT ![r] = v]
             /\ v \in Request
             /\ v.pc = pc /\ v.op = req[r].op /\ v.server = req[r].server
             /\ v.cid = req[r].cid /\ v.ports = req[r].ports
             /\ v.config = req[r].config /\ v.files = req[r].files
BY DEF IInv, TypeOK, Goto, Request

LEMMA AdvanceGoto ==
  ASSUME IInv, NEW r \in Requests, NEW pc \in Pcs, Goto(r, pc),
         req[r].pc # "idle", pc # "idle",
         UNCHANGED <<row, data_dirs, bundles>>, HistoryKept,
         containers' \in [Ids -> Container \cup {None}],
         \A c \in Ids : containers'[c] # None =>
           containers[c] # None /\ containers'[c].server = containers[c].server,
         pc \in CreatePcs => req[r].op = "create",
         pc \in {"replacing", "building", "built"} => req[r].op \in {"create", "rebuild"},
         pc = "halting" => req[r].op = "rebuild",
         pc = "removing" => req[r].op \in {"rebuild", "delete"},
         pc = "removed" => req[r].op = "delete",
         pc \in PowerPcs => req[r].op \in {"start", "stop", "restart"},
         pc \in IdPcs => req[r].cid \in Ids,
         req[r].op = "create" => req[r].server \in data_dirs
  PROVE  IInv'
<1> DEFINE v == [req[r] EXCEPT !.pc = pc]
<1>1. /\ req' = [req EXCEPT ![r] = v]
      /\ v \in Request
      /\ v.pc = pc /\ v.op = req[r].op /\ v.server = req[r].server
      /\ v.cid = req[r].cid /\ v.ports = req[r].ports
      /\ v.config = req[r].config /\ v.files = req[r].files
  BY GotoFacts
<1>2. LocalsOf(v)
  BY <1>1, UnderWay DEF LocalsOf
<1>3. v.op # "none"
  BY <1>1, UnderWay
<1> HIDE DEF v
<1> QED BY <1>1, <1>2, <1>3, Advance

-----------------------------------------------------------------------------
(* A handler ends and has written nothing since its last await.            *)
LEMMA EndsQuietly ==
  ASSUME IInv, NEW r \in Requests, Finish(r),
         UNCHANGED <<row, containers, data_dirs, bundles, history>>
  PROVE  IInv'
<1>1. Live' = Live
  BY DEF Live
<1> QED BY <1>1, Ends DEF Finish, IInv, TypeOK, history

(* The RCON port is one that no row holds when it is picked.               *)
LEMMA PickedIsFresh ==
  ASSUME NEW a \in PortsOfServer, NEW b \in PortsOfServer, NEW p \in Ports,
         b = [a EXCEPT !.rcon = p],
         NEW t \in Live, ~ port_in_use(p), Share(b, row[t].ports)
  PROVE  Share(a, row[t].ports)
<1>1. b.port = a.port /\ b.bridge = a.bridge /\ b.rcon = p
  BY DEF PortsOfServer
<1>2. Reserved(b) \subseteq Reserved(a) \cup {p}
  BY <1>1 DEF Reserved
<1>3. p \notin Reserved(row[t].ports)
  BY DEF port_in_use
<1> QED BY <1>2, <1>3 DEF Share

LEMMA PickRconInv ==
  ASSUME IInv, NEW r \in Requests, req[r].pc \in CreatePcs,
         req[r].server \in data_dirs, PickRcon(r),
         UNCHANGED <<row, containers, data_dirs, bundles, history>>
  PROVE  IInv'
<1>1. req[r] \in Request /\ LocalsOf(req[r]) /\ req[r].op = "create"
      /\ req[r].pc # "idle" /\ req[r].ports \in PortsOfServer
  BY DEF IInv, TypeOK, Locals, LocalsOf, CreatePcs
<1>2. containers \in [Ids -> Container \cup {None}]
  BY DEF IInv, TypeOK
<1>3. CASE Goto(r, "replacing")
  BY <1>1, <1>2, <1>3, HistoryStays, AdvanceGoto DEF Pcs, CreatePcs, PowerPcs, IdPcs
<1>4. CASE Finish(r)
  BY <1>4, EndsQuietly
<1>5. ASSUME NEW p \in RconPorts, ~ port_in_use(p),
             req' = [req EXCEPT ![r].pc = "replacing", ![r].ports.rcon = p]
      PROVE  IInv'
  <2> DEFINE b == [req[r].ports EXCEPT !.rcon = p]
             v == [req[r] EXCEPT !.pc = "replacing", !.ports = b]
  <2>1. p \in Ports
    BY ConstantsAssumption DEF ConstantsAssumption
  <2>2. b \in PortsOfServer
    BY <1>1 DEF PortsOfServer
  <2>3. v \in Request /\ req' = [req EXCEPT ![r] = v]
        /\ v.pc = "replacing" /\ v.op = "create" /\ v.server = req[r].server
        /\ v.cid = req[r].cid /\ v.ports = b /\ v.config = req[r].config
        /\ v.files = req[r].files
    BY <1>1, <1>5, <2>2 DEF Request, Pcs, IInv, TypeOK
  <2> HIDE DEF v
  <2>4. LocalsOf(v)
    BY <1>1, <2>2, <2>3 DEF LocalsOf, CreatePcs, PowerPcs, IdPcs
  <2>5. \A t \in Live : Share(v.ports, row[t].ports) => Share(req[r].ports, row[t].ports)
    BY <1>1, <1>5, <2>1, <2>2, <2>3, PickedIsFresh
  <2> QED BY <1>1, <1>2, <2>3, <2>4, <2>5, HistoryStays, Advance
<1> QED BY <1>3, <1>4, <1>5 DEF PickRcon

LEMMA InstallSucceedsInv ==
  ASSUME IInv, NEW r \in Requests, InstallSucceeds(r)
  PROVE  IInv'
<1>1. CASE Goto(r, "bridging")
  <2>1. req[r].op = "create" /\ req[r].pc # "idle"
    BY DEF InstallSucceeds, IInv, Locals, LocalsOf, CreatePcs
  <2>2. containers \in [Ids -> Container \cup {None}]
    BY DEF IInv, TypeOK
  <2> QED BY <1>1, <2>1, <2>2, HistoryStays, AdvanceGoto DEF InstallSucceeds, Pcs, CreatePcs, PowerPcs, IdPcs
<1>2. CASE PickRcon(r)
  BY <1>2, PickRconInv DEF InstallSucceeds, CreatePcs
<1> QED BY <1>1, <1>2 DEF InstallSucceeds

LEMMA BridgeInstalledInv ==
  ASSUME IInv, NEW r \in Requests, BridgeInstalled(r)
  PROVE  IInv'
<1>1. req[r].server \in data_dirs
  BY DEF BridgeInstalled, IInv, Worlds, Locals, LocalsOf, CreatePcs
<1> QED BY <1>1, PickRconInv DEF BridgeInstalled, CreatePcs

LEMMA InstallWritesInv ==
  ASSUME IInv, NEW r \in Requests, InstallWrites(r)
  PROVE  IInv'
<1>1. Live' = Live
  BY DEF InstallWrites, Live
<1>2. data_dirs' \subseteq Servers /\ data_dirs \subseteq data_dirs'
  BY UnderWay DEF InstallWrites, IInv, TypeOK
<1>3. TypeOK'
  BY <1>2 DEF InstallWrites, IInv, TypeOK, history
<1>4. Locals' /\ Births' /\ Overlaps' /\ IdsNeverCross'
  BY <1>1 DEF InstallWrites, IInv, Locals, LocalsOf, Births, Overlaps, history,
              SharedPortsOverlapped, Share, IdsNeverCross, Exists
<1>5. Worlds'
  BY <1>1, <1>2 DEF InstallWrites, IInv, Worlds, WorldKept, history
<1> QED BY <1>3, <1>4, <1>5 DEF IInv

-----------------------------------------------------------------------------
(* An UPDATE of a row that is there, its ports left alone.                 *)
LEMMA RowUpdate ==
  ASSUME TypeOK, NEW s \in Live, NEW v \in Row,
         row' = [row EXCEPT ![s] = v], v.ports = row[s].ports
  PROVE  /\ row' \in [Servers -> Row \cup {None}]
         /\ Live' = Live
         /\ \A t \in Live : row'[t].ports = row[t].ports
         /\ \A t \in Live : t # s => row'[t].cid = row[t].cid
         /\ row'[s].cid = v.cid
<1>1. s \in Servers /\ row \in [Servers -> Row \cup {None}]
  BY DEF Live, TypeOK
<1>2. v # None
  BY NoneFacts
<1>3. Live' = Live
  BY <1>1, <1>2 DEF Live
<1>4. \A t \in Live : t \in Servers
  BY DEF Live
<1> QED BY <1>1, <1>3, <1>4

LEMMA LiveRow ==
  ASSUME TypeOK, NEW s \in Live
  PROVE  s \in Servers /\ row[s] \in Row
BY DEF TypeOK, Live

(* A handler begins by reading a server that is in the table.              *)
LEMMA Reads ==
  ASSUME IInv, NEW r \in Requests, NEW s \in Live, NEW m \in Configs,
         NEW op \in Ops, NEW pc \in Pcs, Read(r, s, op, pc, m),
         op \notin {"none", "create"},
         pc \in {"halting", "replacing", "starting", "stopping", "restarting"},
         pc \in {"halting", "replacing"} => op = "rebuild",
         pc \in PowerPcs => op \in {"start", "stop", "restart"},
         row' \in [Servers -> Row \cup {None}],
         Live' = Live,
         \A t \in Live : row'[t].ports = row[t].ports /\ row'[t].cid = row[t].cid,
         UNCHANGED <<containers, data_dirs, bundles, used, overlap, doomed>>,
         company' \in {"never", "before", "now"} /\ lost' \subseteq Servers
  PROVE  IInv'
<1>1. s \in Servers /\ s \in used /\ row[s].cid \in Ids /\ row[s].ports \in PortsOfServer
  BY LiveRow DEF IInv, Locals, Row
<1>2. PICK v \in Request :
        v = [pc |-> pc, op |-> op, server |-> s, cid |-> row[s].cid,
             config |-> m, ports |-> row[s].ports, files |-> FALSE]
  BY <1>1 DEF Request
<1>3. LocalsOf(v)'
  BY <1>1, <1>2 DEF LocalsOf, CreatePcs, PowerPcs, IdPcs
<1>4. /\ req' = [req EXCEPT ![r] = v]
      /\ v.op \notin {"none", "create"} /\ v.server = s /\ v.cid = row[s].cid
  BY <1>2 DEF Read
<1>5. /\ containers' \in [Ids -> Container \cup {None}]
      /\ doomed \subseteq doomed' /\ doomed' \subseteq Servers
  BY DEF IInv, TypeOK
<1> QED BY <1>3, <1>4, <1>5, Move

LEMMA ConfigBeginInv ==
  ASSUME IInv, NEW r \in Requests, ConfigBegin(r)
  PROVE  IInv'
<1>1. PICK s \in Live, m \in Configs :
        /\ row' = [row EXCEPT ![s].config = m]
        /\ Read(r, s, "rebuild", RebuildFrom(row[s].cid, "halting"), m)
  BY DEF ConfigBegin
<1> DEFINE w == [row[s] EXCEPT !.config = m]
<1>2. w \in Row /\ row' = [row EXCEPT ![s] = w] /\ w.ports = row[s].ports
      /\ w.cid = row[s].cid
  BY <1>1, LiveRow DEF IInv, Row
<1> HIDE DEF w
<1>3. /\ row' \in [Servers -> Row \cup {None}]
      /\ Live' = Live
      /\ \A t \in Live : row'[t].ports = row[t].ports /\ row'[t].cid = row[t].cid
  <2>1. TypeOK
    BY DEF IInv
  <2>2. /\ row' \in [Servers -> Row \cup {None}]
        /\ Live' = Live
        /\ \A t \in Live : row'[t].ports = row[t].ports
        /\ \A t \in Live : t # s => row'[t].cid = row[t].cid
        /\ row'[s].cid = w.cid
    BY <1>2, <2>1, RowUpdate
  <2> QED BY <1>2, <2>2
<1>4. RebuildFrom(row[s].cid, "halting") \in {"halting", "replacing"}
  BY DEF RebuildFrom
<1>5. company' \in {"never", "before", "now"} /\ lost' \subseteq Servers
  BY DEF ConfigBegin, Arrive, IInv, TypeOK
<1> QED BY <1>1, <1>3, <1>4, <1>5, Reads DEF ConfigBegin, Ops, Pcs, PowerPcs

LEMMA RecreateBeginInv ==
  ASSUME IInv, NEW r \in Requests, RecreateBegin(r)
  PROVE  IInv'
<1>1. PICK s \in Live :
        Read(r, s, "rebuild", RebuildFrom(row[s].cid, "halting"), row[s].config)
  BY DEF RecreateBegin
<1>2. row[s].config \in Configs
  BY LiveRow DEF IInv, Row
<1>3. RebuildFrom(row[s].cid, "halting") \in {"halting", "replacing"}
  BY DEF RebuildFrom
<1>4. /\ row' \in [Servers -> Row \cup {None}]
      /\ Live' = Live /\ row' = row /\ company' \in {"never", "before", "now"} /\ lost' \subseteq Servers
  BY DEF RecreateBegin, Arrive, IInv, TypeOK, Live
<1> QED BY <1>1, <1>2, <1>3, <1>4, Reads DEF RecreateBegin, Ops, Pcs, PowerPcs

LEMMA PowerBeginInv ==
  ASSUME IInv, NEW r \in Requests,
         NEW op \in {"start", "stop"}, NEW status \in {"starting", "stopping"},
         NEW pc \in {"starting", "stopping"}, PowerBegin(r, op, status, pc)
  PROVE  IInv'
<1>1. PICK s \in Live :
        /\ row' = [row EXCEPT ![s].status = status]
        /\ \/ Read(r, s, op, pc, row[s].config)
           \/ UNCHANGED req
  BY DEF PowerBegin
<1> DEFINE w == [row[s] EXCEPT !.status = status]
<1>2. w \in Row /\ row' = [row EXCEPT ![s] = w] /\ w.ports = row[s].ports
      /\ w.cid = row[s].cid /\ row[s].config \in Configs
  BY <1>1, LiveRow DEF IInv, Row, Statuses
<1> HIDE DEF w
<1>3. /\ row' \in [Servers -> Row \cup {None}]
      /\ Live' = Live
      /\ \A t \in Live : row'[t].ports = row[t].ports /\ row'[t].cid = row[t].cid
  <2>1. TypeOK
    BY DEF IInv
  <2>2. /\ row' \in [Servers -> Row \cup {None}]
        /\ Live' = Live
        /\ \A t \in Live : row'[t].ports = row[t].ports
        /\ \A t \in Live : t # s => row'[t].cid = row[t].cid
        /\ row'[s].cid = w.cid
    BY <1>2, <2>1, RowUpdate
  <2> QED BY <1>2, <2>2
<1>4. company' \in {"never", "before", "now"} /\ lost' \subseteq Servers
      /\ UNCHANGED <<containers, data_dirs, bundles, used, overlap, doomed>>
  BY DEF PowerBegin, Arrive, IInv, TypeOK
<1>5. CASE Read(r, s, op, pc, row[s].config)
  BY <1>2, <1>3, <1>4, <1>5, Reads DEF Ops, Pcs
<1>6. CASE UNCHANGED req
  <2>1. req' = [req EXCEPT ![r] = Idle]
    BY <1>6 DEF PowerBegin, Arrive, IInv, TypeOK
  <2>2. containers' \in [Ids -> Container \cup {None}] /\ doomed' \subseteq Servers
    BY <1>4 DEF IInv, TypeOK
  <2> QED BY <1>3, <1>4, <2>1, <2>2, Ends
<1> QED BY <1>1, <1>5, <1>6

LEMMA RestartBeginInv ==
  ASSUME IInv, NEW r \in Requests, RestartBegin(r)
  PROVE  IInv'
<1>1. PICK s \in Live : Read(r, s, "restart", "restarting", row[s].config)
  BY DEF RestartBegin
<1>2. row[s].config \in Configs
  BY LiveRow DEF IInv, Row
<1>3. /\ row' \in [Servers -> Row \cup {None}]
      /\ Live' = Live /\ row' = row /\ company' \in {"never", "before", "now"} /\ lost' \subseteq Servers
  BY DEF RestartBegin, Arrive, IInv, TypeOK, Live
<1> QED BY <1>1, <1>2, <1>3, Reads DEF RestartBegin, Ops, Pcs

-----------------------------------------------------------------------------
(* The docker calls, and the writes that follow them.                      *)
LEMMA QuietEndsInv ==
  ASSUME IInv, NEW r \in Requests, InstallAborts(r) \/ DockerFails(r)
  PROVE  IInv'
BY EndsQuietly DEF InstallAborts, DockerFails

(* From its install on, a server being created has its directory.          *)
LEMMA WorldThere ==
  ASSUME IInv, NEW r \in Requests, req[r].op = "create", req[r].pc # "installing"
  PROVE  req[r].server \in data_dirs
BY DEF IInv, Worlds

LEMMA DockerReplacesInv ==
  ASSUME IInv, NEW r \in Requests, DockerReplaces(r)
  PROVE  IInv'
<1>1. containers' \in [Ids -> Container \cup {None}]
  BY DEF DockerReplaces, IInv, TypeOK
<1>2. \A c \in Ids : containers'[c] # None =>
        containers[c] # None /\ containers'[c].server = containers[c].server
  BY DEF DockerReplaces
<1>3. req[r].op \in {"create", "rebuild"}
  BY DEF DockerReplaces, IInv, Locals, LocalsOf
<1>4. HistoryKept
  BY DEF DockerReplaces, HistoryKept, IInv, TypeOK
<1> QED BY <1>1, <1>2, <1>3, <1>4, WorldThere, AdvanceGoto
        DEF DockerReplaces, Pcs, CreatePcs, PowerPcs, IdPcs

(* docker keeps a container or drops it; it changes its up flag alone.     *)
LEMMA UpFlag ==
  ASSUME TypeOK, NEW c \in Ids, Exists(c), NEW on \in BOOLEAN,
         containers' = [containers EXCEPT ![c].up = on]
  PROVE  /\ containers' \in [Ids -> Container \cup {None}]
         /\ \A d \in Ids : containers'[d] # None =>
              containers[d] # None /\ containers'[d].server = containers[d].server
<1>1. containers \in [Ids -> Container \cup {None}] /\ containers[c] \in Container
  BY DEF TypeOK, Exists
<1>2. [containers[c] EXCEPT !.up = on] \in Container
      /\ [containers[c] EXCEPT !.up = on].server = containers[c].server
  BY <1>1 DEF Container
<1> QED BY <1>1, <1>2 DEF Exists

LEMMA RebuildHaltedInv ==
  ASSUME IInv, NEW r \in Requests, RebuildHalted(r)
  PROVE  IInv'
<1>1. req[r].cid \in Ids /\ req[r].op = "rebuild"
  BY DEF RebuildHalted, IInv, Locals, LocalsOf, IdPcs
<1>2. /\ containers' \in [Ids -> Container \cup {None}]
      /\ \A d \in Ids : containers'[d] # None =>
           containers[d] # None /\ containers'[d].server = containers[d].server
  <2>1. CASE UNCHANGED containers
    BY <2>1 DEF IInv, TypeOK
  <2>2. CASE Exists(req[r].cid) /\ containers' = [containers EXCEPT ![req[r].cid].up = FALSE]
    BY <1>1, <2>2, UpFlag DEF IInv
  <2> QED BY <2>1, <2>2 DEF RebuildHalted
<1>3. PICK pc \in {"removing", "replacing"} : Goto(r, pc)
  BY DEF RebuildHalted, RebuildFrom
<1> QED BY <1>1, <1>2, <1>3, HistoryStays, AdvanceGoto DEF RebuildHalted, Pcs, CreatePcs, PowerPcs, IdPcs

LEMMA DockerRemovesInv ==
  ASSUME IInv, NEW r \in Requests, DockerRemoves(r)
  PROVE  IInv'
<1>1. req[r].cid \in Ids /\ req[r].op \in {"rebuild", "delete"}
  BY DEF DockerRemoves, IInv, Locals, LocalsOf, IdPcs
<1>2. /\ containers' \in [Ids -> Container \cup {None}]
      /\ \A d \in Ids : containers'[d] # None =>
           containers[d] # None /\ containers'[d].server = containers[d].server
  BY DEF DockerRemoves, IInv, TypeOK
<1>3. PICK pc \in {"removed", "replacing"} :
        Goto(r, pc) /\ (pc = "removed" <=> req[r].op = "delete")
  BY DEF DockerRemoves
<1> QED BY <1>1, <1>2, <1>3, HistoryStays, AdvanceGoto DEF DockerRemoves, Pcs, CreatePcs, PowerPcs, IdPcs

LEMMA PowerInv ==
  ASSUME IInv, NEW r \in Requests,
         DockerStarts(r) \/ DockerStops(r) \/ DockerRestarts(r) \/ DockerHalfRestarts(r)
         \/ StartFailsLate(r) \/ StopFailsLate(r)
  PROVE  IInv'
<1>1. req[r].pc \in {"starting", "stopping", "restarting"} /\ Exists(req[r].cid)
  BY DEF DockerStarts, DockerStops, DockerRestarts, DockerHalfRestarts,
     StartFailsLate, StopFailsLate, Power
<1>2. req[r].cid \in Ids /\ req[r].op \in {"start", "stop", "restart"}
  BY <1>1, UnderWay DEF Exists, LocalsOf, PowerPcs
<1>3. PICK on \in BOOLEAN : containers' = [containers EXCEPT ![req[r].cid].up = on]
  BY DEF DockerStarts, DockerStops, DockerRestarts, DockerHalfRestarts,
     StartFailsLate, StopFailsLate, Power
<1>4. /\ containers' \in [Ids -> Container \cup {None}]
      /\ \A d \in Ids : containers'[d] # None =>
           containers[d] # None /\ containers'[d].server = containers[d].server
  BY <1>1, <1>2, <1>3, UpFlag DEF IInv
<1>5. UNCHANGED <<row, data_dirs, bundles, history>>
  BY DEF DockerStarts, DockerStops, DockerRestarts, DockerHalfRestarts,
     StartFailsLate, StopFailsLate, Power
<1>6. CASE Goto(r, "started")
  BY <1>1, <1>2, <1>4, <1>5, <1>6, WorldThere, HistoryStays, AdvanceGoto DEF Pcs, CreatePcs, PowerPcs, IdPcs
<1>7. CASE Goto(r, "stopped")
  BY <1>1, <1>2, <1>4, <1>5, <1>7, WorldThere, HistoryStays, AdvanceGoto DEF Pcs, CreatePcs, PowerPcs, IdPcs
<1>8. CASE Finish(r)
  <2>1. Live' = Live
    BY <1>5 DEF Live
  <2> QED BY <1>4, <1>5, <1>8, <2>1, Ends DEF Finish, IInv, TypeOK, history
<1> QED BY <1>6, <1>7, <1>8
        DEF DockerStarts, DockerStops, DockerRestarts, DockerHalfRestarts,
     StartFailsLate, StopFailsLate, Power

(* The rebuild's two UPDATEs reach its own server's row, or none.          *)
LEMMA RebuiltRow ==
  ASSUME IInv, NEW r \in Requests, Rebuilt(r)
  PROVE  /\ row' \in [Servers -> Row \cup {None}]
         /\ Live' = Live
         /\ \A s \in Live : row'[s].ports = row[s].ports
         /\ \A s \in Live : \/ row'[s].cid = row[s].cid
                            \/ row'[s].cid = req[r].cid /\ req[r].server = s
<1>0. req[r].cid \in Ids
  BY DEF Rebuilt, IInv, Locals, LocalsOf, IdPcs
<1>1. CASE req[r].server \in Live
  <2> DEFINE s == req[r].server
             w == [row[s] EXCEPT !.cid = req[r].cid, !.status = "stopped"]
  <2>1. /\ w \in Row /\ w.ports = row[s].ports /\ w.cid = req[r].cid
        /\ row' = [row EXCEPT ![s] = w]
    BY <1>0, <1>1, LiveRow DEF Rebuilt, IInv, Row, Statuses
  <2>2. TypeOK
    BY DEF IInv
  <2> HIDE DEF s, w
  <2>3. /\ row' \in [Servers -> Row \cup {None}]
        /\ Live' = Live
        /\ \A t \in Live : row'[t].ports = row[t].ports
        /\ \A t \in Live : t # s => row'[t].cid = row[t].cid
        /\ row'[s].cid = w.cid
    BY <1>1, <2>1, <2>2, RowUpdate DEF s
  <2> QED BY <2>1, <2>3 DEF s
<1>2. CASE req[r].server \notin Live
  BY <1>2 DEF Rebuilt, IInv, TypeOK, Live
<1> QED BY <1>1, <1>2

LEMMA RebuiltInv ==
  ASSUME IInv, NEW r \in Requests, Rebuilt(r)
  PROVE  IInv'
<1>1. /\ req' = [req EXCEPT ![r] = Idle]
      /\ UNCHANGED <<containers, data_dirs, bundles, history>>
      /\ req[r].cid \in Ids
  BY DEF Rebuilt, Finish, IInv, Locals, LocalsOf, IdPcs
<1>2. /\ row' \in [Servers -> Row \cup {None}]
      /\ Live' = Live
      /\ \A s \in Live : row'[s].ports = row[s].ports
      /\ \A s \in Live : \/ row'[s].cid = row[s].cid
                         \/ row'[s].cid = req[r].cid /\ req[r].server = s
  BY RebuiltRow
<1> QED BY <1>1, <1>2, Ends DEF IInv, TypeOK, history

LEMMA PowerDoneRow ==
  ASSUME IInv, NEW r \in Requests, PowerDone(r)
  PROVE  /\ row' \in [Servers -> Row \cup {None}]
         /\ Live' = Live
         /\ \A s \in Live : row'[s].ports = row[s].ports
         /\ \A s \in Live : row'[s].cid = row[s].cid
<1>1. CASE req[r].server \in Live
  <2> DEFINE s == req[r].server
             w == [row[s] EXCEPT !.status =
                     IF req[r].pc = "started" THEN "running" ELSE "stopped"]
  <2>1. /\ w \in Row /\ w.ports = row[s].ports /\ w.cid = row[s].cid
        /\ row' = [row EXCEPT ![s] = w]
    BY <1>1, LiveRow DEF PowerDone, IInv, Row, Statuses
  <2> HIDE DEF s, w
  <2>2. /\ row' \in [Servers -> Row \cup {None}]
        /\ Live' = Live
        /\ \A t \in Live : row'[t].ports = row[t].ports
        /\ \A t \in Live : t # s => row'[t].cid = row[t].cid
        /\ row'[s].cid = w.cid
    BY <1>1, <2>1, RowUpdate DEF IInv, s
  <2> QED BY <2>1, <2>2
<1>2. CASE req[r].server \notin Live
  BY <1>2 DEF PowerDone, IInv, TypeOK, Live
<1> QED BY <1>1, <1>2

LEMMA PowerDoneInv ==
  ASSUME IInv, NEW r \in Requests, PowerDone(r)
  PROVE  IInv'
<1>1. /\ req' = [req EXCEPT ![r] = Idle]
      /\ UNCHANGED <<containers, data_dirs, bundles, history>>
  BY DEF PowerDone, Finish
<1>2. /\ row' \in [Servers -> Row \cup {None}]
      /\ Live' = Live
      /\ \A s \in Live : row'[s].ports = row[s].ports
      /\ \A s \in Live : row'[s].cid = row[s].cid
  BY PowerDoneRow
<1> QED BY <1>1, <1>2, Ends DEF IInv, TypeOK, history

(* A new container has an id that nothing refers to yet.                   *)
LEMMA DockerCreatesInv ==
  ASSUME IInv, NEW r \in Requests, DockerCreates(r)
  PROVE  IInv'
<1>1. PICK c \in Ids :
        /\ Fresh(c)
        /\ containers' = [containers EXCEPT ![c] =
                            [server |-> req[r].server, up |-> FALSE,
                             config |-> req[r].config, ports |-> req[r].ports]]
        /\ req' = [req EXCEPT ![r].pc = "built", ![r].cid = c]
  BY DEF DockerCreates, Makes
<1>2. /\ req[r] \in Request /\ LocalsOf(req[r]) /\ req[r].pc = "building"
      /\ req[r].server \in Servers /\ req[r].op \in {"create", "rebuild"}
      /\ req[r].config \in Configs /\ req[r].ports \in PortsOfServer
  BY UnderWay DEF DockerCreates, Makes, LocalsOf, IInv, Locals
<1>3. PICK v \in Request :
        /\ v = [req[r] EXCEPT !.pc = "built", !.cid = c]
        /\ req' = [req EXCEPT ![r] = v]
  <2>1. [req[r] EXCEPT !.pc = "built", !.cid = c] \in Request
    BY <1>2 DEF Request, Pcs
  <2>2. req' = [req EXCEPT ![r] = [req[r] EXCEPT !.pc = "built", !.cid = c]]
    BY <1>1, <1>2 DEF Request, IInv, TypeOK
  <2> QED BY <2>1, <2>2
<1>4. /\ v.pc = "built" /\ v.cid = c /\ v.op = req[r].op
      /\ v.server = req[r].server /\ v.ports = req[r].ports
      /\ v.config = req[r].config /\ v.files = req[r].files
  BY <1>2, <1>3 DEF Request
<1>5. UNCHANGED <<row, data_dirs, bundles, history>>
  BY DEF DockerCreates
<1>6. Live' = Live
  BY <1>5 DEF Live
<1>7. TypeOK'
  <2>1. containers' \in [Ids -> Container \cup {None}]
    BY <1>1, <1>2 DEF IInv, TypeOK, Container
  <2> QED BY <1>3, <1>5, <2>1, Update DEF IInv, TypeOK, history
<1>8. Locals'
  <2>1. LocalsOf(v)'
    BY <1>2, <1>4, <1>5 DEF LocalsOf, CreatePcs, PowerPcs, IdPcs, history
  <2> QED BY <1>3, <1>5, <1>6, <2>1, CarryLocals DEF IInv, Locals, history
<1>9. Births' /\ Worlds' /\ Overlaps'
  <2>1. v.op = "create" => v.server \in data_dirs
    BY <1>2, <1>4, WorldThere
  <2> QED BY <1>2, <1>3, <1>4, <1>5, <1>6, <2>1, Carry DEF history
<1>10. IdsNeverCross'
  <2>1. /\ req'[r] = v
        /\ \A q \in Requests \ {r} : req'[q] = req[q]
    BY <1>3, Update DEF IInv
  <2>2. /\ containers'[c].server = req[r].server
        /\ \A d \in Ids \ {c} : containers'[d] = containers[d]
    BY <1>1 DEF IInv, TypeOK
  <2>3. ASSUME NEW s \in Live, Exists(row[s].cid)'
        PROVE  containers'[row[s].cid].server = s
    BY <1>1, <2>2, <2>3 DEF Fresh, Exists, IInv, IdsNeverCross, DockerCreates
  <2>4. ASSUME NEW q \in Requests, Exists(req[q].cid)'
        PROVE  containers'[req'[q].cid].server = req'[q].server
    <3>1. CASE q = r
      BY <1>4, <2>1, <2>2, <3>1
    <3>2. CASE q # r
      <4>1. req'[q] = req[q] /\ req[q].cid # c
        BY <1>1, <2>1, <3>2 DEF Fresh
      <4>2. req[q].cid \in Ids \ {c} /\ containers'[req[q].cid] # None
        BY <2>4, <4>1 DEF Exists
      <4>3. containers'[req[q].cid] = containers[req[q].cid]
        BY <2>2, <4>2
      <4> QED BY <4>1, <4>2, <4>3 DEF Exists, IInv, IdsNeverCross
    <3> QED BY <3>1, <3>2
  <2> QED BY <1>5, <1>6, <2>3, <2>4 DEF IdsNeverCross, Exists
<1> QED BY <1>7, <1>8, <1>9, <1>10 DEF IInv

(* ... also when the handler never learns of it.                           *)
LEMMA CreateFailsLateInv ==
  ASSUME IInv, NEW r \in Requests, CreateFailsLate(r)
  PROVE  IInv'
<1>1. PICK c \in Ids :
        /\ req[r].pc = "building" /\ Fresh(c)
        /\ containers' = [containers EXCEPT ![c] =
                            [server |-> req[r].server, up |-> FALSE,
                             config |-> req[r].config, ports |-> req[r].ports]]
  BY DEF CreateFailsLate, Makes
<1>2. /\ req[r].server \in Servers /\ req[r].op \in {"create", "rebuild"}
      /\ req[r].config \in Configs /\ req[r].ports \in PortsOfServer
  BY <1>1, UnderWay DEF LocalsOf
<1>3. /\ req' = [req EXCEPT ![r] = Idle] /\ Idle \in Request
      /\ UNCHANGED <<row, data_dirs, bundles, used, overlap, doomed, company>>
      /\ lost' \subseteq Servers /\ Live' = Live
  BY <1>2, IdleFacts DEF CreateFailsLate, Finish, IInv, TypeOK, Live
<1>4. req'[r] = Idle /\ \A q \in Requests \ {r} : req'[q] = req[q]
  BY <1>3, Update DEF IInv
<1>5. TypeOK'
  <2>1. containers' \in [Ids -> Container \cup {None}]
    BY <1>1, <1>2 DEF IInv, TypeOK, Container
  <2> QED BY <1>3, <2>1, Update DEF IInv, TypeOK
<1>6. Locals'
  <2>1. LocalsOf(Idle)'
    BY DEF LocalsOf, Idle, CreatePcs, PowerPcs, IdPcs
  <2> QED BY <1>3, <2>1, CarryLocals DEF IInv, Locals
<1>7. Births' /\ Worlds' /\ Overlaps'
  BY <1>3, Carry, IdleFacts
<1>8. IdsNeverCross'
  <2>1. \A d \in Ids \ {c} : containers'[d] = containers[d]
    BY <1>1 DEF IInv, TypeOK
  <2>2. ASSUME NEW s \in Live, Exists(row[s].cid)'
        PROVE  containers'[row[s].cid].server = s
    BY <1>1, <1>3, <2>1, <2>2 DEF Fresh, Exists, IInv, IdsNeverCross
  <2>3. ASSUME NEW q \in Requests, Exists(req[q].cid)'
        PROVE  containers'[req'[q].cid].server = req'[q].server
    <3>1. q # r
      BY <1>4, <2>3, IdleFacts, NoneFacts DEF Exists
    <3>2. req'[q] = req[q] /\ req[q].cid # c
      BY <1>1, <1>4, <3>1 DEF Fresh
    <3>3. req[q].cid \in Ids \ {c} /\ containers'[req[q].cid] # None
      BY <2>3, <3>2 DEF Exists
    <3> QED BY <2>1, <3>2, <3>3 DEF Exists, IInv, IdsNeverCross
  <2> QED BY <1>3, <2>2, <2>3 DEF IdsNeverCross, Exists
<1> QED BY <1>5, <1>6, <1>7, <1>8 DEF IInv

LEMMA RemoveFailsLateInv ==
  ASSUME IInv, NEW r \in Requests, RemoveFailsLate(r)
  PROVE  IInv'
<1>1. /\ containers' \in [Ids -> Container \cup {None}]
      /\ \A d \in Ids : containers'[d] # None =>
           containers[d] # None /\ containers'[d].server = containers[d].server
      /\ Live' = Live
  BY DEF RemoveFailsLate, IInv, TypeOK, Live
<1> QED BY <1>1, Ends DEF RemoveFailsLate, Finish, IInv, TypeOK, history

-----------------------------------------------------------------------------
(* Servers come and go.                                                    *)

(* A create that begins: its id is new, and its ports are nobody's.        *)
LEMMA ValidatedShareNothing ==
  ASSUME NEW in \in CreateInputs, NEW a, Validate(in), NEW t \in Live,
         a = [family |-> in.family, port |-> in.port,
              bridge |-> in.bridge, rcon |-> None]
  PROVE  ~ Share(a, row[t].ports)
<1>1. Reserved(a) = {in.port, in.bridge} \ {None}
  BY DEF Reserved
<1>2. in.port \notin Reserved(row[t].ports)
      /\ (in.bridge # None => in.bridge \notin Reserved(row[t].ports))
  BY DEF Validate, port_in_use
<1> QED BY <1>1, <1>2 DEF Share

LEMMA CreateBeginInv ==
  ASSUME IInv, NEW r \in Requests, CreateBegin(r)
  PROVE  IInv'
<1>1. PICK s \in Servers \ used, in \in CreateInputs, m \in Configs :
        /\ Validate(in)
        /\ req' = [req EXCEPT ![r] =
                     [pc |-> "installing", op |-> "create", server |-> s, cid |-> None,
                      config |-> m, files |-> FALSE,
                      ports |-> [family |-> in.family, port |-> in.port,
                                 bridge |-> in.bridge, rcon |-> None]]]
        /\ used' = used \cup {s}
        /\ overlap' = overlap \cup (Creating \X {s}) \cup ({s} \X Creating)
  BY DEF CreateBegin
<1> DEFINE a == [family |-> in.family, port |-> in.port,
                 bridge |-> in.bridge, rcon |-> None]
           v == [pc |-> "installing", op |-> "create", server |-> s, cid |-> None,
                 config |-> m, files |-> FALSE, ports |-> a]
<1>2. a \in PortsOfServer
  BY ConstantsAssumption DEF ConstantsAssumption, PortsOfServer
<1>3. v \in Request
  BY <1>2 DEF Request, Pcs, Ops
<1>4. \A t \in Live : ~ Share(a, row[t].ports)
  BY <1>1, ValidatedShareNothing
<1>5. /\ v.pc = "installing" /\ v.op = "create" /\ v.server = s /\ v.cid = None
      /\ v.config = m /\ v.files = FALSE /\ v.ports = a
      /\ req' = [req EXCEPT ![r] = v]
  BY <1>1
<1> HIDE DEF a, v
<1>6. req'[r] = v /\ \A q \in Requests \ {r} : req'[q] = req[q]
  BY <1>3, <1>5, Update DEF IInv
<1>7. /\ UNCHANGED <<row, containers, data_dirs, bundles, doomed>>
      /\ company' \in {"never", "before", "now"} /\ lost' \subseteq Servers /\ Live' = Live /\ req[r] = Idle
  BY DEF CreateBegin, Arrive, Live, IInv, TypeOK
<1>8. \A q \in Requests : req[q].server \in used \/ req[q].server = None
  BY IdleFacts DEF IInv, Locals, LocalsOf
<1>9. s \notin used /\ s # None /\ s \notin Live
  BY NoneFacts DEF IInv, Locals
<1>10. TypeOK'
  <2>1. Creating \subseteq Servers
    BY DEF Creating
  <2>2. overlap' \subseteq Servers \X Servers
    BY <1>1, <2>1 DEF IInv, TypeOK
  <2> QED BY <1>1, <1>3, <1>5, <1>7, <2>2, Update DEF IInv, TypeOK
<1>11. Locals'
  BY <1>1, <1>2, <1>5, <1>6, <1>7 DEF IInv, Locals, LocalsOf, CreatePcs, PowerPcs, IdPcs
<1>12. Births'
  BY <1>5, <1>6, <1>7, <1>8, <1>9 DEF IInv, Births
<1>13. Worlds'
  BY <1>5, <1>6, <1>7 DEF IInv, Worlds, WorldKept
<1>14. IdsNeverCross'
  BY <1>5, <1>6, <1>7, NoneFacts DEF IInv, IdsNeverCross, Exists
<1>15. Overlaps'
  <2>1. overlap \subseteq overlap'
    BY <1>1
  <2>2. SharedPortsOverlapped'
    BY <1>7, <2>1 DEF IInv, Overlaps, SharedPortsOverlapped
  <2>3. ASSUME NEW q \in Requests, NEW t \in Live,
               req'[q].op = "create", Share(req'[q].ports, row[t].ports)
        PROVE  <<req'[q].server, t>> \in overlap' /\ <<t, req'[q].server>> \in overlap'
    BY <1>4, <1>5, <1>6, <2>1, <2>3 DEF IInv, Overlaps
  <2>4. \A q \in Requests \ {r} :
          req[q].op = "create" => req[q].server \in Creating
    BY <1>8, NoneFacts DEF IInv, Creating, Locals, LocalsOf, TypeOK, Request, Idle
  <2>5. ASSUME NEW p \in Requests, NEW q \in Requests, p # q,
               req'[p].op = "create", req'[q].op = "create"
        PROVE  <<req'[p].server, req'[q].server>> \in overlap'
    <3>1. CASE p = r
      BY <1>1, <1>5, <1>6, <2>4, <2>5, <3>1
    <3>2. CASE q = r
      BY <1>1, <1>5, <1>6, <2>4, <2>5, <3>2
    <3>3. CASE p # r /\ q # r
      BY <1>6, <2>1, <2>5, <3>3 DEF IInv, Overlaps
    <3> QED BY <3>1, <3>2, <3>3
  <2> QED BY <1>7, <2>2, <2>3, <2>5 DEF Overlaps, Share
<1> QED BY <1>10, <1>11, <1>12, <1>13, <1>14, <1>15 DEF IInv

(* An install that fails removes the directory of a server that is still   *)
(* nobody else's.                                                          *)
LEMMA InstallFailsInv ==
  ASSUME IInv, NEW r \in Requests, InstallFails(r)
  PROVE  IInv'
<1>1. /\ req' = [req EXCEPT ![r] = Idle] /\ req[r].op = "create"
      /\ data_dirs' = data_dirs \ {req[r].server}
      /\ UNCHANGED <<row, containers, bundles, history>>
  BY DEF InstallFails, Finish, IInv, Locals, LocalsOf, CreatePcs
<1>2. Live' = Live /\ req[r].server \notin Live
  BY <1>1 DEF IInv, Births, Live
<1>3. req'[r] = Idle /\ \A q \in Requests \ {r} : req'[q] = req[q]
  BY <1>1, Update, IdleFacts DEF IInv
<1>4. TypeOK'
  BY <1>1, Update, IdleFacts DEF IInv, TypeOK, history
<1>5. Locals' /\ Births' /\ IdsNeverCross'
  <2>1. Locals'
    BY <1>1, <1>2, <1>3, IdleFacts
       DEF IInv, Locals, LocalsOf, CreatePcs, PowerPcs, IdPcs, history
  <2>2. \A q \in Requests : req[q].op = "create" => req[q].server \in Servers
    BY IdleFacts DEF IInv, TypeOK, Locals, LocalsOf
  <2>3. Births'
    BY <1>2, <1>3, <2>2, IdleFacts, NoneFacts DEF IInv, Births
  <2>4. IdsNeverCross'
    BY <1>1, <1>2, <1>3, IdleFacts, NoneFacts DEF IInv, IdsNeverCross, Exists
  <2> QED BY <2>1, <2>3, <2>4
<1>6. Worlds'
  BY <1>1, <1>2, <1>3, IdleFacts DEF IInv, Worlds, WorldKept, Births, history
<1>7. Overlaps'
  BY <1>1, <1>2, <1>3, IdleFacts DEF IInv, Overlaps, SharedPortsOverlapped, Share, history
<1> QED BY <1>4, <1>5, <1>6, <1>7 DEF IInv

(* The INSERT: a server enters the table with its directory, its container *)
(* and ports shared only with servers it overlapped.                       *)
LEMMA Inserts ==
  ASSUME IInv, NEW r \in Requests, req[r].op = "create", req[r].pc = "built",
         row' = [row EXCEPT ![req[r].server] =
                   [status |-> "created", cid |-> req[r].cid,
                    config |-> req[r].config, ports |-> req[r].ports]],
         UNCHANGED <<containers, data_dirs, overlap>>, doomed \subseteq doomed'
  PROVE  /\ row' \in [Servers -> Row \cup {None}]
         /\ Live' = Live \cup {req[r].server}
         /\ req[r].server \in used \cap Servers
         /\ row'[req[r].server].cid = req[r].cid
         /\ row'[req[r].server].ports = req[r].ports
         /\ \A t \in Live : row'[t] = row[t]
         /\ WorldKept' /\ SharedPortsOverlapped'
<1> DEFINE s == req[r].server
<1>1. /\ LocalsOf(req[r]) /\ s \in Servers /\ s \in used /\ req[r].cid \in Ids
      /\ req[r].config \in Configs /\ req[r].ports \in PortsOfServer
  BY UnderWay DEF LocalsOf, IdPcs
<1>2. PICK w \in Row :
        /\ row' = [row EXCEPT ![s] = w]
        /\ w.cid = req[r].cid /\ w.ports = req[r].ports
  <2> DEFINE w == [status |-> "created", cid |-> req[r].cid,
                   config |-> req[r].config, ports |-> req[r].ports]
  <2>1. w \in Row /\ w.cid = req[r].cid /\ w.ports = req[r].ports
    BY <1>1 DEF Row, Statuses
  <2>2. row' = [row EXCEPT ![s] = w]
    OBVIOUS
  <2> QED BY <2>1, <2>2
<1>3. s \notin Live /\ w # None
  BY NoneFacts DEF IInv, Births
<1>4. /\ row' \in [Servers -> Row \cup {None}]
      /\ row'[s] = w
      /\ \A t \in Servers \ {s} : row'[t] = row[t]
  BY <1>1, <1>2 DEF IInv, TypeOK
<1>5. Live' = Live \cup {s}
  BY <1>1, <1>3, <1>4 DEF Live
<1>6. \A t \in Live : row'[t] = row[t]
  BY <1>3, <1>4 DEF Live
<1>7. WorldKept'
  BY <1>5, WorldThere DEF IInv, Worlds, WorldKept
<1>8. SharedPortsOverlapped'
  <2> SUFFICES ASSUME NEW a \in Live', NEW b \in Live', a # b,
                      Share(row'[a].ports, row'[b].ports)
               PROVE  <<a, b>> \in overlap
    BY DEF SharedPortsOverlapped, Share
  <2>1. CASE a = s
    BY <1>2, <1>4, <1>5, <1>6, <2>1 DEF IInv, Overlaps
  <2>2. CASE b = s
    <3>1. a \in Live /\ Share(req[r].ports, row[a].ports)
      BY <1>2, <1>4, <1>5, <1>6, <2>2 DEF Share
    <3> QED BY <2>2, <3>1 DEF IInv, Overlaps
  <2>3. CASE a # s /\ b # s
    BY <1>5, <1>6, <2>3 DEF IInv, Overlaps, SharedPortsOverlapped, Share
  <2> QED BY <2>1, <2>2, <2>3
<1> QED BY <1>1, <1>2, <1>4, <1>5, <1>6, <1>7, <1>8

LEMMA InsertInv ==
  ASSUME IInv, NEW r \in Requests, Insert(r)
  PROVE  IInv'
<1> DEFINE s == req[r].server
<1>1. /\ req[r].op = "create" /\ req[r].pc = "built"
      /\ req' = [req EXCEPT ![r] = Idle]
      /\ row' = [row EXCEPT ![s] = [status |-> "created", cid |-> req[r].cid,
                                    config |-> req[r].config, ports |-> req[r].ports]]
      /\ UNCHANGED <<containers, data_dirs, history>>
  BY DEF Insert, build_bundle, Finish
<1>2. /\ row' \in [Servers -> Row \cup {None}]
      /\ Live' = Live \cup {s}
      /\ s \in used \cap Servers
      /\ row'[s].cid = req[r].cid
      /\ row'[s].ports = req[r].ports
      /\ \A t \in Live : row'[t] = row[t]
      /\ WorldKept' /\ SharedPortsOverlapped'
  BY <1>1, Inserts DEF history
<1>3. req'[r] = Idle /\ \A q \in Requests \ {r} : req'[q] = req[q]
  BY <1>1, Update, IdleFacts DEF IInv
<1>4. TypeOK'
  <2>1. bundles' \subseteq Servers
    BY <1>2 DEF Insert, build_bundle, IInv, TypeOK
  <2> QED BY <1>1, <1>2, <2>1, Update, IdleFacts DEF IInv, TypeOK, history
<1>5. Locals'
  <2>1. LocalsOf(Idle)'
    BY DEF LocalsOf, Idle, CreatePcs, PowerPcs, IdPcs
  <2> QED BY <1>1, <1>2, <2>1, CarryLocals, IdleFacts DEF IInv, Locals, history
<1>6. Births'
  <2>1. \A q \in Requests : req[q].op = "create" => req[q].server \in Servers
    BY IdleFacts DEF IInv, TypeOK, Locals, LocalsOf
  <2> QED BY <1>1, <1>2, <1>3, <2>1, IdleFacts, NoneFacts DEF IInv, Births
<1>7. Worlds'
  BY <1>1, <1>2, <1>3, IdleFacts DEF IInv, Worlds
<1>8. IdsNeverCross'
  BY <1>1, <1>2, CarryIds, IdleFacts
<1>9. Overlaps'
  <2>1. ASSUME NEW q \in Requests, NEW t \in Live',
               req'[q].op = "create", Share(req'[q].ports, row'[t].ports)
        PROVE  <<req'[q].server, t>> \in overlap /\ <<t, req'[q].server>> \in overlap
    <3>1. q # r /\ req'[q] = req[q] /\ req[q].op = "create"
      BY <1>3, <2>1, IdleFacts
    <3>2. CASE t = s
      BY <1>1, <3>1, <3>2 DEF IInv, Overlaps
    <3>3. CASE t # s
      BY <1>2, <2>1, <3>1, <3>3 DEF IInv, Overlaps
    <3> QED BY <3>2, <3>3
  <2>2. \A p, q \in Requests :
          p # q /\ req'[p].op = "create" /\ req'[q].op = "create" =>
            <<req'[p].server, req'[q].server>> \in overlap
    BY <1>3, IdleFacts DEF IInv, Overlaps
  <2>3. SharedPortsOverlapped' /\ overlap' = overlap
    BY <1>1, <1>2 DEF history
  <2> QED BY <2>1, <2>2, <2>3 DEF Overlaps, Share
<1> QED BY <1>4, <1>5, <1>6, <1>7, <1>8, <1>9 DEF IInv

(* The tail of a delete, of a server that no create is about.              *)
LEMMA Erases ==
  ASSUME IInv, NEW r \in Requests, NEW s \in Servers, NEW files \in BOOLEAN,
         Erase(s, files), req' = [req EXCEPT ![r] = Idle],
         \A q \in Requests : req[q].op = "create" => req[q].server # s,
         UNCHANGED <<containers, used, overlap>>,
         doomed \subseteq doomed', doomed' \subseteq Servers,
         company' \in {"never", "before", "now"} /\ lost' \subseteq Servers
  PROVE  IInv'
<1>1. /\ row' \in [Servers -> Row \cup {None}]
      /\ Live' = Live \ {s}
      /\ \A t \in Live' : row'[t] = row[t]
      /\ data_dirs \ {s} \subseteq data_dirs' /\ data_dirs' \subseteq data_dirs
      /\ bundles' \subseteq bundles
  BY DEF Erase, IInv, TypeOK, Live
<1>2. req'[r] = Idle /\ \A q \in Requests \ {r} : req'[q] = req[q]
  BY Update, IdleFacts DEF IInv
<1>3. TypeOK'
  BY <1>1, Update, IdleFacts DEF IInv, TypeOK
<1>4. Locals'
  <2>1. LocalsOf(Idle)'
    BY DEF LocalsOf, Idle, CreatePcs, PowerPcs, IdPcs
  <2> QED BY <1>1, <2>1, CarryLocals, IdleFacts DEF IInv, Locals
<1>5. Births'
  <2>1. \A q \in Requests : req[q].op = "create" => req[q].server \in Servers
    BY IdleFacts DEF IInv, TypeOK, Locals, LocalsOf
  <2> QED BY <1>1, <1>2, <2>1, IdleFacts, NoneFacts DEF IInv, Births
<1>6. Worlds'
  BY <1>1, <1>2, IdleFacts DEF IInv, Worlds, WorldKept
<1>7. IdsNeverCross'
  BY <1>1, CarryIds, IdleFacts
<1>8. Overlaps'
  <2>1. \A t \in Live' : t \in Live /\ row'[t] = row[t]
    BY <1>1
  <2>2. \A q \in Requests : req'[q].op = "create" => q # r /\ req'[q] = req[q]
    BY <1>2, IdleFacts
  <2>3. SharedPortsOverlapped'
    BY <2>1 DEF IInv, Overlaps, SharedPortsOverlapped
  <2>4. ASSUME NEW q \in Requests, NEW t \in Live',
               req'[q].op = "create", Share(req'[q].ports, row'[t].ports)
        PROVE  <<req'[q].server, t>> \in overlap /\ <<t, req'[q].server>> \in overlap
    BY <2>1, <2>2, <2>4 DEF IInv, Overlaps
  <2>5. \A p, q \in Requests :
          p # q /\ req'[p].op = "create" /\ req'[q].op = "create" =>
            <<req'[p].server, req'[q].server>> \in overlap
    BY <2>2 DEF IInv, Overlaps
  <2> QED BY <2>3, <2>4, <2>5 DEF Overlaps, Share
<1> QED BY <1>3, <1>4, <1>5, <1>6, <1>7, <1>8 DEF IInv

LEMMA DeleteFinishInv ==
  ASSUME IInv, NEW r \in Requests, DeleteFinish(r)
  PROVE  IInv'
<1>1. req[r].server \in Servers /\ req[r].op = "delete" /\ req[r].files \in BOOLEAN
  BY UnderWay DEF DeleteFinish, LocalsOf, Request
<1>2. \A q \in Requests : req[q].op = "create" => req[q].server # req[r].server
  BY <1>1 DEF IInv, Births
<1>3. /\ Erase(req[r].server, req[r].files) /\ req' = [req EXCEPT ![r] = Idle]
      /\ UNCHANGED <<containers, used, overlap>>
      /\ doomed \subseteq doomed' /\ doomed' \subseteq Servers
      /\ company' \in {"never", "before", "now"} /\ lost' \subseteq Servers
  BY DEF DeleteFinish, Finish, history, IInv, TypeOK
<1> QED BY <1>1, <1>2, <1>3, Erases

LEMMA DeleteBeginInv ==
  ASSUME IInv, NEW r \in Requests, DeleteBegin(r)
  PROVE  IInv'
<1>1. PICK s \in Live, files \in BOOLEAN :
        /\ doomed' = IF files THEN doomed \cup {s} ELSE doomed
        /\ \/ /\ req' = [req EXCEPT ![r] =
                         [pc |-> "removing", op |-> "delete", server |-> s,
                          cid |-> row[s].cid, config |-> row[s].config,
                          ports |-> row[s].ports, files |-> files]]
              /\ UNCHANGED <<row, data_dirs, bundles>>
           \/ Erase(s, files) /\ UNCHANGED req
  BY DEF DeleteBegin
<1>2. /\ s \in Servers /\ s \in used /\ row[s] \in Row
      /\ doomed \subseteq doomed' /\ doomed' \subseteq Servers
      /\ company' \in {"never", "before", "now"} /\ lost' \subseteq Servers
      /\ UNCHANGED <<containers, used, overlap>> /\ req[r] = Idle
  BY <1>1, LiveRow DEF DeleteBegin, Arrive, IInv, TypeOK, Locals
<1>3. CASE Erase(s, files) /\ UNCHANGED req
  <2>1. req' = [req EXCEPT ![r] = Idle]
    BY <1>2, <1>3 DEF IInv, TypeOK
  <2>2. \A q \in Requests : req[q].op = "create" => req[q].server # s
    BY DEF IInv, Births
  <2> QED BY <1>2, <1>3, <2>1, <2>2, Erases
<1>4. CASE /\ req' = [req EXCEPT ![r] =
                        [pc |-> "removing", op |-> "delete", server |-> s,
                         cid |-> row[s].cid, config |-> row[s].config,
                         ports |-> row[s].ports, files |-> files]]
           /\ UNCHANGED <<row, data_dirs, bundles>>
  <2>1. PICK v \in Request :
          /\ v = [pc |-> "removing", op |-> "delete", server |-> s,
                  cid |-> row[s].cid, config |-> row[s].config,
                  ports |-> row[s].ports, files |-> files]
          /\ req' = [req EXCEPT ![r] = v]
    BY <1>1, <1>2, <1>4 DEF Request, Pcs, Ops, Row
  <2>2. LocalsOf(v)'
    BY <1>1, <1>2, <2>1 DEF LocalsOf, CreatePcs, PowerPcs, IdPcs, Row
  <2>3. Live' = Live
    BY <1>4 DEF Live
  <2>4. /\ row' \in [Servers -> Row \cup {None}]
        /\ containers' \in [Ids -> Container \cup {None}]
    BY <1>2, <1>4 DEF IInv, TypeOK
  <2>5. v.op \notin {"none", "create"} /\ v.server = s /\ v.cid = row[s].cid
    BY <2>1
  <2>6. /\ \A t \in Live : row'[t].ports = row[t].ports /\ row'[t].cid = row[t].cid
        /\ UNCHANGED <<containers, data_dirs, bundles, used, overlap>>
    BY <1>2, <1>4
  <2>7. req' = [req EXCEPT ![r] = v]
    BY <2>1
  <2> QED BY <1>2, <2>2, <2>3, <2>4, <2>5, <2>6, <2>7, Move
<1> QED BY <1>1, <1>3, <1>4

LEMMA RegenerateClientInv ==
  ASSUME IInv, RegenerateClient
  PROVE  IInv'
<1>1. /\ UNCHANGED <<row, containers, data_dirs, req, history>>
      /\ bundles' \subseteq Servers /\ Live' = Live
  BY DEF RegenerateClient, build_bundle, IInv, TypeOK, Live
<1> QED BY <1>1 DEF IInv, TypeOK, Locals, LocalsOf, Births, Worlds, WorldKept, Overlaps,
             SharedPortsOverlapped, Share, IdsNeverCross, Exists, history

-----------------------------------------------------------------------------
(* A crash ends every handler; what is left to show is about the rows.     *)
LEMMA AllStop ==
  ASSUME IInv, req' = [r \in Requests |-> Idle],
         company' = "before", UNCHANGED <<containers, used, overlap, lost>>,
         row' \in [Servers -> Row \cup {None}], Live' \subseteq used,
         data_dirs' \subseteq Servers, bundles' \subseteq Servers, doomed' \subseteq Servers,
         WorldKept', SharedPortsOverlapped',
         \A s \in Live' : \/ s \in Live /\ row'[s].cid = row[s].cid
                          \/ \E q \in Requests : req[q].cid = row'[s].cid /\ req[q].server = s
  PROVE  IInv'
<1>1. TypeOK'
  BY IdleFacts DEF IInv, TypeOK
<1>2. Locals'
  BY DEF Locals, LocalsOf, Idle, CreatePcs, PowerPcs, IdPcs
<1>3. Births' /\ Worlds' /\ Overlaps'
  BY IdleFacts DEF Births, Worlds, Overlaps
<1>4. IdsNeverCross'
  BY IdleFacts, NoneFacts DEF IInv, IdsNeverCross, Exists
<1> QED BY <1>1, <1>2, <1>3, <1>4 DEF IInv

LEMMA CrashInv ==
  ASSUME IInv, Crash
  PROVE  IInv'
<1>1. /\ req' = [r \in Requests |-> Idle]
      /\ company' = "before" /\ UNCHANGED <<containers, used, overlap, lost>>
      /\ row \in [Servers -> Row \cup {None}] /\ data_dirs \subseteq Servers
      /\ bundles \subseteq Servers /\ doomed \subseteq Servers
      /\ Live \subseteq used /\ WorldKept /\ SharedPortsOverlapped
  BY DEF Crash, IInv, TypeOK, Locals, Worlds, Overlaps
<1>2. CASE UNCHANGED <<row, data_dirs, bundles, doomed>>
  <2>1. Live' = Live /\ WorldKept' /\ SharedPortsOverlapped'
    BY <1>1, <1>2 DEF Live, WorldKept, SharedPortsOverlapped
  <2> QED BY <1>1, <1>2, <2>1, AllStop
<1>3. ASSUME NEW s \in Servers, NEW files \in BOOLEAN, ErasedInPart(s, files)
      PROVE  IInv'
  <2>1. /\ row' = row /\ Live' = Live /\ SharedPortsOverlapped'
        /\ data_dirs' \subseteq Servers /\ bundles' \subseteq Servers
    BY <1>1, <1>3 DEF ErasedInPart, Live, SharedPortsOverlapped
  <2>2. /\ doomed' \subseteq Servers /\ doomed \subseteq doomed'
        /\ \A t \in data_dirs : t \in data_dirs' \/ t \in doomed'
    BY <1>1, <1>3 DEF ErasedInPart
  <2>3. WorldKept'
    BY <1>1, <2>1, <2>2 DEF WorldKept
  <2> QED BY <1>1, <2>1, <2>2, <2>3, AllStop
<1>4. ASSUME NEW r \in Requests, RebuiltInPart(r)
      PROVE  IInv'
  <2> DEFINE s == req[r].server
             w == [row[s] EXCEPT !.cid = req[r].cid]
  <2>1. s \in Live /\ req[r].cid \in Ids /\ UNCHANGED <<data_dirs, bundles, doomed>>
    BY <1>4 DEF RebuiltInPart, IInv, Locals, LocalsOf, IdPcs
  <2>2. /\ w \in Row /\ w.ports = row[s].ports /\ w.cid = req[r].cid
        /\ row' = [row EXCEPT ![s] = w]
    BY <1>4, <2>1, LiveRow DEF RebuiltInPart, IInv, Row
  <2> HIDE DEF w
  <2>3. /\ row' \in [Servers -> Row \cup {None}]
        /\ Live' = Live
        /\ \A t \in Live : row'[t].ports = row[t].ports
        /\ \A t \in Live : t # s => row'[t].cid = row[t].cid
        /\ row'[s].cid = req[r].cid
    BY <2>1, <2>2, RowUpdate DEF IInv
  <2>4. WorldKept' /\ SharedPortsOverlapped'
    BY <1>1, <2>1, <2>3 DEF WorldKept, SharedPortsOverlapped
  <2> QED BY <1>1, <2>1, <2>3, <2>4, AllStop
<1>5. ASSUME NEW r \in Requests, InsertedInPart(r)
      PROVE  IInv'
  <2>1. /\ row' \in [Servers -> Row \cup {None}]
        /\ Live' = Live \cup {req[r].server}
        /\ req[r].server \in used \cap Servers
        /\ row'[req[r].server].cid = req[r].cid
        /\ \A t \in Live : row'[t] = row[t]
        /\ WorldKept' /\ SharedPortsOverlapped'
    BY <1>1, <1>5, Inserts DEF InsertedInPart
  <2> QED BY <1>1, <1>5, <2>1, AllStop DEF InsertedInPart
<1> QED BY <1>2, <1>3, <1>4, <1>5 DEF Crash

-----------------------------------------------------------------------------
LEMMA InitIInv == Init => IInv
<1> SUFFICES ASSUME Init PROVE IInv
  OBVIOUS
<1>1. Live = {}
  BY DEF Init, Live
<1>2. TypeOK
  BY IdleFacts DEF Init, TypeOK
<1>3. Locals
  BY <1>1 DEF Init, Locals, LocalsOf, Idle, CreatePcs, PowerPcs, IdPcs
<1>4. Births /\ Worlds /\ Overlaps /\ IdsNeverCross
  BY <1>1, IdleFacts, NoneFacts DEF Init, Births, Worlds, WorldKept, Overlaps,
     SharedPortsOverlapped, IdsNeverCross, Exists
<1> QED BY <1>2, <1>3, <1>4 DEF IInv

LEMMA ProgressIInv ==
  ASSUME IInv, NEW r \in Requests, Progress(r)
  PROVE  IInv'
BY InstallWritesInv, InstallSucceedsInv, BridgeInstalledInv, InstallFailsInv,
   QuietEndsInv, InsertInv, DockerReplacesInv, DockerCreatesInv, RebuildHaltedInv,
   DockerRemovesInv, RebuiltInv, PowerInv, PowerDoneInv, DeleteFinishInv,
   CreateFailsLateInv, RemoveFailsLateInv DEF Progress

LEMMA BeginIInv ==
  ASSUME IInv, NEW r \in Requests, Begin(r)
  PROVE  IInv'
<1>1. CASE StartBegin(r)
  BY <1>1, PowerBeginInv DEF StartBegin
<1>2. CASE StopBegin(r)
  BY <1>2, PowerBeginInv DEF StopBegin
<1> QED BY <1>1, <1>2, CreateBeginInv, ConfigBeginInv, RecreateBeginInv, DeleteBeginInv,
           RestartBeginInv DEF Begin

LEMMA NextIInv == IInv /\ [Next]_vars => IInv'
<1> SUFFICES ASSUME IInv, [Next]_vars PROVE IInv'
  OBVIOUS
<1>1. CASE UNCHANGED vars
  <2>1. /\ UNCHANGED <<row, containers, data_dirs, bundles, req, history>>
        /\ Live' = Live
    BY <1>1 DEF vars, Live
  <2> QED BY <2>1 DEF IInv, TypeOK, Locals, LocalsOf, Births, Worlds, WorldKept, Overlaps,
             SharedPortsOverlapped, Share, IdsNeverCross, Exists, history
<1>2. CASE Next
  BY <1>2, ProgressIInv, BeginIInv, RegenerateClientInv, CrashInv DEF Next
<1> QED BY <1>1, <1>2

LEMMA Invariance == Spec => []IInv
BY InitIInv, NextIInv, PTL DEF Spec

-----------------------------------------------------------------------------
(* Of requests that came one at a time.  As long as the last one has had   *)
(* no other beside it, its handler is the only one, and what it read of    *)
(* its server's row is still so (Alone); and if that was so from the       *)
(* start, a container is its server's own (Claims).                        *)
Settled(v) ==
  /\ v.op # "create" =>
       v.server \in Live /\ (v.pc # "built" => row[v.server].cid = v.cid)
  /\ v.op = "rebuild" => row[v.server].config = v.config
  /\ v.pc = "removed" => ~ Exists(v.cid)
  /\ v.pc = "built" => Named(v.server) = {v.cid} /\ containers[v.cid].config = v.config

Alone ==
  company # "now" =>
    \A r \in Requests : req[r] # Idle =>
      Settled(req[r]) /\ \A q \in Requests \ {r} : req[q] = Idle

Claimed(c, s) ==
  \/ s \in Live /\ row[s].cid = c
  \/ \E r \in Requests : req[r].pc = "built" /\ req[r].server = s /\ req[r].cid = c
  \/ s \in lost /\ ~ containers[c].up

Claims ==
  company = "never" => \A c \in Ids : Exists(c) => Claimed(c, containers[c].server)

Tidy == Alone /\ Claims

(* docker makes no container, starts none that no row names, and a server  *)
(* that lost one is only forgotten with its containers.                    *)
OnlyRowsStart ==
  /\ \A c \in Ids : containers'[c] # None =>
       /\ containers[c] # None /\ containers'[c].server = containers[c].server
       /\ company = "never" /\ containers'[c].up =>
            \/ containers[c].up
            \/ containers[c].server \in Live /\ row[containers[c].server].cid = c
  /\ \A s \in lost \ lost', c \in Ids :
       containers'[c] # None => containers'[c].server # s

LEMMA Slots ==
  ASSUME IInv, NEW r \in Requests
  PROVE  /\ req[r] \in Request /\ LocalsOf(req[r])
         /\ req[r] = Idle <=> req[r].pc = "idle"
BY IdleFacts DEF IInv, TypeOK, Locals, LocalsOf

(* A request that arrives while another is there has company.              *)
LEMMA Arrivals ==
  ASSUME IInv, NEW r \in Requests, Arrive(r)
  PROVE  /\ req[r] = Idle
         /\ company' # "now" => \A q \in Requests : req[q] = Idle
         /\ company' = "never" => company = "never"
BY DEF Arrive, AtRest, IInv, TypeOK

LEMMA AloneBegins ==
  ASSUME IInv, NEW r \in Requests, Arrive(r), NEW v,
         req' = [req EXCEPT ![r] = v],
         v # Idle => Settled(v)'
  PROVE  Alone'
<1>1. req'[r] = v /\ \A q \in Requests \ {r} : req'[q] = req[q]
  BY DEF IInv, TypeOK
<1>2. SUFFICES ASSUME company' # "now", NEW q \in Requests, req'[q] # Idle
               PROVE  Settled(req[q])' /\ \A p \in Requests \ {q} : req'[p] = Idle
  BY DEF Alone
<1>3. q = r
  BY <1>1, <1>2, Arrivals
<1>4. Settled(req[q])'
  BY <1>1, <1>2, <1>3 DEF Settled
<1>5. QED
  BY <1>1, <1>2, <1>3, <1>4, Arrivals

LEMMA AloneGoesOn ==
  ASSUME IInv, Alone, NEW r \in Requests, req[r] # Idle, NEW v,
         req' = [req EXCEPT ![r] = v], company' = company,
         company # "now" /\ v # Idle => Settled(v)'
  PROVE  Alone'
<1>1. req'[r] = v /\ \A q \in Requests \ {r} : req'[q] = req[q]
  BY DEF IInv, TypeOK
<1>2. SUFFICES ASSUME company # "now", NEW q \in Requests, req'[q] # Idle
               PROVE  Settled(req[q])' /\ \A p \in Requests \ {q} : req'[p] = Idle
  BY DEF Alone
<1>3. q = r
  BY <1>1, <1>2 DEF Alone
<1>4. Settled(req[q])'
  BY <1>1, <1>2, <1>3 DEF Settled
<1>5. QED
  BY <1>1, <1>2, <1>3, <1>4 DEF Alone

(* Claims outlive a step that makes no container, takes no id out of a row *)
(* and leaves alone who is about to write one.                             *)
LEMMA ClaimsStay ==
  ASSUME IInv, Claims, company' = "never" => company = "never",
         \A s \in Live : s \in Live' /\ row'[s].cid = row[s].cid,
         OnlyRowsStart,
         \A q \in Requests : req[q].pc = "built" => req'[q] = req[q]
  PROVE  Claims'
<1>1. SUFFICES ASSUME company' = "never", NEW c \in Ids, containers'[c] # None
               PROVE  Claimed(c, containers[c].server)'
  BY DEF Claims, Exists
<1>2. PICK s : s = containers[c].server /\ s = containers'[c].server
  BY <1>1 DEF OnlyRowsStart
<1>3. Claimed(c, s)
  BY <1>1, <1>2 DEF Claims, Exists, OnlyRowsStart
<1>4. CASE s \in Live /\ row[s].cid = c
  BY <1>2, <1>4 DEF Claimed
<1>5. CASE \E q \in Requests : req[q].pc = "built" /\ req[q].server = s /\ req[q].cid = c
  BY <1>2, <1>5 DEF Claimed
<1>6. CASE s \in lost /\ ~ containers[c].up
  <2>1. CASE containers'[c].up
    BY <1>1, <1>2, <1>4, <2>1, <1>6 DEF OnlyRowsStart
  <2>2. CASE ~ containers'[c].up
    BY <1>1, <1>2, <1>6, <2>2 DEF OnlyRowsStart, Claimed
  <2>3. QED
    BY <2>1, <2>2
<1>7. QED
  BY <1>3, <1>4, <1>5, <1>6 DEF Claimed

(* A step of one handler that is not about to write an id.                 *)
LEMMA ClaimsOfOthers ==
  ASSUME IInv, Claims, NEW r \in Requests, req[r].pc # "built", NEW v,
         req' = [req EXCEPT ![r] = v], company' = "never" => company = "never",
         \A s \in Live : s \in Live' /\ row'[s].cid = row[s].cid,
         OnlyRowsStart
  PROVE  Claims'
<1>1. \A q \in Requests : req[q].pc = "built" => req'[q] = req[q]
  BY DEF IInv, TypeOK
<1>2. QED
  BY <1>1, ClaimsStay

LEMMA TidyUntouched ==
  ASSUME Tidy, UNCHANGED <<row, containers, req, company, lost>>
  PROVE  Tidy'
<1>1. Live' = Live
  BY DEF Live
<1>2. \A v : Settled(v)' <=> Settled(v)
  BY <1>1 DEF Settled, Exists, Named
<1>3. Alone'
  BY <1>2 DEF Tidy, Alone
<1>4. \A c, s : Claimed(c, s) => Claimed(c, s)'
  BY <1>1 DEF Claimed
<1>5. Claims'
  BY <1>4 DEF Tidy, Claims, Exists
<1>6. QED
  BY <1>3, <1>5 DEF Tidy

(* A request that begins by reading a server that is in the table.         *)
LEMMA TidyReads ==
  ASSUME IInv, Tidy, NEW r \in Requests, Arrive(r), NEW v, NEW s \in Live,
         req' = [req EXCEPT ![r] = v],
         v.server = s, v.cid = row[s].cid, v.pc \notin {"built", "removed"},
         Live' = Live, \A t \in Live : row'[t].cid = row[t].cid,
         v.op = "rebuild" => row'[s].config = v.config,
         UNCHANGED <<containers, lost>>
  PROVE  Tidy'
<1>1. Settled(v)'
  BY DEF Settled
<1>2. Alone'
  BY <1>1, AloneBegins
<1>3. req[r].pc # "built"
  BY Arrivals, IdleFacts
<1>4. Claims'
  BY <1>3, Arrivals, ClaimsOfOthers DEF Tidy, OnlyRowsStart
<1>5. QED
  BY <1>2, <1>4 DEF Tidy

(* A handler that goes on to its next await, and writes no row.            *)
LEMMA TidyGoesOn ==
  ASSUME IInv, Tidy, NEW r \in Requests, req[r].pc \notin {"idle", "built"}, NEW v,
         req' = [req EXCEPT ![r] = v],
         v.op = req[r].op, v.server = req[r].server, v.cid = req[r].cid,
         v.config = req[r].config, v.pc # "built",
         v.pc = "removed" => ~ Exists(req[r].cid)',
         UNCHANGED <<row, company>>,
         OnlyRowsStart
  PROVE  Tidy'
<1>1. Live' = Live /\ req[r] # Idle
  BY IdleFacts DEF Live
<1>2. ASSUME company # "now" PROVE Settled(v)'
  <2>1. Settled(req[r])
    BY <1>1, <1>2 DEF Tidy, Alone
  <2>2. v.op # "create" => v.server \in Live' /\ row'[v.server].cid = v.cid
    BY <1>1, <2>1 DEF Settled
  <2>3. v.op = "rebuild" => row'[v.server].config = v.config
    BY <2>1 DEF Settled
  <2>4. v.pc = "removed" => ~ Exists(v.cid)'
    BY DEF Exists
  <2>5. QED
    BY <2>2, <2>3, <2>4 DEF Settled
<1>3. Alone'
  BY <1>1, <1>2, AloneGoesOn DEF Tidy
<1>4. Claims'
  BY <1>1, ClaimsOfOthers DEF Tidy
<1>5. QED
  BY <1>3, <1>4 DEF Tidy

(* A handler that ends without an id to write.                             *)
LEMMA TidyEnds ==
  ASSUME IInv, Tidy, NEW r \in Requests, req[r].pc \notin {"idle", "built"},
         Finish(r), company' = company,
         Live' = Live, \A s \in Live : row'[s].cid = row[s].cid,
         OnlyRowsStart
  PROVE  Tidy'
<1>1. req[r] # Idle /\ req' = [req EXCEPT ![r] = Idle]
  BY IdleFacts DEF Finish
<1>2. Alone'
  BY <1>1, AloneGoesOn DEF Tidy
<1>3. Claims'
  BY <1>1, ClaimsOfOthers DEF Tidy
<1>4. QED
  BY <1>2, <1>3 DEF Tidy

LEMMA GotoTidy ==
  ASSUME IInv, Tidy, NEW r \in Requests, req[r].pc \notin {"idle", "built"},
         NEW pc \in Pcs \ {"built"}, Goto(r, pc),
         pc = "removed" => ~ Exists(req[r].cid)',
         UNCHANGED <<row, company>>,
         OnlyRowsStart
  PROVE  Tidy'
<1> DEFINE v == [req[r] EXCEPT !.pc = pc]
<1>1. /\ req' = [req EXCEPT ![r] = v]
      /\ v.pc = pc /\ v.op = req[r].op /\ v.server = req[r].server
      /\ v.cid = req[r].cid /\ v.config = req[r].config
  BY GotoFacts
<1> HIDE DEF v
<1>2. QED
  BY <1>1, TidyGoesOn

LEMMA InstallTidy ==
  ASSUME IInv, Tidy, NEW r \in Requests, InstallSucceeds(r) \/ BridgeInstalled(r)
  PROVE  Tidy'
<1>1. /\ req[r].pc \in CreatePcs /\ req[r] \in Request
      /\ UNCHANGED <<row, containers, company>> /\ Live' = Live /\ OnlyRowsStart
      /\ Goto(r, "bridging") \/ PickRcon(r)
  BY Slots DEF InstallSucceeds, BridgeInstalled, CreatePcs, history, Live, OnlyRowsStart
<1>2. ASSUME NEW pc \in {"bridging", "replacing"}, Goto(r, pc)
      PROVE  Tidy'
  BY <1>1, <1>2, GotoTidy DEF CreatePcs, Pcs
<1>3. CASE Finish(r)
  BY <1>1, <1>3, TidyEnds DEF CreatePcs
<1>4. ASSUME NEW p \in RconPorts,
             req' = [req EXCEPT ![r].pc = "replacing", ![r].ports.rcon = p]
      PROVE  Tidy'
  <2> DEFINE v == [req[r] EXCEPT !.pc = "replacing", !.ports = [req[r].ports EXCEPT !.rcon = p]]
  <2>1. /\ req' = [req EXCEPT ![r] = v]
        /\ v.pc = "replacing" /\ v.op = req[r].op /\ v.server = req[r].server
        /\ v.cid = req[r].cid /\ v.config = req[r].config
    BY <1>1, <1>4 DEF Request, IInv, TypeOK
  <2> HIDE DEF v
  <2>2. QED
    BY <1>1, <2>1, TidyGoesOn DEF CreatePcs
<1>5. QED
  BY <1>1, <1>2, <1>3, <1>4 DEF PickRcon

LEMMA QuietTidy ==
  ASSUME IInv, Tidy, NEW r \in Requests,
         InstallFails(r) \/ InstallAborts(r) \/ DockerFails(r)
  PROVE  Tidy'
<1>1. /\ req[r].pc \notin {"idle", "built"} /\ Finish(r)
      /\ UNCHANGED <<row, containers, company>> /\ Live' = Live /\ OnlyRowsStart
  BY DEF InstallFails, InstallAborts, DockerFails, history, Live, OnlyRowsStart
<1>2. QED
  BY <1>1, TidyEnds

LEMMA DockerReplacesTidy ==
  ASSUME IInv, Tidy, NEW r \in Requests, DockerReplaces(r)
  PROVE  Tidy'
<1>1. OnlyRowsStart
  BY DEF DockerReplaces, OnlyRowsStart, Named, Exists
<1>2. QED
  BY <1>1, GotoTidy DEF DockerReplaces, Pcs, history

LEMMA StoppedIsDown ==
  ASSUME TypeOK, NEW c \in Ids, Exists(c),
         containers' = [containers EXCEPT ![c].up = FALSE]
  PROVE  \A d \in Ids : containers'[d] # None /\ containers'[d].up => containers[d].up
<1>1. containers \in [Ids -> Container \cup {None}] /\ containers[c] \in Container
  BY DEF TypeOK, Exists
<1>2. [containers[c] EXCEPT !.up = FALSE].up = FALSE
  BY <1>1 DEF Container
<1>3. QED
  BY <1>1, <1>2 DEF Exists

LEMMA RebuildHaltedTidy ==
  ASSUME IInv, Tidy, NEW r \in Requests, RebuildHalted(r)
  PROVE  Tidy'
<1>1. req[r].cid \in Ids
  BY DEF RebuildHalted, IInv, Locals, LocalsOf, IdPcs
<1>2. OnlyRowsStart
  <2>1. CASE UNCHANGED containers
    BY <2>1 DEF RebuildHalted, history, OnlyRowsStart
  <2>2. CASE Exists(req[r].cid) /\ containers' = [containers EXCEPT ![req[r].cid].up = FALSE]
    <3>1. \A d \in Ids : containers'[d] # None =>
            containers[d] # None /\ containers'[d].server = containers[d].server
      BY <1>1, <2>2, UpFlag DEF IInv
    <3>2. \A d \in Ids : containers'[d] # None /\ containers'[d].up => containers[d].up
      BY <1>1, <2>2, StoppedIsDown DEF IInv
    <3>3. QED
      BY <3>1, <3>2 DEF RebuildHalted, history, OnlyRowsStart
  <2>3. QED
    BY <2>1, <2>2 DEF RebuildHalted
<1>3. PICK pc \in {"removing", "replacing"} : Goto(r, pc)
  BY DEF RebuildHalted, RebuildFrom
<1>4. QED
  BY <1>2, <1>3, GotoTidy DEF RebuildHalted, Pcs, history

LEMMA DockerRemovesTidy ==
  ASSUME IInv, Tidy, NEW r \in Requests, DockerRemoves(r)
  PROVE  Tidy'
<1>1. OnlyRowsStart
  BY DEF DockerRemoves, history, IInv, TypeOK, OnlyRowsStart
<1>2. ~ Exists(req[r].cid)'
  <2>1. PICK c : c = req[r].cid
    OBVIOUS
  <2>2. c \in Ids => containers'[c] = None
    BY <2>1 DEF DockerRemoves, IInv, TypeOK
  <2>3. req'[r].cid = c
    BY <2>1, Slots DEF DockerRemoves, Goto, IInv, TypeOK, Request
  <2>4. QED
    BY <2>2, <2>3 DEF Exists
<1>3. PICK pc \in {"removed", "replacing"} : Goto(r, pc)
  BY DEF DockerRemoves
<1>4. QED
  BY <1>1, <1>2, <1>3, GotoTidy DEF DockerRemoves, Pcs, history

LEMMA PowerTidy ==
  ASSUME IInv, Tidy, NEW r \in Requests,
         DockerStarts(r) \/ DockerStops(r) \/ DockerRestarts(r) \/ DockerHalfRestarts(r)
         \/ StartFailsLate(r) \/ StopFailsLate(r)
  PROVE  Tidy'
<1>1. /\ req[r].pc \in {"starting", "stopping", "restarting"} /\ Exists(req[r].cid)
      /\ UNCHANGED <<row, company>> /\ Live' = Live
  BY DEF DockerStarts, DockerStops, DockerRestarts, DockerHalfRestarts,
     StartFailsLate, StopFailsLate, Power, history, Live
<1>2. PICK on \in BOOLEAN : containers' = [containers EXCEPT ![req[r].cid].up = on]
  BY DEF DockerStarts, DockerStops, DockerRestarts, DockerHalfRestarts,
     StartFailsLate, StopFailsLate, Power
<1>3. OnlyRowsStart
  <2>1. \A d \in Ids : containers'[d] # None =>
          containers[d] # None /\ containers'[d].server = containers[d].server
    BY <1>1, <1>2, UpFlag DEF IInv, Exists
  <2>2. \A d \in Ids : d # req[r].cid => containers'[d] = containers[d]
    BY <1>1, <1>2 DEF IInv, TypeOK
  <2>3. ASSUME company = "never"
        PROVE  /\ containers[req[r].cid].server = req[r].server
               /\ req[r].server \in Live /\ row[req[r].server].cid = req[r].cid
    <3>1. Settled(req[r]) /\ LocalsOf(req[r])
      BY <1>1, <2>3, IdleFacts, UnderWay DEF Tidy, Alone
    <3>2. QED
      BY <1>1, <3>1 DEF Settled, LocalsOf, PowerPcs, IInv, IdsNeverCross
  <2>4. lost' = lost
    BY DEF DockerStarts, DockerStops, DockerRestarts, DockerHalfRestarts,
     StartFailsLate, StopFailsLate, Power, history
  <2>5. QED
    BY <2>1, <2>2, <2>3, <2>4 DEF OnlyRowsStart
<1>4. CASE \E pc \in {"started", "stopped"} : Goto(r, pc)
  BY <1>1, <1>3, <1>4, GotoTidy DEF Pcs
<1>5. CASE Finish(r)
  BY <1>1, <1>3, <1>5, TidyEnds
<1>6. QED
  BY <1>4, <1>5 DEF DockerStarts, DockerStops, DockerRestarts, DockerHalfRestarts,
     StartFailsLate, StopFailsLate, Power

LEMMA PowerDoneTidy ==
  ASSUME IInv, Tidy, NEW r \in Requests, PowerDone(r)
  PROVE  Tidy'
<1>1. Live' = Live /\ \A s \in Live : row'[s].cid = row[s].cid
  BY PowerDoneRow
<1>2. OnlyRowsStart
  BY DEF PowerDone, history, OnlyRowsStart
<1>3. QED
  BY <1>1, <1>2, TidyEnds DEF PowerDone, history

(* A request that begins. *)
LEMMA CreateBeginTidy ==
  ASSUME IInv, Tidy, NEW r \in Requests, CreateBegin(r)
  PROVE  Tidy'
<1>1. PICK v : req' = [req EXCEPT ![r] = v] /\ v.op = "create" /\ v.pc = "installing"
  <2>1. PICK s \in Servers, in \in CreateInputs, m \in Configs :
          req' = [req EXCEPT ![r] =
                    [pc |-> "installing", op |-> "create", server |-> s, cid |-> None,
                     config |-> m, files |-> FALSE,
                     ports |-> [family |-> in.family, port |-> in.port,
                                bridge |-> in.bridge, rcon |-> None]]]
    BY DEF CreateBegin
  <2> DEFINE n == [pc |-> "installing", op |-> "create", server |-> s, cid |-> None,
                   config |-> m, files |-> FALSE,
                   ports |-> [family |-> in.family, port |-> in.port,
                              bridge |-> in.bridge, rcon |-> None]]
  <2>2. req' = [req EXCEPT ![r] = n] /\ n.op = "create" /\ n.pc = "installing"
    BY <2>1
  <2> HIDE DEF n
  <2>3. QED
    BY <2>2
<1>2. Arrive(r) /\ Live' = Live /\ UNCHANGED <<row, containers, lost>>
  BY DEF CreateBegin, Live
<1>3. Settled(v)'
  BY <1>1 DEF Settled
<1>4. Alone'
  BY <1>1, <1>2, <1>3, AloneBegins
<1>5. req[r].pc # "built"
  BY <1>2, Arrivals, IdleFacts
<1>6. Claims'
  BY <1>1, <1>2, <1>5, Arrivals, ClaimsOfOthers DEF Tidy, OnlyRowsStart
<1>7. QED
  BY <1>4, <1>6 DEF Tidy

LEMMA ConfigBeginTidy ==
  ASSUME IInv, Tidy, NEW r \in Requests, ConfigBegin(r)
  PROVE  Tidy'
<1>1. PICK s \in Live, m \in Configs :
        /\ row' = [row EXCEPT ![s].config = m]
        /\ Read(r, s, "rebuild", RebuildFrom(row[s].cid, "halting"), m)
  BY DEF ConfigBegin
<1> DEFINE w == [row[s] EXCEPT !.config = m]
<1>2. /\ w \in Row /\ row' = [row EXCEPT ![s] = w] /\ w.ports = row[s].ports
      /\ w.cid = row[s].cid /\ w.config = m
  BY <1>1, LiveRow DEF IInv, Row
<1> HIDE DEF w
<1>3. TypeOK /\ s \in Servers /\ row \in [Servers -> Row \cup {None}]
  BY DEF IInv, TypeOK, Live
<1>4. /\ Live' = Live
      /\ \A t \in Live : t # s => row'[t].cid = row[t].cid
      /\ row'[s].cid = w.cid
  BY <1>2, <1>3, RowUpdate
<1>5. row'[s].config = m
  BY <1>2, <1>3
<1>6. PICK v : /\ req' = [req EXCEPT ![r] = v] /\ v.server = s /\ v.cid = row[s].cid
               /\ v.config = m /\ v.pc \in {"halting", "replacing"}
  <2> DEFINE n == [pc |-> RebuildFrom(row[s].cid, "halting"), op |-> "rebuild",
                   server |-> s, cid |-> row[s].cid,
                   config |-> m, ports |-> row[s].ports, files |-> FALSE]
  <2>1. /\ req' = [req EXCEPT ![r] = n] /\ n.server = s /\ n.cid = row[s].cid
        /\ n.config = m /\ n.pc \in {"halting", "replacing"}
    BY <1>1 DEF Read, RebuildFrom
  <2> HIDE DEF n
  <2>2. QED
    BY <2>1
<1>7. Arrive(r) /\ UNCHANGED <<containers, lost>>
  BY DEF ConfigBegin
<1>8. \A t \in Live : row'[t].cid = row[t].cid
  BY <1>2, <1>4
<1>9. QED
  BY <1>4, <1>5, <1>6, <1>7, <1>8, TidyReads

LEMMA ReadTidy ==
  ASSUME IInv, Tidy, NEW r \in Requests, RecreateBegin(r) \/ RestartBegin(r)
  PROVE  Tidy'
<1>1. PICK s \in Live :
        \/ Read(r, s, "rebuild", RebuildFrom(row[s].cid, "halting"), row[s].config)
        \/ Read(r, s, "restart", "restarting", row[s].config)
  BY DEF RecreateBegin, RestartBegin
<1>2. PICK v : /\ req' = [req EXCEPT ![r] = v] /\ v.server = s /\ v.cid = row[s].cid
               /\ v.config = row[s].config /\ v.pc \in {"halting", "replacing", "restarting"}
  <2>1. PICK pc \in {"halting", "replacing", "restarting"}, op \in {"rebuild", "restart"} :
          Read(r, s, op, pc, row[s].config)
    BY <1>1 DEF RebuildFrom
  <2> DEFINE n == [pc |-> pc, op |-> op, server |-> s, cid |-> row[s].cid,
                   config |-> row[s].config, ports |-> row[s].ports, files |-> FALSE]
  <2>2. /\ req' = [req EXCEPT ![r] = n] /\ n.server = s /\ n.cid = row[s].cid
        /\ n.config = row[s].config /\ n.pc \in {"halting", "replacing", "restarting"}
    BY <2>1 DEF Read
  <2> HIDE DEF n
  <2>3. QED
    BY <2>2
<1>3. Arrive(r) /\ UNCHANGED <<row, containers, lost>> /\ Live' = Live
  BY DEF RecreateBegin, RestartBegin, Live
<1>4. QED
  BY <1>2, <1>3, TidyReads

(* A request that finds nothing to wait for: its slot stays idle.          *)
LEMMA TidyPasses ==
  ASSUME IInv, Tidy, NEW r \in Requests, Arrive(r), UNCHANGED <<req, containers, lost>>,
         Live' = Live, \A t \in Live : row'[t].cid = row[t].cid
  PROVE  Tidy'
<1>1. req' = [req EXCEPT ![r] = Idle] /\ req[r].pc # "built"
  BY Arrivals, IdleFacts DEF IInv, TypeOK
<1>2. Alone'
  BY <1>1, AloneBegins
<1>3. Claims'
  BY <1>1, Arrivals, ClaimsOfOthers DEF Tidy, OnlyRowsStart
<1>4. QED
  BY <1>2, <1>3 DEF Tidy

LEMMA PowerBeginTidy ==
  ASSUME IInv, Tidy, NEW r \in Requests,
         NEW op \in {"start", "stop"}, NEW status \in {"starting", "stopping"},
         NEW pc \in {"starting", "stopping"}, PowerBegin(r, op, status, pc)
  PROVE  Tidy'
<1>1. PICK s \in Live :
        /\ row' = [row EXCEPT ![s].status = status]
        /\ \/ Read(r, s, op, pc, row[s].config)
           \/ UNCHANGED req
  BY DEF PowerBegin
<1> DEFINE w == [row[s] EXCEPT !.status = status]
<1>2. /\ w \in Row /\ row' = [row EXCEPT ![s] = w] /\ w.ports = row[s].ports
      /\ w.cid = row[s].cid
  BY <1>1, LiveRow DEF IInv, Row, Statuses
<1> HIDE DEF w
<1>3. TypeOK
  BY DEF IInv
<1>4. /\ Live' = Live
      /\ \A t \in Live : t # s => row'[t].cid = row[t].cid
      /\ row'[s].cid = w.cid
  BY <1>2, <1>3, RowUpdate
<1>5. Live' = Live /\ \A t \in Live : row'[t].cid = row[t].cid
  BY <1>2, <1>4
<1>6. Arrive(r) /\ UNCHANGED <<containers, lost>>
  BY DEF PowerBegin
<1>7. CASE Read(r, s, op, pc, row[s].config)
  <2>1. PICK v : /\ req' = [req EXCEPT ![r] = v] /\ v.server = s /\ v.cid = row[s].cid
                 /\ v.op \in {"start", "stop"} /\ v.pc \in {"starting", "stopping"}
    <3> DEFINE n == [pc |-> pc, op |-> op, server |-> s, cid |-> row[s].cid,
                     config |-> row[s].config, ports |-> row[s].ports, files |-> FALSE]
    <3>1. /\ req' = [req EXCEPT ![r] = n] /\ n.server = s /\ n.cid = row[s].cid
          /\ n.op \in {"start", "stop"} /\ n.pc \in {"starting", "stopping"}
      BY <1>7 DEF Read
    <3> HIDE DEF n
    <3>2. QED
      BY <3>1
  <2>2. QED
    BY <1>5, <1>6, <2>1, TidyReads
<1>8. CASE UNCHANGED req
  BY <1>5, <1>6, <1>8, TidyPasses
<1>9. QED
  BY <1>1, <1>7, <1>8

(* A row that is erased takes no container's claim with it.                *)
LEMMA ClaimsOutliveErase ==
  ASSUME IInv, Claims, NEW s \in Servers, NEW files \in BOOLEAN, Erase(s, files),
         UNCHANGED <<containers, lost>>,
         company' = "never" =>
           /\ company = "never"
           /\ \A q \in Requests : req[q].pc # "built"
           /\ s \in Live => ~ Exists(row[s].cid)
  PROVE  Claims'
<1>1. SUFFICES ASSUME company' = "never", NEW c \in Ids, containers'[c] # None
               PROVE  Claimed(c, containers[c].server)'
  BY DEF Claims, Exists
<1>2. PICK t : t = containers[c].server /\ t = containers'[c].server
  OBVIOUS
<1>3. Claimed(c, t)
  BY <1>1, <1>2 DEF Claims, Exists
<1>4. CASE t \in lost /\ ~ containers[c].up
  BY <1>2, <1>4 DEF Claimed
<1>5. CASE t \in Live /\ row[t].cid = c
  <2>1. t # s
    BY <1>1, <1>5 DEF Exists
  <2>2. row' = [row EXCEPT ![s] = None] /\ row \in [Servers -> Row \cup {None}]
    BY DEF Erase, IInv, TypeOK
  <2>3. t \in Live' /\ row'[t].cid = c
    BY <1>5, <2>1, <2>2 DEF Live
  <2>4. QED
    BY <1>2, <2>3 DEF Claimed
<1>6. QED
  BY <1>1, <1>3, <1>4, <1>5 DEF Claimed

LEMMA DeleteBeginTidy ==
  ASSUME IInv, Tidy, NEW r \in Requests, DeleteBegin(r)
  PROVE  Tidy'
<1>1. PICK s \in Live, files \in BOOLEAN :
        \/ /\ req' = [req EXCEPT ![r] =
                        [pc |-> "removing", op |-> "delete", server |-> s,
                         cid |-> row[s].cid, config |-> row[s].config,
                         ports |-> row[s].ports, files |-> files]]
           /\ UNCHANGED row
        \/ ~ Exists(row[s].cid) /\ Erase(s, files) /\ UNCHANGED req
  BY DEF DeleteBegin
<1>2. Arrive(r) /\ UNCHANGED <<containers, lost>> /\ s \in Servers
  BY DEF DeleteBegin, Live
<1>3. CASE ~ Exists(row[s].cid) /\ Erase(s, files) /\ UNCHANGED req
  <2>1. req' = [req EXCEPT ![r] = Idle]
    BY <1>2, <1>3, Arrivals DEF IInv, TypeOK
  <2>2. Alone'
    BY <1>2, <2>1, AloneBegins
  <2>3. company' = "never" =>
          company = "never" /\ \A q \in Requests : req[q].pc # "built"
    BY <1>2, Arrivals, IdleFacts
  <2>4. Claims'
    BY <1>2, <1>3, <2>3, ClaimsOutliveErase DEF Tidy
  <2>5. QED
    BY <2>2, <2>4 DEF Tidy
<1>4. CASE /\ req' = [req EXCEPT ![r] =
                        [pc |-> "removing", op |-> "delete", server |-> s,
                         cid |-> row[s].cid, config |-> row[s].config,
                         ports |-> row[s].ports, files |-> files]]
           /\ UNCHANGED row
  <2>1. PICK v : /\ req' = [req EXCEPT ![r] = v] /\ v.server = s /\ v.cid = row[s].cid
                 /\ v.op = "delete" /\ v.pc = "removing"
    <3> DEFINE n == [pc |-> "removing", op |-> "delete", server |-> s,
                     cid |-> row[s].cid, config |-> row[s].config,
                     ports |-> row[s].ports, files |-> files]
    <3>1. /\ req' = [req EXCEPT ![r] = n] /\ n.server = s /\ n.cid = row[s].cid
          /\ n.op = "delete" /\ n.pc = "removing"
      BY <1>4
    <3> HIDE DEF n
    <3>2. QED
      BY <3>1
  <2>2. Live' = Live
    BY <1>4 DEF Live
  <2>3. QED
    BY <1>2, <1>4, <2>1, <2>2, TidyReads
<1>5. QED
  BY <1>1, <1>3, <1>4

LEMMA DeleteFinishTidy ==
  ASSUME IInv, Tidy, NEW r \in Requests, DeleteFinish(r)
  PROVE  Tidy'
<1>1. /\ req[r].pc = "removed" /\ req[r] # Idle /\ req[r].op = "delete"
      /\ req' = [req EXCEPT ![r] = Idle]
      /\ Erase(req[r].server, req[r].files) /\ UNCHANGED <<containers, company, lost>>
      /\ req[r].server \in Servers /\ req[r].files \in BOOLEAN
  BY UnderWay, IdleFacts DEF DeleteFinish, Finish, history, LocalsOf, Request
<1>2. Alone'
  BY <1>1, AloneGoesOn DEF Tidy
<1>3. ASSUME company = "never"
      PROVE  /\ \A q \in Requests : req[q].pc # "built"
             /\ ~ Exists(row[req[r].server].cid)
  <2>1. Settled(req[r]) /\ \A q \in Requests \ {r} : req[q] = Idle
    BY <1>1, <1>3 DEF Tidy, Alone
  <2>2. QED
    BY <1>1, <2>1, IdleFacts DEF Settled
<1>4. Claims'
  BY <1>1, <1>3, ClaimsOutliveErase DEF Tidy
<1>5. QED
  BY <1>2, <1>4 DEF Tidy

(* The container a handler makes is its server's only one, and it claims   *)
(* it until it has written its id.                                         *)
LEMMA DockerCreatesTidy ==
  ASSUME IInv, Tidy, NEW r \in Requests, DockerCreates(r)
  PROVE  Tidy'
<1>1. PICK c \in Ids :
        /\ Fresh(c)
        /\ containers' = [containers EXCEPT ![c] =
                            [server |-> req[r].server, up |-> FALSE,
                             config |-> req[r].config, ports |-> req[r].ports]]
        /\ req' = [req EXCEPT ![r].pc = "built", ![r].cid = c]
  BY DEF DockerCreates, Makes
<1>2. /\ req[r] \in Request /\ req[r].pc = "building" /\ req[r] # Idle
      /\ req[r].server \in Servers /\ Named(req[r].server) = {}
      /\ UNCHANGED <<row, company, lost>> /\ Live' = Live
  BY UnderWay, IdleFacts DEF DockerCreates, Makes, history, Live
<1>3. PICK v : /\ req' = [req EXCEPT ![r] = v] /\ v.pc = "built" /\ v.cid = c
               /\ v.op = req[r].op /\ v.server = req[r].server
               /\ v.config = req[r].config
  <2> DEFINE n == [req[r] EXCEPT !.pc = "built", !.cid = c]
  <2>1. /\ req' = [req EXCEPT ![r] = n] /\ n.pc = "built" /\ n.cid = c
        /\ n.op = req[r].op /\ n.server = req[r].server /\ n.config = req[r].config
    BY <1>1, <1>2 DEF Request, IInv, TypeOK
  <2> HIDE DEF n
  <2>2. QED
    BY <2>1
<1>4. PICK k : /\ k = containers'[c] /\ k # None
               /\ k.server = req[r].server /\ k.config = req[r].config
               /\ \A d \in Ids \ {c} : containers'[d] = containers[d]
  <2> DEFINE n == [server |-> req[r].server, up |-> FALSE,
                   config |-> req[r].config, ports |-> req[r].ports]
  <2>1. n \in Container /\ n.server = req[r].server /\ n.config = req[r].config
    BY <1>2, UnderWay DEF Container, LocalsOf, IInv, Locals
  <2>2. containers'[c] = n /\ \A d \in Ids \ {c} : containers'[d] = containers[d]
    BY <1>1 DEF IInv, TypeOK
  <2> HIDE DEF n
  <2>3. QED
    BY <2>1, <2>2, NoneFacts
<1>5. ASSUME company # "now" PROVE Settled(v)'
  <2>1. Settled(req[r])
    BY <1>2, <1>5 DEF Tidy, Alone
  <2>2. v.op # "create" => v.server \in Live'
    BY <1>2, <1>3, <2>1 DEF Settled
  <2>3. v.op = "rebuild" => row'[v.server].config = v.config
    BY <1>2, <1>3, <2>1 DEF Settled
  <2>4. \A d \in Ids : (containers'[d] # None /\ containers'[d].server = v.server) <=> d = c
    BY <1>2, <1>3, <1>4 DEF Named, Exists
  <2>5. Named(v.server)' = {v.cid}
    BY <1>3, <2>4 DEF Named, Exists
  <2>6. QED
    BY <1>3, <1>4, <2>2, <2>3, <2>5 DEF Settled
<1>6. Alone'
  BY <1>2, <1>3, <1>5, AloneGoesOn DEF Tidy
<1>7. req'[r] = v /\ \A q \in Requests \ {r} : req'[q] = req[q]
  BY <1>3 DEF IInv, TypeOK
<1>8. Claims'
  <2>1. SUFFICES ASSUME company' = "never", NEW d \in Ids, containers'[d] # None
                 PROVE  Claimed(d, containers[d].server)'
    BY DEF Claims, Exists
  <2>2. PICK t : t = containers'[d].server
    OBVIOUS
  <2>3. CASE d = c
    <3>1. req'[r].pc = "built" /\ req'[r].server = t /\ req'[r].cid = d
      BY <1>3, <1>4, <1>7, <2>2, <2>3
    <3>2. QED
      BY <2>2, <3>1 DEF Claimed
  <2>4. CASE d # c
    <3>1. containers[d] # None /\ t = containers[d].server
      BY <1>4, <2>1, <2>2, <2>4
    <3>2. Claimed(d, t)
      BY <1>2, <2>1, <3>1 DEF Tidy, Claims, Exists
    <3>3. \A q \in Requests : req[q].pc = "built" => req'[q] = req[q]
      BY <1>2, <1>7
    <3>4. Claimed(d, t)'
      BY <1>2, <1>4, <2>4, <3>2, <3>3 DEF Claimed
    <3>5. QED
      BY <2>2, <3>4 DEF Claimed
  <2>5. QED
    BY <2>3, <2>4
<1>9. QED
  BY <1>6, <1>8 DEF Tidy

(* ... or, when the handler never learns of it, one that its server lost.   *)
LEMMA CreateFailsLateTidy ==
  ASSUME IInv, Tidy, NEW r \in Requests, CreateFailsLate(r)
  PROVE  Tidy'
<1>1. PICK c \in Ids :
        containers' = [containers EXCEPT ![c] =
                         [server |-> req[r].server, up |-> FALSE,
                          config |-> req[r].config, ports |-> req[r].ports]]
  BY DEF CreateFailsLate, Makes
<1>2. /\ req[r].pc = "building" /\ req[r] # Idle /\ Named(req[r].server) = {}
      /\ req' = [req EXCEPT ![r] = Idle] /\ lost' = lost \cup {req[r].server}
      /\ UNCHANGED <<row, company>> /\ Live' = Live
  BY IdleFacts DEF CreateFailsLate, Makes, Finish, Live
<1>3. Alone'
  BY <1>2, AloneGoesOn DEF Tidy
<1>4. /\ containers'[c].server = req[r].server /\ ~ containers'[c].up
      /\ \A d \in Ids \ {c} : containers'[d] = containers[d]
  BY <1>1 DEF IInv, TypeOK
<1>5. \A q \in Requests : req[q].pc = "built" => req'[q] = req[q]
  BY <1>2 DEF IInv, TypeOK
<1>6. Claims'
  <2>1. SUFFICES ASSUME company' = "never", NEW d \in Ids, containers'[d] # None
                 PROVE  Claimed(d, containers[d].server)'
    BY DEF Claims, Exists
  <2>2. PICK t : t = containers'[d].server
    OBVIOUS
  <2>3. CASE d = c
    BY <1>2, <1>4, <2>2, <2>3 DEF Claimed
  <2>4. CASE d # c
    <3>1. containers[d] # None /\ containers'[d] = containers[d] /\ t = containers[d].server
      BY <1>4, <2>1, <2>2, <2>4
    <3>2. Claimed(d, t)
      BY <1>2, <2>1, <3>1 DEF Tidy, Claims, Exists
    <3>3. Claimed(d, t)'
      BY <1>2, <1>5, <3>1, <3>2 DEF Claimed
    <3>4. QED
      BY <2>2, <3>3 DEF Claimed
  <2>5. QED
    BY <2>3, <2>4
<1>7. QED
  BY <1>3, <1>6 DEF Tidy

LEMMA RemoveFailsLateTidy ==
  ASSUME IInv, Tidy, NEW r \in Requests, RemoveFailsLate(r)
  PROVE  Tidy'
<1>1. OnlyRowsStart
  BY DEF RemoveFailsLate, history, IInv, TypeOK, OnlyRowsStart
<1>2. Live' = Live
  BY DEF RemoveFailsLate, Live
<1>3. QED
  BY <1>1, <1>2, TidyEnds DEF RemoveFailsLate, history

(* The id is written: what was claimed by the handler is its server's.     *)
LEMMA ClaimsWritten ==
  ASSUME IInv, Tidy, NEW r \in Requests, req[r].pc = "built",
         UNCHANGED <<containers, company, lost>>,
         Live \subseteq Live',
         \A s \in Live : s # req[r].server => row'[s].cid = row[s].cid,
         company = "never" => /\ req[r].server \in Live'
                              /\ row'[req[r].server].cid = req[r].cid
  PROVE  Claims'
<1>1. SUFFICES ASSUME company = "never", NEW c \in Ids, containers[c] # None
               PROVE  Claimed(c, containers[c].server)'
  BY DEF Claims, Exists
<1>2. PICK t : t = containers[c].server /\ t = containers'[c].server
  OBVIOUS
<1>3. Settled(req[r]) /\ \A q \in Requests \ {r} : req[q] = Idle
  BY <1>1, IdleFacts DEF Tidy, Alone
<1>4. Claimed(c, t)
  BY <1>1, <1>2 DEF Tidy, Claims, Exists
<1>5. t = req[r].server => c = req[r].cid
  BY <1>1, <1>2, <1>3 DEF Settled, Named, Exists
<1>6. CASE t = req[r].server
  BY <1>1, <1>2, <1>5, <1>6 DEF Claimed
<1>7. CASE t # req[r].server /\ t \in Live /\ row[t].cid = c
  BY <1>2, <1>7 DEF Claimed
<1>8. CASE t \in lost /\ ~ containers[c].up
  BY <1>2, <1>8 DEF Claimed
<1>9. QED
  BY <1>3, <1>4, <1>6, <1>7, <1>8, IdleFacts DEF Claimed

LEMMA InsertTidy ==
  ASSUME IInv, Tidy, NEW r \in Requests, Insert(r)
  PROVE  Tidy'
<1>1. /\ req[r].op = "create" /\ req[r].pc = "built" /\ req[r] # Idle
      /\ req' = [req EXCEPT ![r] = Idle]
      /\ row' = [row EXCEPT ![req[r].server] =
                   [status |-> "created", cid |-> req[r].cid,
                    config |-> req[r].config, ports |-> req[r].ports]]
      /\ UNCHANGED <<containers, data_dirs, history>>
  BY IdleFacts DEF Insert, build_bundle, Finish
<1>2. UNCHANGED <<company, overlap, doomed, lost>>
  BY <1>1 DEF history
<1>3. /\ Live' = Live \cup {req[r].server}
      /\ row'[req[r].server].cid = req[r].cid
      /\ \A t \in Live : row'[t] = row[t]
  BY <1>1, <1>2, Inserts
<1>4. Alone'
  BY <1>1, <1>2, AloneGoesOn DEF Tidy
<1>5. Claims'
  BY <1>1, <1>2, <1>3, ClaimsWritten
<1>6. QED
  BY <1>4, <1>5 DEF Tidy

(* The row of a rebuild's server once the id is written.                   *)
LEMMA RebuiltNames ==
  ASSUME IInv, NEW r \in Requests, Rebuilt(r), req[r].server \in Live
  PROVE  /\ row'[req[r].server].cid = req[r].cid
         /\ row'[req[r].server].config = row[req[r].server].config
<1>1. PICK s : s = req[r].server /\ s \in Live /\ s \in Servers /\ row[s] \in Row
  BY LiveRow DEF IInv
<1>2. row' = [row EXCEPT ![s] = [row[s] EXCEPT !.cid = req[r].cid, !.status = "stopped"]]
  BY <1>1 DEF Rebuilt
<1>3. row \in [Servers -> Row \cup {None}]
  BY DEF IInv, TypeOK
<1>4. row'[s] = [row[s] EXCEPT !.cid = req[r].cid, !.status = "stopped"]
  BY <1>1, <1>2, <1>3
<1>5. QED
  BY <1>1, <1>4 DEF Row

LEMMA RebuiltTidy ==
  ASSUME IInv, Tidy, NEW r \in Requests, Rebuilt(r)
  PROVE  Tidy'
<1>1. /\ req[r].op = "rebuild" /\ req[r].pc = "built" /\ req[r] # Idle
      /\ req' = [req EXCEPT ![r] = Idle]
      /\ UNCHANGED <<containers, company, lost>>
  BY IdleFacts DEF Rebuilt, Finish, history
<1>2. /\ Live' = Live
      /\ \A s \in Live : s # req[r].server => row'[s].cid = row[s].cid
  BY RebuiltRow
<1>3. company = "never" => req[r].server \in Live
  BY <1>1 DEF Tidy, Alone, Settled
<1>4. Alone'
  BY <1>1, AloneGoesOn DEF Tidy
<1>5. Claims'
  BY <1>1, <1>2, <1>3, RebuiltNames, ClaimsWritten
<1>6. QED
  BY <1>4, <1>5 DEF Tidy

LEMMA CrashTidy ==
  ASSUME IInv, Crash
  PROVE  Tidy'
<1>1. company' = "before" /\ req' = [q \in Requests |-> Idle]
  BY DEF Crash
<1>2. QED
  BY <1>1 DEF Tidy, Alone, Claims

LEMMA NextTidy ==
  ASSUME IInv, Tidy, [Next]_vars
  PROVE  Tidy'
<1>1. CASE UNCHANGED vars \/ RegenerateClient \/ \E r \in Requests : InstallWrites(r)
  <2>1. UNCHANGED <<row, containers, req, company, lost>>
    BY <1>1 DEF vars, history, RegenerateClient, InstallWrites
  <2>2. QED
    BY <2>1, TidyUntouched
<1>2. ASSUME NEW r \in Requests, Begin(r) PROVE Tidy'
  <2>1. CASE StartBegin(r)
    BY <2>1, PowerBeginTidy DEF StartBegin
  <2>2. CASE StopBegin(r)
    BY <2>2, PowerBeginTidy DEF StopBegin
  <2>3. QED
    BY <1>2, <2>1, <2>2, CreateBeginTidy, ConfigBeginTidy, ReadTidy, DeleteBeginTidy DEF Begin
<1>3. ASSUME NEW r \in Requests, Progress(r), ~ InstallWrites(r) PROVE Tidy'
  BY <1>3, InstallTidy, QuietTidy, InsertTidy, DockerReplacesTidy, DockerCreatesTidy,
     RebuildHaltedTidy, DockerRemovesTidy, RebuiltTidy, PowerTidy, PowerDoneTidy,
     DeleteFinishTidy, CreateFailsLateTidy, RemoveFailsLateTidy DEF Progress
<1>4. CASE Crash
  BY <1>4, CrashTidy
<1>5. QED
  BY <1>1, <1>2, <1>3, <1>4 DEF Next

LEMMA Tidiness == Spec => [](IInv /\ Tidy)
<1>1. Init => Tidy
  <2>1. SUFFICES ASSUME Init PROVE Tidy
    OBVIOUS
  <2>2. (\A r \in Requests : req[r] = Idle) /\ \A c \in Ids : ~ Exists(c)
    BY <2>1 DEF Init, Exists
  <2>3. QED
    BY <2>2 DEF Tidy, Alone, Claims
<1>2. QED
  BY <1>1, InitIInv, NextIInv, NextTidy, PTL DEF Spec

-----------------------------------------------------------------------------
(* The table, docker, the disk and the handlers' locals have their types.  *)
THEOREM TypeCorrect == Spec => []TypeOK
<1>1. IInv => TypeOK
  BY DEF IInv
<1> QED BY <1>1, Invariance, PTL

(* Two servers share a host port only if their creates were in flight      *)
(* together: validation is only ever defeated by an overlap.               *)
THEOREM PortsShareByOverlapOnly == Spec => []SharedPortsOverlapped
<1>1. IInv => SharedPortsOverlapped
  BY DEF IInv, Overlaps
<1> QED BY <1>1, Invariance, PTL

(* No failure, crash or race costs a server in the table its world.        *)
THEOREM WorldsAreKept == Spec => []WorldKept
<1>1. IInv => WorldKept
  BY DEF IInv, Worlds
<1> QED BY <1>1, Invariance, PTL

(* No row and no handler ever points at another server's container.        *)
THEOREM IdsAreTheServersOwn == Spec => []IdsNeverCross
<1>1. IInv => IdsNeverCross
  BY DEF IInv
<1> QED BY <1>1, Invariance, PTL

(* As long as no two requests have overlapped and the process has not      *)
(* died, whatever docker calls fail, before or after their effect: a       *)
(* container that no row names is one that a create_container had made     *)
(* when it raised, and it is not running.                                  *)
THEOREM NothingIsOrphaned == Spec => []NoOrphansAtRest
<1>1. Tidy => NoOrphansAtRest
  <2>1. SUFFICES ASSUME Tidy, AtRest, company = "never", NEW c \in Ids, Exists(c)
                 PROVE  \/ /\ containers[c].server \in Live
                           /\ row[containers[c].server].cid = c
                        \/ containers[c].server \in lost /\ ~ containers[c].up
    BY DEF NoOrphansAtRest
  <2>2. QED
    BY <2>1, IdleFacts DEF Tidy, Claims, Claimed, AtRest
<1> QED BY <1>1, Tidiness, PTL

(* A rebuild that ran alone leaves its server one container, which the row *)
(* names and which was made from the row's own configuration.              *)
THEOREM RebuildsMend == Spec => RebuildMends
<1> DEFINE Mends ==
      \A r \in Requests, s \in Live :
        company # "now" /\ req[r].server = s /\ Rebuilt(r) =>
          /\ Named(s)' = {row'[s].cid}
          /\ containers'[row'[s].cid].config = row'[s].config
<1>1. IInv /\ Tidy /\ [Next]_vars => [Mends]_vars
  <2>1. SUFFICES ASSUME IInv, Tidy, NEW r \in Requests, NEW s \in Live,
                        company # "now", req[r].server = s, Rebuilt(r)
                 PROVE  /\ Named(s)' = {row'[s].cid}
                        /\ containers'[row'[s].cid].config = row'[s].config
    OBVIOUS
  <2>2. /\ req[r].pc = "built" /\ req[r].op = "rebuild" /\ req[r] # Idle
        /\ UNCHANGED containers
    BY <2>1, IdleFacts DEF Rebuilt
  <2>3. Settled(req[r])
    BY <2>1, <2>2 DEF Tidy, Alone
  <2>4. /\ Named(s) = {req[r].cid} /\ containers[req[r].cid].config = req[r].config
        /\ row[s].config = req[r].config
    BY <2>1, <2>2, <2>3 DEF Settled
  <2>5. row'[s].cid = req[r].cid /\ row'[s].config = row[s].config
    BY <2>1, RebuiltNames
  <2>6. Named(s)' = Named(s)
    BY <2>2 DEF Named, Exists
  <2>7. QED
    BY <2>2, <2>4, <2>5, <2>6
<1> QED BY <1>1, Tidiness, PTL DEF Spec, RebuildMends

=============================================================================
