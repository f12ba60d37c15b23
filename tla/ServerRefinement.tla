-------------------------- MODULE ServerRefinement --------------------------
(***************************************************************************)
(* The server manager implements the registry, for every value of the      *)
(* constants: each step of ServerLifecycle is a step of ServerRegistry     *)
(* under the mapping of ServerLifecycle!Registry, or a stutter.            *)
(***************************************************************************)
EXTENDS ServerLifecycleProofs

(* What the mapping needs beside IInv. *)
Published == bundles \subseteq Live

(* What a stutter of the registry is.                                      *)
Still == UNCHANGED <<Live, Ended, bundles>>

LEMMA CreatingFacts ==
  ASSUME IInv
  PROVE  /\ Creating \subseteq used /\ Creating \cap Live = {}
         /\ Live \subseteq used /\ used \subseteq Servers
         /\ Registry!Unknown = (Servers \ used) \cup Creating
<1>1. Creating \subseteq used
  BY IdleFacts DEF IInv, Locals, LocalsOf, Creating
<1>2. Creating \cap Live = {}
  BY DEF IInv, Births, Creating
<1>3. Live \subseteq used /\ used \subseteq Servers
  BY DEF IInv, TypeOK, Locals
<1> QED BY <1>1, <1>2, <1>3 DEF Registry!Unknown, Ended

(* A handler that moves on keeps what it is creating.                      *)
LEMMA CreatingStays ==
  ASSUME IInv, NEW r \in Requests, NEW v \in Request,
         req' = [req EXCEPT ![r] = v],
         v.op = "create" <=> req[r].op = "create",
         v.op = "create" => v.server = req[r].server
  PROVE  Creating' = Creating
<1>1. req'[r] = v /\ \A q \in Requests \ {r} : req'[q] = req[q]
  BY Update DEF IInv
<1> QED BY <1>1 DEF Creating

(* A create that ends, well or not, is the only one about its server.      *)
LEMMA CreatingLeaves ==
  ASSUME IInv, NEW r \in Requests, req' = [req EXCEPT ![r] = Idle]
  PROVE  Creating' = IF req[r].op = "create" THEN Creating \ {req[r].server} ELSE Creating
<1>1. req'[r] = Idle /\ \A q \in Requests \ {r} : req'[q] = req[q]
  BY Update, IdleFacts DEF IInv
<1>2. \A s \in Servers : s \in Creating' <=>
        \E q \in Requests \ {r} : req[q].op = "create" /\ req[q].server = s
  BY <1>1, IdleFacts DEF Creating
<1>3. CASE req[r].op = "create"
  BY <1>2, <1>3 DEF Creating, IInv, Births
<1>4. CASE req[r].op # "create"
  BY <1>2, <1>4 DEF Creating
<1> QED BY <1>3, <1>4

LEMMA GivenUp ==
  ASSUME IInv, NEW r \in Requests, Finish(r),
         UNCHANGED <<row, bundles, used>>
  PROVE  Still \/ \E s \in Servers : Registry!Abandon(s)
<1>1. Live' = Live
  BY DEF Live
<1>2. CASE req[r].op = "create"
  <2>1. req[r].server \in Creating /\ req[r].server \in Servers
    BY <1>2, UnderWay, IdleFacts DEF Creating, IInv, Locals, LocalsOf
  <2>2. Creating' = Creating \ {req[r].server}
    BY <1>2, CreatingLeaves DEF Finish
  <2>3. Ended' = Ended \cup {req[r].server}
    BY <1>1, <2>1, <2>2, CreatingFacts DEF Ended
  <2>4. Registry!Abandon(req[r].server)
    BY <1>1, <2>1, <2>3, CreatingFacts DEF Registry!Abandon
  <2> QED BY <2>1, <2>4
<1>3. CASE req[r].op # "create"
  <2>1. Creating' = Creating
    BY <1>3, CreatingLeaves DEF Finish
  <2> QED BY <1>1, <2>1 DEF Still, Ended
<1> QED BY <1>2, <1>3

LEMMA MovesStill ==
  ASSUME IInv, NEW r \in Requests, NEW v \in Request,
         req' = [req EXCEPT ![r] = v],
         v.op = "create" <=> req[r].op = "create",
         v.op = "create" => v.server = req[r].server,
         Live' = Live, UNCHANGED <<bundles, used>>
  PROVE  Still
BY CreatingStays DEF Still, Ended

LEMMA GotoStill ==
  ASSUME IInv, NEW r \in Requests, NEW pc \in Pcs, Goto(r, pc),
         UNCHANGED <<row, bundles, used>>
  PROVE  Still
<1>1. Live' = Live
  BY DEF Live
<1> DEFINE v == [req[r] EXCEPT !.pc = pc]
<1>2. /\ req' = [req EXCEPT ![r] = v]
      /\ v \in Request /\ v.op = req[r].op /\ v.server = req[r].server
  BY GotoFacts
<1> HIDE DEF v
<1> QED BY <1>1, <1>2, MovesStill

-----------------------------------------------------------------------------
(* The steps of a handler under way.                                       *)
LEMMA PickRconMaps ==
  ASSUME IInv, NEW r \in Requests, PickRcon(r), UNCHANGED <<row, bundles, used>>
  PROVE  Still \/ \E s \in Servers : Registry!Abandon(s)
<1>1. CASE Goto(r, "replacing")
  BY <1>1, GotoStill DEF Pcs
<1>2. CASE Finish(r)
  BY <1>2, GivenUp
<1>3. ASSUME NEW p \in RconPorts,
             req' = [req EXCEPT ![r].pc = "replacing", ![r].ports.rcon = p],
             req[r].ports.family = "java"
      PROVE  Still
  <2> DEFINE v == [req[r] EXCEPT !.pc = "replacing", !.ports.rcon = p]
  <2>1. req'[r].op = req[r].op /\ req'[r].server = req[r].server
        /\ \A q \in Requests \ {r} : req'[q] = req[q]
    BY <1>3 DEF IInv, TypeOK, Request
  <2>2. Creating' = Creating
    BY <2>1 DEF Creating
  <2> QED BY <2>2 DEF Still, Ended, Live
<1> QED BY <1>1, <1>2, <1>3 DEF PickRcon

LEMMA InsertMaps ==
  ASSUME IInv, NEW r \in Requests, Insert(r)
  PROVE  Registry!Enter(req[r].server)
<1> DEFINE s == req[r].server
<1>1. /\ Live' = Live \cup {s} /\ s \in Servers
      /\ bundles' \in {bundles, bundles \cup {s}}
      /\ used' = used /\ req[r].op = "create"
  BY Inserts DEF Insert, build_bundle, history
<1>2. s \in Creating /\ Creating' = Creating \ {s}
  BY <1>1, CreatingLeaves DEF Insert, build_bundle, Finish, Creating
<1>3. s \in Registry!Unknown /\ Ended' = Ended
  BY <1>1, <1>2, CreatingFacts DEF Ended
<1> QED BY <1>1, <1>3 DEF Registry!Enter

LEMMA DockerCreatesMaps ==
  ASSUME IInv, NEW r \in Requests, DockerCreates(r)
  PROVE  Still
<1>1. req'[r].op = req[r].op /\ req'[r].server = req[r].server
      /\ \A q \in Requests \ {r} : req'[q] = req[q]
  BY DEF DockerCreates, Makes, IInv, TypeOK, Request
<1>2. Creating' = Creating
  BY <1>1 DEF Creating
<1> QED BY <1>2 DEF DockerCreates, Makes, Still, Ended, Live, history

(* A write to a row that may be gone changes no more than that row.        *)
LEMMA LateWriteMaps ==
  ASSUME IInv, NEW r \in Requests, Rebuilt(r) \/ PowerDone(r)
  PROVE  Still
<1>1. req' = [req EXCEPT ![r] = Idle] /\ UNCHANGED <<bundles, used>> /\ req[r].op # "create"
  <2>1. CASE Rebuilt(r)
    BY <2>1 DEF Rebuilt, Finish, history
  <2>2. CASE PowerDone(r)
    BY <2>2 DEF PowerDone, Finish, history, IInv, Locals, LocalsOf, PowerPcs
  <2> QED BY <2>1, <2>2
<1>2. Live' = Live
  BY RebuiltRow, PowerDoneRow
<1>3. Creating' = Creating
  BY <1>1, CreatingLeaves
<1> QED BY <1>1, <1>2, <1>3 DEF Still, Ended

(* The tail of a delete retires the server, or finds that another delete   *)
(* has.                                                                    *)
LEMMA EraseMaps ==
  ASSUME IInv, Published, NEW s \in used, NEW files \in BOOLEAN, Erase(s, files),
         s \notin Creating, Creating' = Creating, used' = used
  PROVE  Still \/ Registry!Retire(s)
<1>1. Live' = Live \ {s} /\ bundles' = bundles \ {s}
  BY DEF Erase, Live, IInv, TypeOK
<1>2. CASE s \in Live
  <2>1. Ended' = Ended \cup {s}
    BY <1>1, <1>2, CreatingFacts DEF Ended
  <2> QED BY <1>1, <1>2, <2>1 DEF Registry!Retire
<1>3. CASE s \notin Live
  BY <1>1, <1>3 DEF Still, Ended, Published
<1> QED BY <1>2, <1>3

LEMMA ProgressMaps ==
  ASSUME IInv, Published, NEW r \in Requests, Progress(r)
  PROVE  Still \/ Registry!Next
<1>1. CASE InstallWrites(r)
  BY <1>1 DEF InstallWrites, Still, Live, Ended, Creating, history
<1>2. CASE InstallSucceeds(r) \/ BridgeInstalled(r)
  <2>1. UNCHANGED <<row, bundles, used>>
    BY <1>2 DEF InstallSucceeds, BridgeInstalled, history
  <2>2. Goto(r, "bridging") \/ PickRcon(r)
    BY <1>2 DEF InstallSucceeds, BridgeInstalled
  <2> QED BY <2>1, <2>2, PickRconMaps, GotoStill DEF Pcs, Registry!Next
<1>3. CASE \/ InstallFails(r) \/ InstallAborts(r) \/ DockerFails(r)
           \/ CreateFailsLate(r) \/ RemoveFailsLate(r)
  BY <1>3, GivenUp DEF InstallFails, InstallAborts, DockerFails, CreateFailsLate,
     RemoveFailsLate, history, Registry!Next
<1>4. CASE Insert(r)
  <2>1. req[r].server \in Servers
    BY <1>4, UnderWay DEF Insert, build_bundle
  <2> QED BY <1>4, <2>1, InsertMaps DEF Registry!Next
<1>5. CASE DockerReplaces(r) \/ RebuildHalted(r) \/ DockerRemoves(r)
  <2>1. UNCHANGED <<row, bundles, used>>
    BY <1>5 DEF DockerReplaces, RebuildHalted, DockerRemoves, history
  <2>2. \E pc \in Pcs : Goto(r, pc)
    BY <1>5 DEF DockerReplaces, RebuildHalted, DockerRemoves, RebuildFrom, Pcs
  <2> QED BY <2>1, <2>2, GotoStill
<1>6. CASE DockerCreates(r)
  BY <1>6, DockerCreatesMaps
<1>7. CASE Rebuilt(r) \/ PowerDone(r)
  BY <1>7, LateWriteMaps
<1>8. CASE \/ DockerStarts(r) \/ DockerStops(r) \/ DockerRestarts(r)
           \/ DockerHalfRestarts(r) \/ StartFailsLate(r) \/ StopFailsLate(r)
  <2>1. /\ UNCHANGED <<row, bundles, used>>
        /\ Goto(r, "started") \/ Goto(r, "stopped") \/ Finish(r)
    BY <1>8 DEF DockerStarts, DockerStops, DockerRestarts, DockerHalfRestarts,
       StartFailsLate, StopFailsLate, Power, history
  <2> QED BY <2>1, GotoStill, GivenUp DEF Pcs, Registry!Next
<1>9. CASE DeleteFinish(r)
  <2> DEFINE s == req[r].server
  <2>1. /\ s \in used /\ s \in Servers /\ req[r].op = "delete" /\ req[r].files \in BOOLEAN
        /\ Erase(s, req[r].files) /\ used' = used
    BY <1>9, UnderWay DEF DeleteFinish, LocalsOf, Request, history
  <2>2. s \notin Creating
    BY <2>1 DEF IInv, Births, Creating
  <2>3. Creating' = Creating
    BY <1>9, <2>1, CreatingLeaves DEF DeleteFinish, Finish
  <2> QED BY <2>1, <2>2, <2>3, EraseMaps DEF Registry!Next
<1> QED BY <1>1, <1>2, <1>3, <1>4, <1>5, <1>6, <1>7, <1>8, <1>9 DEF Progress

-----------------------------------------------------------------------------
(* The steps that begin a handler.                                         *)
LEMMA LaunchStill ==
  ASSUME IInv, NEW r \in Requests, Arrive(r),
         req'[r].op # "create", \A q \in Requests \ {r} : req'[q] = req[q],
         Live' = Live, UNCHANGED <<bundles, used>>
  PROVE  Still
<1>1. req[r].op # "create"
  BY IdleFacts DEF Arrive
<1>2. Creating' = Creating
  BY <1>1 DEF Creating
<1> QED BY <1>2 DEF Still, Ended

LEMMA CreateBeginMaps ==
  ASSUME IInv, NEW r \in Requests, CreateBegin(r)
  PROVE  Still
<1>1. PICK s \in Servers \ used :
        /\ used' = used \cup {s}
        /\ req'[r].op = "create" /\ req'[r].server = s
        /\ \A q \in Requests \ {r} : req'[q] = req[q]
  BY DEF CreateBegin, IInv, TypeOK
<1>2. req[r].op # "create"
  BY IdleFacts DEF CreateBegin, Arrive
<1>3. Creating' = Creating \cup {s}
  BY <1>1, <1>2 DEF Creating
<1>4. Live' = Live /\ bundles' = bundles
  BY DEF CreateBegin, Live
<1> QED BY <1>1, <1>3, <1>4, CreatingFacts DEF Still, Ended

LEMMA ReadsOp ==
  ASSUME IInv, NEW r \in Requests, NEW s \in Live, NEW op \in Ops, NEW pc, NEW m,
         op # "create", Read(r, s, op, pc, m)
  PROVE  req'[r].op # "create" /\ \A q \in Requests \ {r} : req'[q] = req[q]
BY DEF Read, IInv, TypeOK

LEMMA ConfigBeginMaps ==
  ASSUME IInv, NEW r \in Requests, ConfigBegin(r)
  PROVE  Still
<1>1. PICK s \in Live, m \in Configs :
        /\ row' = [row EXCEPT ![s] = [row[s] EXCEPT !.config = m]]
        /\ Read(r, s, "rebuild", RebuildFrom(row[s].cid, "halting"), m)
  BY DEF ConfigBegin
<1>2. [row[s] EXCEPT !.config = m] \in Row
      /\ [row[s] EXCEPT !.config = m].ports = row[s].ports
  BY LiveRow DEF IInv, Row
<1>3. Live' = Live
  BY <1>1, <1>2, RowUpdate DEF IInv
<1>4. req'[r].op # "create" /\ \A q \in Requests \ {r} : req'[q] = req[q]
  BY <1>1, ReadsOp DEF Ops
<1> QED BY <1>3, <1>4, LaunchStill DEF ConfigBegin

LEMMA PowerBeginMaps ==
  ASSUME IInv, NEW r \in Requests,
         NEW op \in {"start", "stop"}, NEW status \in {"starting", "stopping"},
         NEW pc, PowerBegin(r, op, status, pc)
  PROVE  Still
<1>1. PICK s \in Live :
        /\ row' = [row EXCEPT ![s] = [row[s] EXCEPT !.status = status]]
        /\ Read(r, s, op, pc, row[s].config) \/ UNCHANGED req
  BY DEF PowerBegin
<1>2. [row[s] EXCEPT !.status = status] \in Row
      /\ [row[s] EXCEPT !.status = status].ports = row[s].ports
  BY LiveRow DEF IInv, Row, Statuses
<1>3. Live' = Live
  BY <1>1, <1>2, RowUpdate DEF IInv
<1>4. req'[r].op # "create" /\ \A q \in Requests \ {r} : req'[q] = req[q]
  <2>1. CASE UNCHANGED req
    BY <2>1, IdleFacts DEF PowerBegin, Arrive
  <2>2. CASE Read(r, s, op, pc, row[s].config)
    BY <2>2, ReadsOp DEF Ops
  <2> QED BY <1>1, <2>1, <2>2
<1> QED BY <1>3, <1>4, LaunchStill DEF PowerBegin

LEMMA DeleteBeginMaps ==
  ASSUME IInv, Published, NEW r \in Requests, DeleteBegin(r)
  PROVE  Still \/ Registry!Next
<1>1. CASE UNCHANGED <<row, data_dirs, bundles>>
  <2>1. req'[r].op # "create" /\ \A q \in Requests \ {r} : req'[q] = req[q]
    BY IdleFacts DEF DeleteBegin, IInv, TypeOK, Arrive
  <2>2. Live' = Live
    BY <1>1 DEF Live
  <2> QED BY <1>1, <2>1, <2>2, LaunchStill DEF DeleteBegin
<1>2. ASSUME NEW s \in Live, NEW files \in BOOLEAN, Erase(s, files), UNCHANGED req
      PROVE  Still \/ Registry!Next
  <2>1. Creating' = Creating /\ s \in used /\ s \in Servers /\ s \notin Creating
    BY <1>2, CreatingFacts DEF Creating, Live
  <2> QED BY <1>2, <2>1, EraseMaps DEF DeleteBegin, Registry!Next
<1> QED BY <1>1, <1>2 DEF DeleteBegin

LEMMA BeginMaps ==
  ASSUME IInv, Published, NEW r \in Requests, Begin(r)
  PROVE  Still \/ Registry!Next
<1>1. CASE RecreateBegin(r)
  <2>1. PICK s \in Live :
          Read(r, s, "rebuild", RebuildFrom(row[s].cid, "halting"), row[s].config)
    BY <1>1 DEF RecreateBegin
  <2>2. req'[r].op # "create" /\ \A q \in Requests \ {r} : req'[q] = req[q]
    BY <2>1, ReadsOp DEF Ops
  <2> QED BY <1>1, <2>2, LaunchStill DEF RecreateBegin, Live
<1>2. CASE RestartBegin(r)
  <2>1. PICK s \in Live : Read(r, s, "restart", "restarting", row[s].config)
    BY <1>2 DEF RestartBegin
  <2>2. req'[r].op # "create" /\ \A q \in Requests \ {r} : req'[q] = req[q]
    BY <2>1, ReadsOp DEF Ops
  <2> QED BY <1>2, <2>2, LaunchStill DEF RestartBegin, Live
<1>3. CASE StartBegin(r) \/ StopBegin(r)
  BY <1>3, PowerBeginMaps DEF StartBegin, StopBegin
<1> QED BY <1>1, <1>2, <1>3, CreateBeginMaps, ConfigBeginMaps, DeleteBeginMaps DEF Begin

-----------------------------------------------------------------------------
(* A crash gives up every creation under way, one of which may just have   *)
(* reached the table.                                                      *)
LEMMA CrashMaps ==
  ASSUME IInv, Published, Crash
  PROVE  Registry!Next
<1>1. Creating' = {} /\ used' = used
  BY IdleFacts DEF Crash, Creating
<1>2. \/ Live' = Live
      \/ \E s \in Creating : Live' = Live \cup {s}
  <2>1. CASE UNCHANGED row
    BY <2>1 DEF Live
  <2>2. ASSUME NEW r \in Requests, RebuiltInPart(r)
        PROVE  Live' = Live
    <3>1. [row[req[r].server] EXCEPT !.cid = req[r].cid] \in Row
      BY <2>2, LiveRow DEF RebuiltInPart, IInv, Locals, LocalsOf, IdPcs, Row
    <3> QED BY <2>2, <3>1, NoneFacts DEF RebuiltInPart, Live, IInv, TypeOK
  <2>3. ASSUME NEW r \in Requests, InsertedInPart(r)
        PROVE  \E s \in Creating : Live' = Live \cup {s}
    <3>1. Live' = Live \cup {req[r].server} /\ req[r].server \in Servers
      BY <2>3, Inserts DEF InsertedInPart, Crash
    <3>2. req[r].server \in Creating
      BY <2>3, <3>1 DEF InsertedInPart, Creating
    <3> QED BY <3>1, <3>2
  <2> QED BY <2>1, <2>2, <2>3 DEF Crash, ErasedInPart
<1>3. \/ UNCHANGED bundles
      \/ \E s \in bundles : bundles' = bundles \ {s}
  <2>1. UNCHANGED bundles \/ \E s \in Servers : bundles' = bundles \ {s}
    BY DEF Crash, ErasedInPart, RebuiltInPart, InsertedInPart
  <2> QED BY <2>1
<1>4. \E given_up \in SUBSET Registry!Unknown :
         /\ Ended' = Ended \cup given_up
         /\ \/ UNCHANGED Live
            \/ \E s \in Registry!Unknown \ given_up : Live' = Live \cup {s}
  <2>1. CASE Live' = Live
    <3>1. Ended' = Ended \cup Creating
      BY <1>1, <2>1, CreatingFacts DEF Ended
    <3> QED BY <2>1, <3>1, CreatingFacts
  <2>2. ASSUME NEW s \in Creating, Live' = Live \cup {s}
        PROVE  \E given_up \in SUBSET Registry!Unknown :
                 /\ Ended' = Ended \cup given_up
                 /\ \E x \in Registry!Unknown \ given_up : Live' = Live \cup {x}
    <3>1. Ended' = Ended \cup (Creating \ {s})
      BY <1>1, <2>2, CreatingFacts DEF Ended
    <3>2. Creating \ {s} \in SUBSET Registry!Unknown
          /\ s \in Registry!Unknown \ (Creating \ {s})
      BY CreatingFacts
    <3> QED BY <2>2, <3>1, <3>2
  <2> QED BY <1>2, <2>1, <2>2
<1> QED BY <1>3, <1>4 DEF Registry!Interrupt, Registry!Next

LEMMA StepMaps ==
  ASSUME IInv, Published, [Next]_vars
  PROVE  Still \/ Registry!Next
<1>1. CASE UNCHANGED vars
  BY <1>1 DEF vars, history, Still, Ended, Live, Creating
<1>2. CASE RegenerateClient
  <2>1. UNCHANGED <<Live, Ended>>
    BY <1>2 DEF RegenerateClient, build_bundle, Live, Ended, Creating, history
  <2>2. \E s \in Live : s \in Servers /\ bundles' = bundles \cup {s}
    BY <1>2 DEF RegenerateClient, build_bundle, Live
  <2> QED BY <2>1, <2>2 DEF Registry!Publish, Registry!Next
<1> QED BY <1>1, <1>2, ProgressMaps, BeginMaps, CrashMaps DEF Next

LEMMA InitMaps == Init => Registry!Init /\ Published
BY DEF Init, Registry!Init, Live, Ended, Published

(* Every step of the registry keeps the bundles among the live servers.    *)
LEMMA PublishedKept ==
  ASSUME IInv, Published, [Next]_vars
  PROVE  Published'
<1>1. CASE Still
  BY <1>1 DEF Still, Published
<1>2. CASE Registry!Next
  BY <1>2 DEF Registry!Next, Registry!Enter, Registry!Abandon, Registry!Publish,
     Registry!Retire, Registry!Interrupt, Published
<1> QED BY <1>1, <1>2, StepMaps

LEMMA PublishedAlways == Spec => []Published
<1>1. Init => Published
  BY InitMaps
<1>2. IInv /\ Published /\ [Next]_vars => Published'
  BY PublishedKept
<1> QED BY <1>1, <1>2, Invariance, PTL DEF Spec

(* The server manager implements the registry: a server id has one life,   *)
(* whatever handler outlives it, and a crash inside a create or a delete   *)
(* leaves no bundle without its row.                                       *)
THEOREM ManagerImplementsRegistry == Spec => ImplementsRegistry
<1>1. Init => Registry!Init
  BY InitMaps
<1>2. IInv /\ Published /\ [Next]_vars => [Registry!Next]_(Registry!vars)
  BY StepMaps DEF Still, Registry!vars
<1> QED BY <1>1, <1>2, Invariance, PublishedAlways, PTL
        DEF Spec, ImplementsRegistry, Registry!Spec

(* Every bundle on the public surface is of a server in the table, at      *)
(* every moment, a crash inside delete included.                           *)
THEOREM BundlesHaveRows == Spec => [](Registry!BundlesAreLive)
<1>1. Published => Registry!BundlesAreLive
  BY DEF Published, Registry!BundlesAreLive, Ended
<1> QED BY <1>1, PublishedAlways, PTL

=============================================================================
