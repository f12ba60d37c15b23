-------------------------- MODULE ClientAppProofs --------------------------
(***************************************************************************)
(* Theorems of ClientApp, for any number of windows, threads, servers and  *)
(* ports.                                                                  *)
(*                                                                         *)
(* IInv says, beside the types: a thread belongs to an open window (Owned) *)
(* and has what its stage needs (Stages); a window that has not read the   *)
(* pin it wrote has a thread that will (Pinned); the buttons follow the    *)
(* launches, thread by thread (Buttons); a sidecar belongs to a launch that *)
(* waits for it, or uses it (Sides); and beside a launch that is alone     *)
(* there is no other launch and no sidecar that could take its port (Lone). *)
(***************************************************************************)
EXTENDS ClientApp, FiniteSetTheorems, TLAPS

Preparing == {"spawning", "waiting", "installing"}
Pcs  == {"free", "fetching", "opened", "written"} \cup Launching
WinT == [pc : {"off", "starting", "loaded", "up"}, asked : Servers \cup {Discover, None},
         cfg : Servers \cup {None}, play : BOOLEAN, upd : {"unchecked", "busy", "failed"}]
JobT == [pc : Pcs, win : Windows \cup {None}, server : Servers \cup {None},
         port : Ports \cup {None}, attempt : 0..Attempts, alone : BOOLEAN]
SideT == [job : Workers \cup {None}, port : Ports, server : Servers, bound : BOOLEAN]

Owned ==
  \A t \in Workers : job[t].pc # "free" =>
    job[t].win \in Windows /\ win[job[t].win].pc = "up"

Staged(t) ==
  /\ job[t].pc \in {"fetching", "opened", "spawning", "waiting"} => job[t].server \in Servers
  /\ job[t].pc \in {"signing", "spawning"} => job[t].attempt < Attempts
  /\ job[t].pc = "waiting" => job[t].port \in Ports

Stages == \A t \in Workers : Staged(t)

Rereads(t, w) == job[t].win = w /\ job[t].pc \in {"opened", "written"}

Pinned ==
  \A w \in Windows :
    touched = w /\ win[w].pc \in {"loaded", "up"} =>
      win[w].cfg = Load \/ \E t \in Workers : Rereads(t, w)

Plays(t, w) == job[t].win = w /\ job[t].pc \in Launching

Buttons ==
  \A w \in Windows : win[w].upd = "unchecked" =>
    /\ \A t, u \in Workers : Plays(t, w) /\ Plays(u, w) => t = u
    /\ win[w].play => \A t \in Workers : ~ Plays(t, w)

Sides ==
  \A s \in side : s.job # None =>
    /\ job[s.job].pc \in {"waiting", "installing", "playing"}
    /\ job[s.job].pc # "playing" =>
         s.port = job[s.job].port /\ s.server = job[s.job].server

Lonely(t) ==
  /\ job[t].pc \in Preparing
  /\ \A u \in Workers : job[u].pc \in Preparing => u = t
  /\ \A s \in side : ~ s.bound => s.job = t
  /\ job[t].pc \in {"waiting", "installing"} /\ job[t].server # None =>
       \A s \in side : s.bound /\ s.port = job[t].port => s.job = t
  /\ job[t].pc = "installing" /\ job[t].server # None =>
       \E s \in side : s.bound /\ s.port = job[t].port

Lone == \A t \in Workers : job[t].alone => Lonely(t)

IInv == TypeOK /\ Owned /\ Stages /\ Pinned /\ Buttons /\ Sides /\ Lone

-----------------------------------------------------------------------------
LEMMA Marks ==
  /\ None \notin Servers /\ Empty \notin Servers /\ Torn \notin Servers /\ Discover \notin Servers
  /\ Empty # None /\ Torn # None /\ Discover # None /\ Empty # Torn
  /\ None \notin Ports /\ None \notin Workers /\ None \notin Windows
  /\ Attempts \in Nat /\ Attempts > 0
  /\ Preferred \in Ports
BY AppAssumption DEF AppAssumption

LEMMA Shapes ==
  TypeOK <=> /\ duty \in Duties
            /\ pin \in Servers \cup {None, Empty, Torn}
            /\ primary \in Windows \cup {None} /\ touched \in Windows \cup {None}
            /\ win \in [Windows -> WinT]
            /\ job \in [Workers -> JobT]
            /\ side \subseteq SideT
BY DEF TypeOK, WinT, JobT, SideT, Pcs

LEMMA PcNames ==
  {"fetching", "written", "signing", "playing", "ended"} \subseteq Pcs
BY DEF Pcs, Launching

LEMMA LoadFacts == Load \in Servers \cup {None}
BY DEF Load

LEMMA FreeJob ==
  /\ Free \in JobT /\ Free.pc = "free" /\ Free.win = None /\ Free.server = None
  /\ Free.port = None /\ Free.attempt = 0 /\ ~ Free.alone
BY Marks DEF Free, JobT, Pcs

LEMMA StartedJob ==
  ASSUME NEW w \in Windows, NEW pc \in Pcs, NEW server \in Servers \cup {None},
         NEW j, j = [Free EXCEPT !.pc = pc, !.win = w, !.server = server]
  PROVE  j \in JobT /\ j.pc = pc /\ j.win = w /\ j.server = server /\ j.attempt = 0 /\ ~ j.alone
<1>1. ASSUME NEW x \in JobT, j = [x EXCEPT !.pc = pc, !.win = w, !.server = server]
      PROVE  /\ j \in JobT /\ j.pc = pc /\ j.win = w /\ j.server = server
             /\ j.attempt = x.attempt /\ j.alone = x.alone
  BY <1>1 DEF JobT
<1>2. QED
  BY <1>1, FreeJob

LEMMA EndedJob ==
  ASSUME NEW w \in Windows, NEW pc \in Pcs, NEW j, j = [Free EXCEPT !.pc = pc, !.win = w]
  PROVE  j \in JobT /\ j.pc = pc /\ j.win = w /\ j.server = None /\ j.attempt = 0 /\ ~ j.alone
<1>1. ASSUME NEW x \in JobT, j = [x EXCEPT !.pc = pc, !.win = w]
      PROVE  /\ j \in JobT /\ j.pc = pc /\ j.win = w /\ j.server = x.server
             /\ j.attempt = x.attempt /\ j.alone = x.alone
  BY <1>1 DEF JobT
<1>2. QED
  BY <1>1, FreeJob

LEMMA PastJob ==
  ASSUME NEW t \in Workers, job[t].win \in Windows, NEW pc \in Pcs, Past(t, pc)
  PROVE  \E j \in JobT : /\ job' = [job EXCEPT ![t] = j]
                         /\ j.pc = pc /\ j.win = job[t].win /\ ~ j.alone
<1>1. ASSUME NEW w \in Windows, job' = [job EXCEPT ![t] = [Free EXCEPT !.pc = pc, !.win = w]]
      PROVE  \E j \in JobT : /\ job' = [job EXCEPT ![t] = j]
                             /\ j.pc = pc /\ j.win = w /\ ~ j.alone
  <2> DEFINE x == [Free EXCEPT !.pc = pc, !.win = w]
  <2>1. x \in JobT /\ x.pc = pc /\ x.win = w /\ ~ x.alone
    BY EndedJob, FreeJob DEF JobT
  <2>2. job' = [job EXCEPT ![t] = x]
    BY <1>1
  <2> HIDE DEF x
  <2>3. QED
    BY <2>1, <2>2
<1>2. QED
  BY <1>1, Zenon DEF Past

LEMMA GoneJob ==
  ASSUME NEW x \in JobT, NEW pc \in Pcs, NEW j, j = [x EXCEPT !.pc = pc]
  PROVE  /\ j \in JobT /\ j.pc = pc /\ j.win = x.win /\ j.server = x.server
         /\ j.port = x.port /\ j.attempt = x.attempt /\ j.alone = x.alone
BY DEF JobT

(* What the other threads keep when one moves on. *)
Same(u) ==
  /\ job'[u].pc = job[u].pc /\ job'[u].win = job[u].win /\ job'[u].server = job[u].server
  /\ job'[u].port = job[u].port /\ job'[u].attempt = job[u].attempt
  /\ job'[u].alone => job[u].alone

Moves(t) == job' \in [Workers -> JobT] /\ \A u \in Workers \ {t} : Same(u)

LEMMA JobMoves ==
  ASSUME IInv, NEW t \in Workers, NEW j \in JobT, job' = [job EXCEPT ![t] = j]
  PROVE  Moves(t) /\ job'[t] = j
BY Shapes DEF IInv, Moves, Same

(* A thread's own step, with the windows as they are. *)
LEMMA ThreadKeeps ==
  ASSUME IInv, NEW t \in Workers, Moves(t), UNCHANGED win, job[t].pc # "free",
         job'[t].pc # "free" => job'[t].win = job[t].win,
         job'[t].pc \in Launching => job[t].pc \in Launching,
         Staged(t)'
  PROVE  Owned' /\ Stages' /\ Buttons'
<1>1. Owned'
  BY DEF IInv, Owned, Moves, Same
<1>2. Stages'
  BY DEF IInv, Stages, Staged, Moves, Same
<1>3. \A u \in Workers, w \in Windows : Plays(u, w)' => Plays(u, w)
  BY DEF Plays, Moves, Same, Launching
<1>4. Buttons'
  BY <1>3 DEF IInv, Buttons
<1>5. QED
  BY <1>1, <1>2, <1>4

(* A step that neither is about to read the pin nor changes it.            *)
LEMMA PinKeeps ==
  ASSUME IInv, NEW t \in Workers, Moves(t), UNCHANGED <<win, pin, touched>>,
         job[t].pc \notin {"opened", "written"}
  PROVE  Pinned'
<1>1. Load' = Load
  BY DEF Load
<1>2. \A u \in Workers, w \in Windows : Rereads(u, w) => Rereads(u, w)'
  BY DEF Rereads, Moves, Same
<1>3. QED
  BY <1>1, <1>2 DEF IInv, Pinned

(* A step of a thread that has no sidecar and prepares no launch.          *)
LEMMA QuietKeeps ==
  ASSUME IInv, NEW t \in Workers, Moves(t), UNCHANGED side,
         job[t].pc \notin {"waiting", "installing", "playing"},
         job'[t].pc \notin Preparing, ~ job'[t].alone
  PROVE  Sides' /\ Lone'
<1>1. Sides'
  BY Shapes DEF IInv, Sides, Moves, Same, SideT
<1>2. ASSUME NEW u \in Workers, job'[u].alone
      PROVE  Lonely(u)'
  <2>1. u # t /\ Same(u) /\ Lonely(u)
    BY <1>2 DEF Moves, Same, IInv, Lone
  <2>2. QED
    BY <2>1 DEF Lonely, Moves, Same
<1>3. QED
  BY <1>1, <1>2 DEF Lone

LEMMA InitIInv == Init => IInv
<1> SUFFICES ASSUME Init PROVE IInv
  OBVIOUS
<1>1. Off \in WinT /\ Off.pc = "off" /\ ~ Off.play
  BY DEF Off, WinT
<1>2. TypeOK
  BY <1>1, FreeJob, Shapes DEF Init
<1>3. Owned /\ Stages /\ Sides
  BY FreeJob DEF Init, Owned, Stages, Staged, Sides
<1>4. Pinned /\ Buttons
  BY <1>1, FreeJob, Marks DEF Init, Pinned, Buttons, Plays, Launching
<1>5. Lone
  BY FreeJob DEF Init, Lone
<1>6. QED
  BY <1>2, <1>3, <1>4, <1>5 DEF IInv

LEMMA NextTypes ==
  ASSUME duty' \in Duties, pin' \in Servers \cup {None, Empty, Torn},
         primary' \in Windows \cup {None}, touched' \in Windows \cup {None},
         win' \in [Windows -> WinT], job' \in [Workers -> JobT], side' \subseteq SideT
  PROVE  TypeOK'
BY DEF TypeOK, WinT, JobT, SideT, Pcs

-----------------------------------------------------------------------------
(* Threads: one lemma for each step, or for the steps that are alike.      *)

LEMMA GivesUpKeeps ==
  ASSUME IInv, NEW t \in Workers, FetchFails(t) \/ SignInFails(t) \/ PrepareFails(t)
  PROVE  IInv'
<1>0. /\ job[t].pc \in {"fetching", "signing", "spawning"} /\ UNCHANGED <<shared, win, side>>
      /\ Ends(t) \/ (job[t].pc # "fetching" /\ Past(t, "ended"))
  BY DEF FetchFails, SignInFails, PrepareFails
<1>1. job[t].win \in Windows
  BY <1>0 DEF IInv, Owned
<1>2. PICK j \in JobT : /\ job' = [job EXCEPT ![t] = j] /\ ~ j.alone
                        /\ \/ j.pc = "free"
                           \/ j.pc = "ended" /\ j.win = job[t].win /\ job[t].pc # "fetching"
  <2>1. CASE Ends(t)
    BY <2>1, FreeJob DEF Ends
  <2>2. CASE Past(t, "ended") /\ job[t].pc # "fetching"
    BY <1>1, <2>2, PastJob, PcNames
  <2>3. QED
    BY <1>0, <2>1, <2>2
<1>3. Moves(t) /\ job'[t] = j
  BY <1>2, JobMoves
<1>4. Owned' /\ Stages' /\ Buttons'
  BY <1>0, <1>2, <1>3, ThreadKeeps DEF Staged, Launching
<1>5. Pinned'
  BY <1>0, <1>3, PinKeeps DEF shared
<1>6. Sides' /\ Lone'
  BY <1>0, <1>2, <1>3, QuietKeeps DEF Preparing
<1>7. TypeOK'
  BY <1>0, <1>3, Shapes, NextTypes DEF IInv, Moves, shared
<1>8. QED
  BY <1>4, <1>5, <1>6, <1>7 DEF IInv

LEMMA PinWritingKeeps ==
  ASSUME IInv, NEW t \in Workers, Opens(t) \/ Writes(t)
  PROVE  IInv'
<1>0. /\ job[t].pc \in {"fetching", "opened"}
      /\ touched' = job[t].win /\ UNCHANGED <<duty, primary, win, side>>
      /\ (job[t].pc = "fetching" /\ Goes(t, "opened")) \/ Past(t, "written")
  BY DEF Opens, Writes
<1>1. job[t].win \in Windows /\ job[t] \in JobT /\ ~ job[t].alone
  BY <1>0, Shapes DEF IInv, Owned, Lone, Lonely, Preparing
<1>2. PICK j \in JobT : /\ job' = [job EXCEPT ![t] = j] /\ ~ j.alone /\ j.win = job[t].win
                        /\ \/ j.pc = "opened" /\ j.server = job[t].server /\ job[t].pc = "fetching"
                           \/ j.pc = "written"
  <2>1. CASE Goes(t, "opened") /\ job[t].pc = "fetching"
    <3> DEFINE x == [job[t] EXCEPT !.pc = "opened"]
    <3>1. x \in JobT /\ x.pc = "opened" /\ x.win = job[t].win /\ x.server = job[t].server
          /\ x.alone = job[t].alone
      BY <1>1, GoneJob DEF Pcs
    <3>2. job' = [job EXCEPT ![t] = x]
      BY <2>1 DEF Goes
    <3> HIDE DEF x
    <3>3. QED
      BY <1>1, <2>1, <3>1, <3>2
  <2>2. CASE Past(t, "written")
    BY <1>1, <2>2, PastJob, PcNames
  <2>3. QED
    BY <1>0, <2>1, <2>2
<1>3. Moves(t) /\ job'[t] = j
  BY <1>2, JobMoves
<1>4. Owned' /\ Stages' /\ Buttons'
  <2>1. Staged(t)'
    BY <1>2, <1>3 DEF IInv, Stages, Staged
  <2>2. QED
    BY <1>0, <1>2, <1>3, <2>1, ThreadKeeps DEF Launching
<1>5. Pinned'
  BY <1>0, <1>2, <1>3 DEF Pinned, Rereads
<1>6. Sides' /\ Lone'
  BY <1>0, <1>2, <1>3, QuietKeeps DEF Preparing
<1>7. pin' \in Servers \cup {None, Empty, Torn}
  BY DEF Opens, Writes, IInv, Stages, Staged
<1>8. TypeOK'
  BY <1>0, <1>1, <1>3, <1>7, Shapes, NextTypes DEF IInv, Moves
<1>9. QED
  BY <1>4, <1>5, <1>6, <1>8 DEF IInv

(* A write that fails leaves nobody answerable for the pin.                 *)
LEMMA WriteFailsKeeps ==
  ASSUME IInv, NEW t \in Workers, WriteFails(t)
  PROVE  IInv'
<1>0. /\ job[t].pc = "opened" /\ touched' = None
      /\ job' = [job EXCEPT ![t] = Free] /\ UNCHANGED <<duty, primary, win, side>>
  BY DEF WriteFails, Ends
<1>1. Moves(t) /\ job'[t] = Free
  BY <1>0, FreeJob, JobMoves
<1>2. Owned' /\ Stages' /\ Buttons'
  BY <1>0, <1>1, FreeJob, ThreadKeeps DEF Staged, Launching
<1>3. Pinned'
  BY <1>0, Marks DEF Pinned
<1>4. Sides' /\ Lone'
  BY <1>0, <1>1, FreeJob, QuietKeeps DEF Preparing
<1>5. pin' \in Servers \cup {None, Empty, Torn}
  BY Shapes DEF WriteFails, IInv, Stages, Staged
<1>6. TypeOK'
  BY <1>0, <1>1, <1>5, Shapes, NextTypes DEF IInv, Moves
<1>7. QED
  BY <1>2, <1>3, <1>4, <1>6 DEF IInv

LEMMA LaunchReadsKeeps == ASSUME IInv, NEW t \in Workers, LaunchReads(t) PROVE IInv'
<1> DEFINE s == win[job[t].win].cfg
           pc == IF s = None THEN "installing" ELSE "spawning"
           a == ComingUp = {} /\ Going = {}
           j == [job[t] EXCEPT !.pc = pc, !.server = s, !.alone = a]
           others(u) == [job[u] EXCEPT !.alone = @ /\ u \notin Going]
<1>0. job[t].pc = "signing" /\ UNCHANGED <<shared, win, side>>
      /\ job' = [u \in Workers |-> IF u = t THEN j ELSE others(u)]
  BY DEF LaunchReads
<1>1. job \in [Workers -> JobT] /\ win[job[t].win] \in WinT /\ a \in BOOLEAN
  BY <1>0, Shapes DEF IInv, Owned
<1>2. s \in Servers \cup {None} /\ pc \in Pcs
  BY <1>1 DEF WinT, Pcs, Launching
<1> HIDE DEF s, pc, a
<1>3. /\ j \in JobT /\ j.pc = pc /\ j.server = s /\ j.win = job[t].win
      /\ j.attempt = job[t].attempt /\ j.alone = a
  BY <1>1, <1>2 DEF JobT
<1>4. ASSUME NEW u \in Workers
      PROVE  /\ others(u) \in JobT /\ others(u).pc = job[u].pc /\ others(u).win = job[u].win
             /\ others(u).server = job[u].server /\ others(u).port = job[u].port
             /\ others(u).attempt = job[u].attempt
             /\ others(u).alone = (job[u].alone /\ u \notin Going)
  BY <1>1 DEF JobT
<1> HIDE DEF j, others
<1>5. Moves(t) /\ job'[t] = j
  BY <1>0, <1>3, <1>4 DEF Moves, Same
<1>6. Owned' /\ Stages' /\ Buttons'
  <2>1. Staged(t)'
    BY <1>0, <1>2, <1>3, <1>5 DEF IInv, Stages, Staged, pc
  <2>2. QED
    BY <1>0, <1>3, <1>5, <2>1, ThreadKeeps DEF Launching
<1>7. Pinned'
  BY <1>0, <1>5, PinKeeps DEF shared
<1>8. Sides'
  <2>1. \A x \in side : x.job \in Workers \cup {None} /\ x.job # t
    BY <1>0, Shapes, Marks DEF IInv, Sides, SideT
  <2>2. QED
    BY <1>0, <1>5, <2>1 DEF IInv, Sides, Moves, Same
<1>9. ASSUME NEW u \in Workers, job'[u].alone
      PROVE  Lonely(u)'
  <2>1. u = t
    <3>1. CASE u # t
      <4>1. job[u].alone /\ u \notin Going
        BY <1>0, <1>4, <1>9, <3>1
      <4>2. QED
        BY <4>1 DEF IInv, Lone, Lonely, Going, Preparing
    <3>2. QED
      BY <3>1
  <2>2. ComingUp = {} /\ Going = {}
    BY <1>3, <1>5, <1>9, <2>1 DEF a
  <2>3. \A x \in side' : x.bound
    BY <1>0, <2>2 DEF ComingUp
  <2>4. \A v \in Workers : job'[v].pc \in Preparing => v = t
    BY <1>5, <2>2 DEF Going, Preparing, Moves, Same
  <2>5. job'[t].pc \in Preparing
        /\ ~ (job'[t].pc \in {"waiting", "installing"} /\ job'[t].server # None)
    BY <1>3, <1>5 DEF pc, Preparing
  <2>6. QED
    BY <2>1, <2>3, <2>4, <2>5 DEF Lonely
<1>10. TypeOK'
  BY <1>0, <1>5, Shapes, NextTypes DEF IInv, Moves, shared
<1>11. QED
  BY <1>6, <1>7, <1>8, <1>9, <1>10 DEF IInv, Lone

LEMMA SpawnsKeeps == ASSUME IInv, NEW t \in Workers, Spawns(t) PROVE IInv'
<1>0. job[t].pc = "spawning" /\ UNCHANGED <<shared, win>>
  BY DEF Spawns
<1>1. PICK p \in _pick_free_port :
        /\ job' = [job EXCEPT ![t].pc = "waiting", ![t].port = p, ![t].attempt = @ + 1]
        /\ side' = side \cup {[job |-> t, port |-> p, server |-> job[t].server, bound |-> FALSE]}
  BY DEF Spawns
<1>2. p \in Ports /\ \A s \in side : ~ (s.bound /\ s.port = p)
  BY Marks DEF _pick_free_port, Listeners
<1> DEFINE j == [job[t] EXCEPT !.pc = "waiting", !.port = p, !.attempt = @ + 1]
           x == [job |-> t, port |-> p, server |-> job[t].server, bound |-> FALSE]
<1>3. job[t] \in JobT /\ job[t].attempt < Attempts /\ job[t].server \in Servers
  BY <1>0, Shapes DEF IInv, Stages, Staged
<1>4. /\ j \in JobT /\ j.pc = "waiting" /\ j.port = p /\ j.win = job[t].win
      /\ j.server = job[t].server /\ j.alone = job[t].alone
  <2>1. job[t].attempt + 1 \in 0..Attempts
    BY <1>3, Marks DEF JobT
  <2>2. QED
    BY <1>2, <1>3, <2>1 DEF JobT, Pcs, Launching
<1>5. job' = [job EXCEPT ![t] = j]
  BY <1>1, Shapes DEF IInv
<1>6. x \in SideT /\ x.job = t /\ x.port = p /\ x.server = job[t].server /\ ~ x.bound
  BY <1>2, <1>3 DEF SideT
<1>7. side' = side \cup {x}
  BY <1>1
<1> HIDE DEF j, x
<1>8. Moves(t) /\ job'[t] = j
  BY <1>4, <1>5, JobMoves
<1>9. Owned' /\ Stages' /\ Buttons'
  <2>1. Staged(t)'
    BY <1>2, <1>3, <1>4, <1>8 DEF Staged
  <2>2. QED
    BY <1>0, <1>4, <1>8, <2>1, ThreadKeeps DEF Launching
<1>10. Pinned'
  BY <1>0, <1>8, PinKeeps DEF shared
<1>11. \A s \in side : s.job \in Workers \cup {None} /\ s.job # t
  BY <1>0, Shapes, Marks DEF IInv, Sides, SideT
<1>12. Sides'
  BY <1>4, <1>6, <1>7, <1>8, <1>11 DEF IInv, Sides, Moves, Same
<1>13. ASSUME NEW u \in Workers, job'[u].alone
       PROVE  Lonely(u)'
  <2>1. Lonely(u)
    BY <1>4, <1>8, <1>13 DEF IInv, Lone, Moves, Same
  <2>2. u = t
    BY <1>0, <2>1 DEF Lonely, Preparing
  <2>3. job'[t].pc = "waiting" /\ job'[t].port = p
    BY <1>4, <1>8
  <2>4. \A v \in Workers : job'[v].pc \in Preparing => v = t
    BY <1>8, <2>1, <2>2 DEF Lonely, Moves, Same
  <2>5. \A s \in side' : (~ s.bound => s.job = t) /\ (s.bound /\ s.port = p => s.job = t)
    BY <1>2, <1>6, <1>7, <2>1, <2>2 DEF Lonely
  <2>6. QED
    BY <2>2, <2>3, <2>4, <2>5 DEF Lonely, Preparing
<1>14. TypeOK'
  BY <1>0, <1>6, <1>7, <1>8, Shapes, NextTypes DEF IInv, Moves, shared
<1>15. QED
  BY <1>9, <1>10, <1>12, <1>13, <1>14 DEF IInv, Lone

(* cloudflared connects: beside a launch that is alone, it is its own.     *)
LEMMA ConnectsKeeps == ASSUME IInv, NEW t \in Workers, Connects(t) PROVE IInv'
<1> DEFINE j == [job[t] EXCEPT !.pc = "installing"]
<1>0. /\ job[t].pc = "waiting" /\ UNCHANGED <<shared, win, side>>
      /\ job' = [job EXCEPT ![t] = j]
      /\ \E s \in side : s.bound /\ s.port = job[t].port
  BY DEF Connects, Goes, Listeners
<1>1. job[t] \in JobT
  BY Shapes DEF IInv
<1>2. /\ j \in JobT /\ j.pc = "installing" /\ j.win = job[t].win /\ j.server = job[t].server
      /\ j.port = job[t].port /\ j.alone = job[t].alone
  BY <1>1, GoneJob DEF Pcs, Launching
<1> HIDE DEF j
<1>3. Moves(t) /\ job'[t] = j
  BY <1>0, <1>2, JobMoves
<1>4. Owned' /\ Stages' /\ Buttons'
  BY <1>0, <1>2, <1>3, ThreadKeeps DEF Staged, Launching
<1>5. Pinned'
  BY <1>0, <1>3, PinKeeps DEF shared
<1>6. Sides'
  BY <1>0, <1>2, <1>3, Shapes DEF IInv, Sides, Moves, Same, SideT
<1>7. ASSUME NEW u \in Workers, job'[u].alone
      PROVE  Lonely(u)'
  <2>1. Lonely(u)
    BY <1>2, <1>3, <1>7 DEF IInv, Lone, Moves, Same
  <2>2. u = t
    BY <1>0, <2>1 DEF Lonely, Preparing
  <2>3. \A v \in Workers : job'[v].pc \in Preparing => v = t
    BY <1>3, <2>1, <2>2 DEF Lonely, Moves, Same
  <2>4. QED
    BY <1>0, <1>2, <1>3, <2>1, <2>2, <2>3 DEF Lonely, Preparing
<1>8. TypeOK'
  BY <1>0, <1>3, Shapes, NextTypes DEF IInv, Moves, shared
<1>9. QED
  BY <1>4, <1>5, <1>6, <1>7, <1>8 DEF IInv, Lone

(* A thread that had sidecars leaves them to its window, stops them, or    *)
(* goes on playing with them: whichever it does, those of others stay.     *)
LEMMA SideStepKeeps ==
  ASSUME IInv, NEW t \in Workers, NEW j \in JobT, job' = [job EXCEPT ![t] = j],
         job[t].pc \in {"waiting", "installing", "playing"},
         j.pc \in {"spawning", "playing", "ended"}, j.win = job[t].win,
         Staged(t)', j.pc = "spawning" => job[t].pc = "waiting",
         j.alone => j.pc = "spawning" /\ job[t].alone,
         UNCHANGED <<shared, win>>,
         \/ j.pc = "playing" /\ side' = side
         \/ side' = side \ Own(t)
         \/ j.pc = "ended" /\ job[t].pc = "installing" /\ Stray({t})
  PROVE  IInv'
<1>1. Moves(t) /\ job'[t] = j
  BY JobMoves
<1>2. Owned' /\ Stages' /\ Buttons'
  BY <1>1, ThreadKeeps DEF Launching
<1>3. Pinned'
  BY <1>1, PinKeeps DEF shared
<1>4. \A x \in side' : /\ x \in SideT
                       /\ \/ x \in side
                          \/ x.job = None /\ j.pc = "ended" /\ job[t].pc = "installing"
                       /\ x.job = t => j.pc = "playing"
  <2>1. side \subseteq SideT
    BY Shapes DEF IInv
  <2>2. CASE j.pc = "playing" /\ side' = side
    BY <2>1, <2>2
  <2>3. CASE side' = side \ Own(t)
    BY <2>1, <2>3 DEF Own
  <2>4. CASE j.pc = "ended" /\ job[t].pc = "installing" /\ Stray({t})
    <3>1. ASSUME NEW x \in side'
          PROVE  x \in SideT /\ x.job # t /\ (x \in side \/ x.job = None)
      <4>1. PICK y \in side : x = IF y.job \in {t} THEN [y EXCEPT !.job = None] ELSE y
        BY <2>4, <3>1 DEF Stray
      <4>2. y \in SideT
        BY <2>1
      <4>3. QED
        BY <4>1, <4>2, Marks DEF SideT
    <3>2. QED
      BY <2>4, <3>1
  <2>5. QED
    BY <2>2, <2>3, <2>4
<1>5. \A x \in side : x.job # t => x \in side'
  BY DEF Own, Stray
<1>6. Sides'
  BY <1>1, <1>4 DEF IInv, Sides, Moves, Same, SideT
<1>7. ASSUME NEW u \in Workers, job'[u].alone
      PROVE  Lonely(u)'
  <2>1. Lonely(u)
    BY <1>1, <1>7 DEF IInv, Lone, Moves, Same
  <2>2. \A v \in Workers : job'[v].pc \in Preparing => v = u
    BY <1>1, <2>1 DEF Lonely, Moves, Same, Preparing
  <2>3. CASE u = t
    <3>1. j.pc = "spawning" /\ \A x \in side' : x.bound
      <4>1. j.pc = "spawning"
        BY <1>1, <1>7, <2>3
      <4>2. \A x \in side' : x \in side /\ x.job # t
        BY <1>4, <4>1
      <4>3. \A x \in side : ~ x.bound => x.job = t
        BY <2>1, <2>3 DEF Lonely
      <4>4. QED
        BY <4>1, <4>2, <4>3
    <3>2. QED
      BY <1>1, <2>2, <2>3, <3>1 DEF Lonely, Preparing
  <2>4. CASE u # t
    <3>1. job[t].pc = "playing" /\ Same(u)
      BY <1>1, <2>1, <2>4 DEF Lonely, Preparing, Moves
    <3>2. QED
      BY <1>4, <1>5, <2>1, <2>2, <2>4, <3>1 DEF Lonely, Same
  <2>5. QED
    BY <2>3, <2>4
<1>8. TypeOK'
  <2>1. side' \subseteq SideT
    BY <1>4
  <2>2. QED
    BY <1>1, <2>1, Shapes, NextTypes DEF IInv, Moves, shared
<1>9. QED
  BY <1>2, <1>3, <1>6, <1>7, <1>8 DEF IInv, Lone

LEMMA AttemptFailsKeeps == ASSUME IInv, NEW t \in Workers, AttemptFails(t) PROVE IInv'
<1>0. /\ job[t].pc = "waiting" /\ side' = side \ Own(t) /\ UNCHANGED <<shared, win>>
      /\ (job[t].attempt < Attempts /\ Goes(t, "spawning")) \/ Past(t, "ended")
  BY DEF AttemptFails, Stop
<1>1. PICK w \in Windows : w = job[t].win
  BY <1>0 DEF IInv, Owned
<1>2. job[t] \in JobT /\ job[t].server \in Servers
  BY <1>0, Shapes DEF IInv, Stages, Staged
<1>3. PICK j \in JobT : /\ job' = [job EXCEPT ![t] = j] /\ j.win = w
                        /\ \/ /\ j.pc = "spawning" /\ j.server = job[t].server
                              /\ j.attempt < Attempts /\ j.alone = job[t].alone
                           \/ j.pc = "ended" /\ ~ j.alone
  <2>1. CASE job[t].attempt < Attempts /\ Goes(t, "spawning")
    <3> DEFINE x == [job[t] EXCEPT !.pc = "spawning"]
    <3>1. x \in JobT /\ x.pc = "spawning" /\ x.win = job[t].win /\ x.server = job[t].server
          /\ x.attempt = job[t].attempt /\ x.alone = job[t].alone
      BY <1>2, GoneJob DEF Pcs, Launching
    <3>2. job' = [job EXCEPT ![t] = x]
      BY <2>1 DEF Goes
    <3> HIDE DEF x
    <3>3. QED
      BY <1>1, <2>1, <3>1, <3>2
  <2>2. CASE Past(t, "ended")
    BY <1>1, <2>2, PastJob, PcNames
  <2>3. QED
    BY <1>0, <2>1, <2>2
<1>4. job'[t] = j
  BY <1>3, JobMoves
<1>5. Staged(t)'
  BY <1>2, <1>3, <1>4 DEF Staged
<1>6. QED
  BY <1>0, <1>1, <1>3, <1>5, SideStepKeeps

(* The game starts or ends, or the install before it fails. *)
LEMMA GameKeeps ==
  ASSUME IInv, NEW t \in Workers, GameStarts(t) \/ InstallFails(t) \/ GameExits(t)
  PROVE  IInv'
<1>0. PICK pc \in {"playing", "ended"} :
        /\ job[t].pc \in {"installing", "playing"} /\ Past(t, pc) /\ UNCHANGED <<shared, win>>
        /\ \/ pc = "playing" /\ side' = side
           \/ side' = side \ Own(t)
           \/ pc = "ended" /\ job[t].pc = "installing" /\ Stray({t})
  BY DEF GameStarts, InstallFails, GameExits, Stop
<1>1. PICK w \in Windows : w = job[t].win
  BY <1>0 DEF IInv, Owned
<1>2. job[t].win \in Windows /\ pc \in Pcs
  BY <1>1, PcNames
<1>3. PICK j \in JobT : /\ job' = [job EXCEPT ![t] = j]
                        /\ j.pc = pc /\ j.win = w /\ ~ j.alone
  BY <1>0, <1>1, <1>2, PastJob
<1>4. job'[t] = j
  BY <1>3, JobMoves
<1>5. Staged(t)'
  BY <1>3, <1>4 DEF Staged
<1>6. QED
  BY <1>0, <1>1, <1>2, <1>3, <1>5, SideStepKeeps

(* reload_config: the window shows what the pin holds.                     *)
LEMMA ReloadsKeeps == ASSUME IInv, NEW t \in Workers, Reloads(t) PROVE IInv'
<1>0. /\ job[t].pc = "written" /\ job' = [job EXCEPT ![t] = Free] /\ UNCHANGED <<shared, side>>
      /\ win' = [win EXCEPT ![job[t].win].cfg = Load]
  BY DEF Reloads, Ends
<1>1. PICK w \in Windows : w = job[t].win
  BY <1>0 DEF IInv, Owned
<1>2. /\ win' \in [Windows -> WinT]
      /\ \A v \in Windows : /\ win'[v].pc = win[v].pc /\ win'[v].upd = win[v].upd
                            /\ win'[v].play = win[v].play
                            /\ v # w => win'[v].cfg = win[v].cfg
      /\ win'[w].cfg = Load
  BY <1>0, <1>1, Shapes, LoadFacts DEF IInv, WinT
<1>3. Moves(t) /\ job'[t] = Free
  BY <1>0, FreeJob, JobMoves
<1>4. Owned' /\ Stages'
  BY <1>2, <1>3, FreeJob DEF IInv, Owned, Stages, Staged, Moves, Same
<1>5. Buttons'
  <2>1. \A u \in Workers, v \in Windows : Plays(u, v)' => Plays(u, v)
    BY <1>3, FreeJob DEF Plays, Moves, Same, Launching
  <2>2. QED
    BY <1>2, <2>1 DEF IInv, Buttons
<1>6. Pinned'
  <2>1. Load' = Load
    BY <1>0 DEF Load, shared
  <2>2. \A u \in Workers, v \in Windows : Rereads(u, v) /\ v # w => Rereads(u, v)'
    BY <1>1, <1>3 DEF Rereads, Moves, Same
  <2>3. QED
    BY <1>0, <1>2, <2>1, <2>2 DEF IInv, Pinned, shared
<1>7. Sides' /\ Lone'
  BY <1>0, <1>3, FreeJob, QuietKeeps DEF Preparing
<1>8. TypeOK'
  BY <1>0, <1>2, <1>3, Shapes, NextTypes DEF IInv, Moves, shared
<1>9. QED
  BY <1>4, <1>5, <1>6, <1>7, <1>8 DEF IInv

(* set_controls(True): a launch is over, and it was the only one.          *)
LEMMA PlayReturnsKeeps == ASSUME IInv, NEW t \in Workers, PlayReturns(t) PROVE IInv'
<1>0. /\ job[t].pc = "ended" /\ job' = [job EXCEPT ![t] = Free] /\ UNCHANGED <<shared, side>>
      /\ win' = [win EXCEPT ![job[t].win].play = TRUE]
  BY DEF PlayReturns, Ends
<1>1. PICK w \in Windows : w = job[t].win
  BY <1>0 DEF IInv, Owned
<1>2. /\ win' \in [Windows -> WinT]
      /\ \A v \in Windows : /\ win'[v].pc = win[v].pc /\ win'[v].upd = win[v].upd
                            /\ win'[v].cfg = win[v].cfg
                            /\ v # w => win'[v].play = win[v].play
  <2> DEFINE x == [win[w] EXCEPT !.play = TRUE]
  <2>1. win \in [Windows -> WinT] /\ win' = [win EXCEPT ![w] = x]
    BY <1>0, <1>1, Shapes DEF IInv
  <2>2. x \in WinT /\ x.pc = win[w].pc /\ x.upd = win[w].upd /\ x.cfg = win[w].cfg
    BY <2>1 DEF WinT
  <2> HIDE DEF x
  <2>3. QED
    BY <2>1, <2>2
<1>3. Moves(t) /\ job'[t] = Free
  BY <1>0, FreeJob, JobMoves
<1>4. Owned' /\ Stages'
  BY <1>2, <1>3, FreeJob DEF IInv, Owned, Stages, Staged, Moves, Same
<1>5. Buttons'
  <2>1. \A u \in Workers, v \in Windows : Plays(u, v)' => Plays(u, v) /\ u # t
    BY <1>3, FreeJob DEF Plays, Moves, Same, Launching
  <2>2. Plays(t, w)
    BY <1>0, <1>1 DEF Plays, Launching
  <2>3. QED
    BY <1>2, <2>1, <2>2 DEF IInv, Buttons
<1>6. Pinned'
  <2>1. Load' = Load
    BY <1>0 DEF Load, shared
  <2>2. \A u \in Workers, v \in Windows : Rereads(u, v) => Rereads(u, v)'
    BY <1>0, <1>3 DEF Rereads, Moves, Same
  <2>3. QED
    BY <1>0, <1>2, <2>1, <2>2 DEF IInv, Pinned, shared
<1>7. Sides' /\ Lone'
  BY <1>0, <1>3, FreeJob, QuietKeeps DEF Preparing
<1>8. TypeOK'
  BY <1>0, <1>2, <1>3, Shapes, NextTypes DEF IInv, Moves, shared
<1>9. QED
  BY <1>4, <1>5, <1>6, <1>7, <1>8 DEF IInv

-----------------------------------------------------------------------------
(* cloudflared: one lemma for each step.                                   *)

LEMMA BindsKeeps == ASSUME IInv, NEW s \in side, Binds(s) PROVE IInv'
<1> DEFINE b == [s EXCEPT !.bound = TRUE]
<1>0. /\ ~ s.bound /\ UNCHANGED <<shared, win, job>>
      /\ side' = (side \ {s}) \cup {b}
  BY DEF Binds
<1>1. b \in SideT /\ b.job = s.job /\ b.port = s.port /\ b.server = s.server /\ b.bound
  BY Shapes DEF IInv, SideT
<1> HIDE DEF b
<1>2. TypeOK' /\ Owned' /\ Stages' /\ Buttons'
  <2>1. TypeOK'
    BY <1>0, <1>1, Shapes, NextTypes DEF IInv, shared
  <2>2. Owned' /\ Stages' /\ Buttons'
    BY <1>0 DEF IInv, Owned, Stages, Staged, Buttons, Plays
  <2>3. QED
    BY <2>1, <2>2
<1>3. Pinned'
  BY <1>0 DEF IInv, Pinned, Rereads, Load, shared
<1>4. Sides'
  BY <1>0, <1>1 DEF IInv, Sides
<1>5. ASSUME NEW t \in Workers, job'[t].alone
      PROVE  Lonely(t)'
  <2>1. Lonely(t)
    BY <1>0, <1>5 DEF IInv, Lone
  <2>2. b.job = t
    BY <1>0, <1>1, <2>1 DEF Lonely
  <2>3. \A x \in side' : x = b \/ x \in side
    BY <1>0
  <2>4. \A x \in side : x.bound => x \in side'
    BY <1>0
  <2>5. QED
    BY <1>0, <1>1, <2>1, <2>2, <2>3, <2>4 DEF Lonely
<1>6. QED
  BY <1>2, <1>3, <1>4, <1>5 DEF IInv, Lone

LEMMA ExitsEarlyKeeps == ASSUME IInv, NEW s \in side, ExitsEarly(s) PROVE IInv'
<1>0. ~ s.bound /\ UNCHANGED <<shared, win, job>> /\ side' = side \ {s}
  BY DEF ExitsEarly
<1>1. TypeOK'
  BY <1>0, Shapes, NextTypes DEF IInv, shared
<1>2. Owned' /\ Stages' /\ Buttons' /\ Sides'
  BY <1>0 DEF IInv, Owned, Stages, Staged, Buttons, Plays, Sides
<1>3. Pinned'
  BY <1>0 DEF IInv, Pinned, Rereads, Load, shared
<1>4. Lone'
  <2>1. \A x \in side : x.bound => x \in side'
    BY <1>0
  <2>2. QED
    BY <1>0, <2>1 DEF IInv, Lone, Lonely
<1>5. QED
  BY <1>1, <1>2, <1>3, <1>4 DEF IInv

-----------------------------------------------------------------------------
(* Windows *)

(* A window stays up, shows what it showed or what the pin holds, and does *)
(* not enable Play.                                                        *)
Steady(v) ==
  /\ win[v].pc = "up" => win'[v].pc = "up"
  /\ win'[v].pc \in {"loaded", "up"} =>
       \/ win'[v].cfg = Load
       \/ win[v].pc \in {"loaded", "up"} /\ win'[v].cfg = win[v].cfg
  /\ win'[v].upd = "unchecked" /\ win[v].pc = "up" =>
       win[v].upd = "unchecked" /\ (win'[v].play => win[v].play)

LEMMA WindowsKeep ==
  ASSUME IInv, win' \in [Windows -> WinT], \A v \in Windows : Steady(v),
         UNCHANGED <<duty, pin, touched, job, side>>,
         primary' \in Windows \cup {None}
  PROVE  IInv'
<1>1. TypeOK'
  BY Shapes, NextTypes DEF IInv
<1>2. Owned' /\ Stages' /\ Sides' /\ Lone'
  BY DEF IInv, Owned, Stages, Staged, Sides, Lone, Lonely, Steady
<1>3. Pinned'
  BY DEF IInv, Pinned, Rereads, Load, Steady
<1>4. Buttons'
  <2>1. \A t \in Workers, v \in Windows :
          (Plays(t, v)' <=> Plays(t, v)) /\ (Plays(t, v) => win[v].pc = "up")
    BY DEF Plays, Launching, IInv, Owned
  <2>2. QED
    BY <2>1 DEF IInv, Buttons, Steady
<1>5. QED
  BY <1>1, <1>2, <1>3, <1>4 DEF IInv

(* One window changes. *)
LEMMA WindowKeeps ==
  ASSUME IInv, NEW w \in Windows, NEW x \in WinT, win' = [win EXCEPT ![w] = x],
         win[w].pc = "up" => x.pc = "up",
         x.pc \in {"loaded", "up"} =>
           x.cfg = Load \/ (win[w].pc \in {"loaded", "up"} /\ x.cfg = win[w].cfg),
         x.upd = "unchecked" /\ win[w].pc = "up" =>
           win[w].upd = "unchecked" /\ (x.play => win[w].play),
         UNCHANGED <<duty, pin, touched, job, side>>,
         primary' \in Windows \cup {None}
  PROVE  IInv'
<1>1. win \in [Windows -> WinT]
  BY Shapes DEF IInv
<1>2. win' \in [Windows -> WinT] /\ win'[w] = x /\ \A v \in Windows \ {w} : win'[v] = win[v]
  BY <1>1
<1>3. \A v \in Windows : Steady(v)
  BY <1>2 DEF Steady
<1>4. QED
  BY <1>2, <1>3, WindowsKeep

LEMMA OpenKeeps ==
  ASSUME IInv, NEW w \in Windows, Open(w) \/ Loads(w) \/ Listens(w) \/ UpdateBegins(w)
  PROVE  IInv'
<1>1. win[w] \in WinT /\ win \in [Windows -> WinT] /\ primary \in Windows \cup {None}
  BY Shapes DEF IInv
<1>2. CASE Open(w)
  <2>1. PICK a \in Servers \cup {Discover, None} :
          win' = [win EXCEPT ![w] = [Off EXCEPT !.pc = "starting", !.asked = a]]
    BY <1>2 DEF Open, Asks
  <2> DEFINE x == [Off EXCEPT !.pc = "starting", !.asked = a]
  <2>2. x \in WinT /\ x.pc = "starting"
    BY <2>1 DEF Off, WinT
  <2>3. win' = [win EXCEPT ![w] = x] /\ win[w].pc = "off"
        /\ UNCHANGED <<duty, pin, touched, primary, job, side>>
    BY <1>2, <2>1 DEF Open, shared
  <2> HIDE DEF x
  <2>4. QED
    BY <1>1, <2>2, <2>3, WindowKeeps
<1>3. CASE Loads(w)
  <2> DEFINE x == [win[w] EXCEPT !.pc = "loaded", !.cfg = Load]
  <2>1. x \in WinT /\ x.pc = "loaded" /\ x.cfg = Load
    BY <1>1, LoadFacts DEF WinT
  <2>2. win' = [win EXCEPT ![w] = x] /\ win[w].pc = "starting"
        /\ UNCHANGED <<duty, pin, touched, primary, job, side>>
    BY <1>1, <1>3 DEF Loads, shared
  <2> HIDE DEF x
  <2>3. QED
    BY <1>1, <2>1, <2>2, WindowKeeps
<1>4. CASE Listens(w)
  <2> DEFINE x == [win[w] EXCEPT !.pc = "up", !.play = TRUE]
  <2>1. x \in WinT /\ x.pc = "up" /\ x.cfg = win[w].cfg
    BY <1>1 DEF WinT
  <2>2. win' = [win EXCEPT ![w] = x] /\ win[w].pc = "loaded" /\ primary' = w
        /\ UNCHANGED <<duty, pin, touched, job, side>>
    BY <1>1, <1>4 DEF Listens
  <2> HIDE DEF x
  <2>3. QED
    BY <1>1, <2>1, <2>2, WindowKeeps
<1>5. CASE UpdateBegins(w)
  <2> DEFINE x == [win[w] EXCEPT !.upd = "busy", !.play = FALSE]
  <2>1. x \in WinT /\ x.pc = win[w].pc /\ x.cfg = win[w].cfg /\ x.upd = "busy"
    BY <1>1 DEF WinT
  <2>2. win' = [win EXCEPT ![w] = x] /\ win[w].pc = "up"
        /\ UNCHANGED <<duty, pin, touched, primary, job, side>>
    BY <1>1, <1>5 DEF UpdateBegins, shared
  <2> HIDE DEF x
  <2>3. QED
    BY <1>1, <2>1, <2>2, WindowKeeps
<1>6. QED
  BY <1>2, <1>3, <1>4, <1>5

LEMMA UpdateFailsKeeps == ASSUME IInv, NEW w \in Windows, UpdateFails(w) PROVE IInv'
<1>1. win[w] \in WinT /\ win \in [Windows -> WinT] /\ primary \in Windows \cup {None}
  BY Shapes DEF IInv
<1> DEFINE x == [win[w] EXCEPT !.upd = "failed", !.play = TRUE]
<1>2. x \in WinT /\ x.pc = win[w].pc /\ x.cfg = win[w].cfg /\ x.upd = "failed"
  BY <1>1 DEF WinT
<1>3. win' = [win EXCEPT ![w] = x] /\ UNCHANGED <<duty, pin, touched, primary, job, side>>
  BY <1>1 DEF UpdateFails, shared
<1> HIDE DEF x
<1>4. QED
  BY <1>1, <1>2, <1>3, WindowKeeps

LEMMA ForwardsKeeps == ASSUME IInv, NEW w \in Windows, Forwards(w) PROVE IInv'
<1>0. /\ win[w].pc = "starting" /\ win[w].asked \in Servers
      /\ primary # None /\ win[primary].asked = None
      /\ win' = [win EXCEPT ![w] = Off, ![primary].asked = win[w].asked]
      /\ UNCHANGED <<shared, job, side>>
  BY DEF Forwards
<1>1. win \in [Windows -> WinT] /\ primary \in Windows /\ primary # w
  BY <1>0, Shapes, Marks DEF IInv
<1>2. Off \in WinT /\ Off.pc = "off"
  BY DEF Off, WinT
<1> DEFINE x == [win[primary] EXCEPT !.asked = win[w].asked]
<1>3. /\ x \in WinT /\ x.pc = win[primary].pc /\ x.cfg = win[primary].cfg
      /\ x.upd = win[primary].upd /\ x.play = win[primary].play
  BY <1>0, <1>1 DEF WinT
<1>4. win' = [v \in Windows |-> IF v = w THEN Off ELSE IF v = primary THEN x ELSE win[v]]
  BY <1>0, <1>1
<1> HIDE DEF x
<1>5. win' \in [Windows -> WinT]
  BY <1>1, <1>2, <1>3, <1>4
<1>6. \A v \in Windows : Steady(v)
  BY <1>0, <1>1, <1>2, <1>3, <1>4 DEF Steady
<1>7. QED
  BY <1>0, <1>1, <1>5, <1>6, WindowsKeep DEF shared

(* A thread is started in a window that is up: one that fetches a config,  *)
(* or a launch, for which Play was enabled and no longer is.               *)
LEMMA StartsKeeps ==
  ASSUME IInv, NEW w \in Windows, NEW t \in Workers, NEW j \in JobT,
         job[t] = Free, job' = [job EXCEPT ![t] = j], j.win = w, ~ j.alone,
         win[w].pc = "up", UNCHANGED <<shared, side>>,
         NEW x \in WinT, win' = [win EXCEPT ![w] = x],
         x.pc = "up", x.cfg = win[w].cfg, x.upd = win[w].upd,
         \/ j.pc = "fetching" /\ j.server \in Servers /\ x.play = win[w].play
         \/ j.pc = "signing" /\ j.attempt = 0 /\ win[w].play /\ ~ x.play
  PROVE  IInv'
<1>1. Moves(t) /\ job'[t] = j
  BY JobMoves
<1>2. win \in [Windows -> WinT]
  BY Shapes DEF IInv
<1>3. win' \in [Windows -> WinT] /\ win'[w] = x /\ \A v \in Windows \ {w} : win'[v] = win[v]
  BY <1>2
<1>4. Owned' /\ Stages'
  BY <1>1, <1>3, Marks DEF IInv, Owned, Stages, Staged, Moves, Same
<1>5. Pinned'
  <2>1. Load' = Load
    BY DEF Load, shared
  <2>2. \A u \in Workers, v \in Windows : Rereads(u, v) => Rereads(u, v)'
    BY <1>1, FreeJob DEF Rereads, Moves, Same
  <2>3. QED
    BY <1>3, <2>1, <2>2 DEF IInv, Pinned, shared
<1>6. Buttons'
  <2>1. \A u \in Workers, v \in Windows :
          Plays(u, v)' => Plays(u, v) \/ (u = t /\ v = w /\ j.pc = "signing")
    BY <1>1 DEF Plays, Moves, Same, Launching
  <2>2. CASE j.pc = "signing"
    <3>1. ASSUME NEW v \in Windows, win'[v].upd = "unchecked"
          PROVE  /\ \A u, r \in Workers : Plays(u, v)' /\ Plays(r, v)' => u = r
                 /\ win'[v].play => \A u \in Workers : ~ Plays(u, v)'
      <4>1. CASE v = w
        <5>1. \A u \in Workers : ~ Plays(u, w)
          BY <1>3, <2>2, <3>1, <4>1 DEF IInv, Buttons
        <5>2. QED
          BY <1>3, <2>1, <2>2, <4>1, <5>1
      <4>2. CASE v # w
        BY <1>3, <2>1, <3>1, <4>2 DEF IInv, Buttons
      <4>3. QED
        BY <4>1, <4>2
    <3>2. QED
      BY <3>1 DEF Buttons
  <2>3. CASE j.pc = "fetching"
    BY <1>3, <2>1, <2>3 DEF IInv, Buttons
  <2>4. QED
    BY <2>2, <2>3
<1>7. Sides' /\ Lone'
  BY <1>1, FreeJob, QuietKeeps DEF Preparing
<1>8. TypeOK'
  BY <1>1, <1>3, Shapes, NextTypes DEF IInv, Moves, shared
<1>9. QED
  BY <1>4, <1>5, <1>6, <1>7, <1>8 DEF IInv

(* The record that Starts makes. *)
LEMMA NewJob ==
  ASSUME NEW t \in Workers, NEW w \in Windows, NEW pc \in Pcs,
         NEW server \in Servers \cup {None}, Starts(t, w, pc, server)
  PROVE  \E j \in JobT : /\ job' = [job EXCEPT ![t] = j] /\ job[t] = Free
                         /\ j.pc = pc /\ j.win = w /\ j.server = server
                         /\ j.attempt = 0 /\ ~ j.alone
<1> DEFINE x == [Free EXCEPT !.pc = pc, !.win = w, !.server = server]
<1>1. x \in JobT /\ x.pc = pc /\ x.win = w /\ x.server = server /\ x.attempt = 0 /\ ~ x.alone
  BY StartedJob, FreeJob DEF JobT
<1>2. job' = [job EXCEPT ![t] = x] /\ job[t] = Free
  BY DEF Starts
<1> HIDE DEF x
<1>3. QED
  BY <1>1, <1>2

LEMMA PlayKeeps == ASSUME IInv, NEW w \in Windows, NEW t \in Workers, Play(w, t) PROVE IInv'
<1>1. win[w] \in WinT /\ win \in [Windows -> WinT]
  BY Shapes DEF IInv
<1> DEFINE x == [win[w] EXCEPT !.play = FALSE]
<1>2. x \in WinT /\ x.pc = win[w].pc /\ x.cfg = win[w].cfg /\ x.upd = win[w].upd /\ ~ x.play
  BY <1>1 DEF WinT
<1>3. win' = [win EXCEPT ![w] = x] /\ win[w].pc = "up" /\ win[w].play /\ UNCHANGED <<shared, side>>
  BY <1>1 DEF Play
<1> HIDE DEF x
<1>4. PICK j \in JobT : /\ job' = [job EXCEPT ![t] = j] /\ job[t] = Free
                        /\ j.pc = "signing" /\ j.win = w /\ j.attempt = 0 /\ ~ j.alone
  BY NewJob, PcNames DEF Play
<1>5. QED
  BY <1>2, <1>3, <1>4, StartsKeeps

LEMMA AskedKeeps ==
  ASSUME IInv, NEW w \in Windows, NEW t \in Workers, FollowsLink(w, t) \/ Discovers(w, t)
  PROVE  IInv'
<1>1. win[w] \in WinT /\ win \in [Windows -> WinT] /\ primary \in Windows \cup {None}
  BY Shapes DEF IInv
<1> DEFINE x == [win[w] EXCEPT !.asked = None]
<1>2. x \in WinT /\ x.pc = win[w].pc /\ x.cfg = win[w].cfg /\ x.upd = win[w].upd
      /\ x.play = win[w].play
  BY <1>1 DEF WinT
<1>3. win' = [win EXCEPT ![w] = x] /\ win[w].pc = "up" /\ UNCHANGED <<shared, side>>
  BY <1>1 DEF FollowsLink, Discovers
<1> HIDE DEF x
<1>4. job' = job \/ \E s \in Servers : Starts(t, w, "fetching", s)
  BY DEF FollowsLink, Discovers
<1>5. CASE job' = job
  BY <1>1, <1>2, <1>3, <1>5, WindowKeeps DEF shared
<1>6. CASE \E s \in Servers : Starts(t, w, "fetching", s)
  <2>1. PICK s \in Servers : Starts(t, w, "fetching", s)
    BY <1>6
  <2>2. PICK j \in JobT : /\ job' = [job EXCEPT ![t] = j] /\ job[t] = Free
                          /\ j.pc = "fetching" /\ j.win = w /\ j.server = s /\ ~ j.alone
    BY <2>1, NewJob, PcNames
  <2>3. QED
    BY <1>2, <1>3, <2>1, <2>2, StartsKeeps
<1>7. QED
  BY <1>4, <1>5, <1>6

(* A window goes away, or starts over, and leaves its sidecars behind.     *)
LEMMA DiesKeeps ==
  ASSUME IInv, NEW w \in Windows, Dies(w),
         NEW x \in WinT, x.pc \in {"off", "starting"}, win' = [win EXCEPT ![w] = x]
  PROVE  IInv'
<1> DEFINE gone == {t \in Workers : job[t].win = w}
<1>0. /\ job' = [t \in Workers |-> IF t \in gone THEN Free ELSE job[t]]
      /\ side' = {IF s.job \in gone THEN [s EXCEPT !.job = None] ELSE s : s \in side}
      /\ primary' = IF primary = w THEN None ELSE primary
      /\ touched' = IF touched = w THEN None ELSE touched
      /\ UNCHANGED <<duty, pin>>
  BY DEF Dies, Stray
<1>1. win \in [Windows -> WinT] /\ job \in [Workers -> JobT] /\ side \subseteq SideT
      /\ primary \in Windows \cup {None} /\ touched \in Windows \cup {None}
  BY Shapes DEF IInv
<1>2. win' \in [Windows -> WinT] /\ win'[w] = x /\ \A v \in Windows \ {w} : win'[v] = win[v]
  BY <1>1
<1>3. /\ job' \in [Workers -> JobT]
      /\ \A t \in Workers : \/ t \in gone /\ job'[t] = Free
                            \/ t \notin gone /\ job'[t] = job[t] /\ job[t].win # w
  BY <1>0, <1>1, FreeJob
<1>4. \A s \in side' :
        /\ s \in SideT /\ (s.job # None => s.job \in Workers /\ s.job \notin gone /\ s \in side)
        /\ \E y \in side : /\ y.bound = s.bound /\ y.port = s.port
                           /\ y.job \in gone \/ y = s
  <2>1. ASSUME NEW s \in side'
        PROVE  \E y \in side : \/ y.job \in gone /\ s = [y EXCEPT !.job = None]
                               \/ y.job \notin gone /\ s = y
    BY <1>0, <2>1
  <2>2. ASSUME NEW y \in side
        PROVE  LET s == [y EXCEPT !.job = None]
               IN  s \in SideT /\ s.job = None /\ s.bound = y.bound /\ s.port = y.port
    BY <1>1, <2>2 DEF SideT
  <2>3. \A y \in side : y \in SideT /\ (y.job # None => y.job \in Workers)
    BY <1>1 DEF SideT
  <2>4. QED
    BY <2>1, <2>2, <2>3
<1>5. \A s \in side : s.job \notin gone => s \in side'
  BY <1>0
<1> HIDE DEF gone
<1>6. TypeOK'
  BY <1>0, <1>1, <1>2, <1>3, <1>4, Shapes, NextTypes DEF IInv
<1>7. Owned'
  BY <1>2, <1>3, FreeJob DEF IInv, Owned
<1>8. Stages'
  BY <1>3, FreeJob DEF IInv, Stages, Staged
<1>9. Pinned'
  <2>1. Load' = Load
    BY <1>0 DEF Load
  <2>2. \A u \in Workers, v \in Windows \ {w} : Rereads(u, v) => Rereads(u, v)'
    BY <1>3 DEF Rereads, gone
  <2>3. \A v \in Windows : touched' = v /\ win'[v].pc \in {"loaded", "up"} =>
           v # w /\ touched = v /\ win'[v] = win[v]
    BY <1>0, <1>2, Marks
  <2>4. QED
    BY <2>1, <2>2, <2>3 DEF IInv, Pinned
<1>10. Buttons'
  <2>1. \A u \in Workers, v \in Windows : Plays(u, v)' => Plays(u, v) /\ v # w
    BY <1>3, FreeJob DEF Plays, Launching
  <2>2. QED
    BY <1>2, <2>1 DEF IInv, Buttons
<1>11. Sides'
  BY <1>3, <1>4 DEF IInv, Sides
<1>12. ASSUME NEW t \in Workers, job'[t].alone
       PROVE  Lonely(t)'
  <2>1. t \notin gone /\ job'[t] = job[t]
    BY <1>3, <1>12, FreeJob
  <2>2. Lonely(t)
    BY <1>12, <2>1 DEF IInv, Lone
  <2>3. \A u \in Workers : job'[u].pc \in Preparing => u = t
    BY <1>3, <2>2, FreeJob DEF Lonely, Preparing
  <2>4. \A s \in side' : ~ s.bound => s.job = t
    BY <1>4, <2>1, <2>2 DEF Lonely
  <2>5. job'[t].pc \in {"waiting", "installing"} /\ job'[t].server # None =>
          \A s \in side' : s.bound /\ s.port = job'[t].port => s.job = t
    BY <1>4, <2>1, <2>2 DEF Lonely
  <2>6. job'[t].pc = "installing" /\ job'[t].server # None =>
          \E s \in side' : s.bound /\ s.port = job'[t].port
    BY <1>5, <2>1, <2>2 DEF Lonely
  <2>7. QED
    BY <2>1, <2>2, <2>3, <2>4, <2>5, <2>6 DEF Lonely
<1>13. QED
  BY <1>6, <1>7, <1>8, <1>9, <1>10, <1>11, <1>12 DEF IInv, Lone

LEMMA GoesAwayKeeps ==
  ASSUME IInv, NEW w \in Windows, Reexecs(w) \/ Closes(w)
  PROVE  IInv'
<1>1. CASE Closes(w)
  <2>1. Off \in WinT /\ Off.pc = "off"
    BY DEF Off, WinT
  <2>2. QED
    BY <1>1, <2>1, DiesKeeps DEF Closes
<1>2. CASE Reexecs(w)
  <2>1. PICK a \in Servers \cup {Discover, None} :
          win' = [win EXCEPT ![w] = [Off EXCEPT !.pc = "starting", !.asked = a]]
    BY <1>2 DEF Reexecs, Asks
  <2> DEFINE x == [Off EXCEPT !.pc = "starting", !.asked = a]
  <2>2. x \in WinT /\ x.pc = "starting"
    BY <2>1 DEF Off, WinT
  <2>3. win' = [win EXCEPT ![w] = x] /\ Dies(w)
    BY <1>2, <2>1 DEF Reexecs
  <2> HIDE DEF x
  <2>4. QED
    BY <2>2, <2>3, DiesKeeps
<1>3. QED
  BY <1>1, <1>2

-----------------------------------------------------------------------------
LEMMA NextKeeps == IInv /\ [Next]_vars => IInv'
<1> SUFFICES ASSUME IInv, [Next]_vars PROVE IInv'
  OBVIOUS
<1>1. CASE UNCHANGED vars
  <2>1. UNCHANGED <<duty, pin, primary, touched, win, job, side>>
    BY <1>1 DEF vars, shared
  <2>2. QED
    BY <2>1 DEF IInv, TypeOK, Owned, Stages, Staged, Pinned, Rereads, Load, Buttons,
                Plays, Sides, Lone, Lonely
<1>2. CASE \E w \in Windows :
             \/ Open(w) \/ Forwards(w) \/ Loads(w) \/ Listens(w)
             \/ UpdateBegins(w) \/ UpdateFails(w) \/ Reexecs(w) \/ Closes(w)
             \/ \E t \in Workers : FollowsLink(w, t) \/ Discovers(w, t) \/ Play(w, t)
  BY <1>2, OpenKeeps, ForwardsKeeps, UpdateFailsKeeps, GoesAwayKeeps, AskedKeeps, PlayKeeps
<1>3. CASE \E t \in Workers :
             \/ FetchFails(t) \/ Opens(t) \/ Writes(t) \/ WriteFails(t) \/ Reloads(t)
             \/ SignInFails(t) \/ LaunchReads(t) \/ PrepareFails(t)
             \/ Spawns(t) \/ Connects(t) \/ AttemptFails(t)
             \/ GameStarts(t) \/ InstallFails(t) \/ GameExits(t) \/ PlayReturns(t)
  BY <1>3, GivesUpKeeps, PinWritingKeeps, WriteFailsKeeps, ReloadsKeeps, LaunchReadsKeeps, SpawnsKeeps,
     ConnectsKeeps, AttemptFailsKeeps, GameKeeps, PlayReturnsKeeps
<1>4. CASE \E s \in side : Binds(s) \/ ExitsEarly(s)
  BY <1>4, BindsKeeps, ExitsEarlyKeeps
<1>5. QED
  BY <1>1, <1>2, <1>3, <1>4 DEF Next

-----------------------------------------------------------------------------
(* The inductive invariant. *)
THEOREM Invariance == Spec => []IInv
<1>1. QED
  BY InitIInv, NextKeeps, PTL DEF Spec

(* Windows, threads, sidecars and the pin keep their types.                *)
THEOREM TypeCorrect == Spec => []TypeOK
<1>1. IInv => TypeOK
  BY DEF IInv
<1>2. QED
  BY <1>1, Invariance, PTL

(* Until a window begins an update, it launches one game at a time, and    *)
(* Play is enabled only while it launches none.                            *)
THEOREM OneLaunchAWindow == Spec => []OnePlay
<1>1. IInv => OnePlay
  <2> SUFFICES ASSUME IInv, NEW w \in Windows, win[w].upd = "unchecked"
               PROVE  LET mine == {t \in Workers : job[t].win = w /\ job[t].pc \in Launching}
                      IN  Cardinality(mine) <= 1 /\ (win[w].play => mine = {})
    BY DEF OnePlay
  <2> DEFINE mine == {t \in Workers : job[t].win = w /\ job[t].pc \in Launching}
  <2>1. /\ \A t, u \in mine : t = u
        /\ win[w].play => mine = {}
    BY DEF IInv, Buttons, Plays
  <2> HIDE DEF mine
  <2>2. CASE mine = {}
    BY <2>1, <2>2, FS_EmptySet DEF mine
  <2>3. CASE mine # {}
    <3>0. PICK t \in mine : TRUE
      BY <2>3
    <3>1. mine = {t}
      BY <2>1, <3>0
    <3>2. Cardinality(mine) = 1
      BY <3>1, FS_Singleton
    <3>3. QED
      BY <2>1, <3>2 DEF mine
  <2>4. QED
    BY <2>2, <2>3
<1>2. QED
  BY <1>1, Invariance, PTL

(* When nobody writes the pin or is about to read it, the window that      *)
(* wrote it last shows what the next start of the client will, unless a    *)
(* write of the file has failed since.                                     *)
THEOREM HeadersMatch == Spec => []HeaderMatchesPin
<1>1. IInv => HeaderMatchesPin
  BY DEF IInv, Pinned, Rereads, HeaderMatchesPin
<1>2. QED
  BY <1>1, Invariance, PTL

(* A launch that is alone dials its own sidecar, whatever is left of       *)
(* others.                                                                 *)
THEOREM LaunchesReachTheirServers == Spec => []LaunchReachesItsServer
<1>1. IInv => LaunchReachesItsServer
  <2> SUFFICES ASSUME IInv, NEW t \in Workers, job[t].pc = "installing", job[t].alone,
                      job[t].server # None
               PROVE  Listeners(job[t].port) =
                        {[job |-> t, port |-> job[t].port, server |-> job[t].server, bound |-> TRUE]}
    BY DEF LaunchReachesItsServer
  <2> DEFINE own == [job |-> t, port |-> job[t].port, server |-> job[t].server, bound |-> TRUE]
  <2>1. Lonely(t)
    BY DEF IInv, Lone
  <2>2. ASSUME NEW s \in Listeners(job[t].port)
        PROVE  s = own
    <3>1. s \in SideT /\ s.job = t /\ s.bound /\ s.port = job[t].port
      BY <2>1, Shapes DEF Listeners, Lonely, IInv
    <3>2. s.server = job[t].server
      BY <3>1, Marks DEF Listeners, IInv, Sides
    <3>3. s = [job |-> s.job, port |-> s.port, server |-> s.server, bound |-> s.bound]
          /\ s.bound = TRUE
      BY <3>1 DEF SideT
    <3>4. QED
      BY <3>1, <3>2, <3>3, Zenon
  <2>3. Listeners(job[t].port) # {}
    BY <2>1 DEF Lonely, Listeners
  <2> HIDE DEF own
  <2>4. Listeners(job[t].port) = {own}
    BY <2>2, <2>3
  <2>5. QED
    BY <2>4 DEF own
<1>2. QED
  BY <1>1, Invariance, PTL
=============================================================================
