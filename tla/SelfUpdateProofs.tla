-------------------------- MODULE SelfUpdateProofs --------------------------
(***************************************************************************)
(* Theorems of SelfUpdate, for any number of platforms, windows and        *)
(* versions.                                                               *)
(*                                                                         *)
(* Typed holds whatever the windows do to each other: a handle belongs to  *)
(* a download and names a file that is there, or none.  Sole is what an    *)
(* update that no other overlaps adds: it is the only one under way        *)
(* (Single), the file it works on has what it has received so far          *)
(* (Steps), what the helper will move is whole (Helps), and so is the      *)
(* binary (Installed).                                                     *)
(***************************************************************************)
EXTENDS SelfUpdate, TLAPS

Names == {"exe", "staged", "part"}
Parts == Builds \cup {Hole}
FileT == [Names -> (Parts \X Parts) \cup {None}]
Pcs   == {"off", "up", "found", "failed", "open", "half", "full", "staged", "swapped", "marked"}
WinT  == [pc : Pcs, ver : Builds \cup {None}, want : Builds \cup {None},
          got : Builds \cup {None}, handle : {"part", "staged", "exe", "gone", None}]
Shas  == [Platforms -> Builds \cup {None}]
ScriptT == [pc : {"idle", "put", "fetched"}, version : Builds \cup {None},
            sha : Shas \cup {None}]

Downloading == {"open", "half", "full"}

Handled(w) ==
  /\ win[w].handle # None => win[w].pc \in Downloading
  /\ win[w].handle \in Names => file[win[w].handle] # None
  /\ win[w].pc \in Downloading => win[w].got \in Builds
  /\ win[w].pc \notin {"off", "up"} => win[w].want \in Builds

Handles == \A w \in Windows : Handled(w)

Scripts ==
  \A k \in Platforms :
    /\ script[k].pc # "idle" => script[k].version \in Builds
    /\ script[k].pc = "fetched" => script[k].sha \in Shas

Helped ==
  /\ helper # "none" => os = "nt"
  /\ helper = "deleted" => file["exe"] = None /\ \A w \in Windows : win[w].pc = "off"

Typed == TypeOK /\ Handles /\ Scripts /\ Helped

Single ==
  /\ \A v, w \in Windows : UnderWay(v) /\ UnderWay(w) => v = w
  /\ helper # "none" => \A w \in Windows : ~ UnderWay(w)

Stepped(w) ==
  /\ win[w].pc \in Downloading => win[w].handle = "part"
  /\ win[w].pc = "open" => file["part"] = <<Hole, Hole>>
  /\ win[w].pc = "half" => file["part"] = <<win[w].got, Hole>>
  /\ win[w].pc = "full" => file["part"] = <<win[w].got, win[w].got>>
  /\ win[w].pc = "staged" => file["staged"] = <<win[w].want, win[w].want>>
  /\ win[w].pc \in {"swapped", "marked"} => file["exe"] = <<win[w].want, win[w].want>>

Steps == \A w \in Windows : Stepped(w)

Helps == helper \in {"waiting", "deleted"} => Whole("staged")

Installed ==
  Whole("exe") \/ (/\ os = "nt" /\ file["exe"] = None /\ Whole("staged")
                   /\ \A w \in Windows : win[w].pc = "off")

Sole == solo => Single /\ Steps /\ Helps /\ Installed

IInv == Typed /\ Sole

-----------------------------------------------------------------------------
LEMMA Tokens ==
  /\ Mine \in Platforms /\ None \notin Builds /\ Hole \notin Builds /\ 1 \in Builds
  /\ None \notin Names /\ None # "gone" /\ None \notin Parts \X Parts
<1>1. None \notin Parts \X Parts
  BY UpdateAssumption, Zenon DEF UpdateAssumption, Builds, Parts
<1>2. Mine \in Platforms /\ None \notin Names /\ None # "gone"
  BY UpdateAssumption, Zenon DEF UpdateAssumption, Names
<1>3. None \notin Builds /\ Hole \notin Builds /\ 1 \in Builds
  <2>1. MaxVersion \in Nat \ {0} /\ Hole \notin Nat /\ None \notin Nat
    BY UpdateAssumption, Zenon DEF UpdateAssumption
  <2>2. QED
    BY <2>1 DEF Builds
<1>4. QED
  BY <1>1, <1>2, <1>3

LEMMA Shapes ==
  TypeOK <=> /\ assets \in [Platforms -> Builds]
            /\ latest \in Manifest
            /\ script \in [Platforms -> ScriptT]
            /\ os \in {"posix", "nt"}
            /\ file \in FileT
            /\ mode \in BOOLEAN
            /\ helper \in {"none", "waiting", "deleted", "moved"}
            /\ win \in [Windows -> WinT]
            /\ solo \in BOOLEAN
BY DEF TypeOK, ScriptT, Shas, FileT, Names, Parts, WinT, Pcs

LEMMA NextShapes ==
  TypeOK' <=> /\ assets' \in [Platforms -> Builds]
             /\ latest' \in Manifest
             /\ script' \in [Platforms -> ScriptT]
             /\ os' \in {"posix", "nt"}
             /\ file' \in FileT
             /\ mode' \in BOOLEAN
             /\ helper' \in {"none", "waiting", "deleted", "moved"}
             /\ win' \in [Windows -> WinT]
             /\ solo' \in BOOLEAN
BY DEF TypeOK, ScriptT, Shas, FileT, Names, Parts, WinT, Pcs

LEMMA PcNames == {"off", "up", "found", "failed", "staged", "swapped", "marked"} \cup Downloading \subseteq Pcs
BY DEF Pcs, Downloading

LEMMA OffWin ==
  /\ Off \in WinT /\ Off.pc = "off" /\ Off.ver = None /\ Off.want = None
  /\ Off.got = None /\ Off.handle = None
BY DEF Off, WinT, Pcs

LEMMA OpeningWins ==
  ASSUME Init, NEW w \in Windows
  PROVE  win[w] = Off
BY DEF Init

LEMMA OpeningFiles ==
  Init => file \in FileT /\ file["exe"] = <<1, 1>>
<1> SUFFICES ASSUME Init PROVE file \in FileT /\ file["exe"] = <<1, 1>>
  OBVIOUS
<1> DEFINE one == <<1, 1>>
<1>1. one \in Parts \X Parts
  BY Tokens DEF Parts
<1>2. file = [exe |-> one, staged |-> None, part |-> None]
  BY DEF Init
<1> HIDE DEF one
<1>3. file \in FileT /\ file["exe"] = one
  BY <1>1, <1>2 DEF FileT, Names
<1>4. QED
  BY <1>3 DEF one

LEMMA InitTyped == Init => Typed
<1> SUFFICES ASSUME Init PROVE Typed
  OBVIOUS
<1>1. assets \in [Platforms -> Builds] /\ latest \in Manifest
  BY Tokens DEF Init, Manifest
<1>2. script \in [Platforms -> ScriptT] /\ \A k \in Platforms : script[k].pc = "idle"
  BY DEF Init, NoScript, ScriptT
<1>3. win \in [Windows -> WinT]
  BY OffWin DEF Init
<1>4. TypeOK
  <2>1. os \in {"posix", "nt"} /\ mode \in BOOLEAN /\ solo \in BOOLEAN /\ helper = "none"
    BY DEF Init
  <2>2. QED
    BY <1>1, <1>2, <1>3, <2>1, OpeningFiles, Shapes
<1>5. Handles
  BY OpeningWins, OffWin, Tokens DEF Handles, Handled, Downloading
<1>6. Scripts
  BY <1>2 DEF Scripts
<1>7. Helped
  BY DEF Init, Helped
<1>8. QED
  BY <1>4, <1>5, <1>6, <1>7 DEF Typed

LEMMA InitSole == Init => Sole
<1> SUFFICES ASSUME Init PROVE Sole
  OBVIOUS
<1>1. helper = "none"
  BY DEF Init
<1>2. Single
  BY <1>1, OpeningWins, OffWin DEF Single, UnderWay
<1>3. Steps
  BY OpeningWins, OffWin DEF Steps, Stepped, Downloading
<1>4. Whole("exe")
  BY OpeningFiles, Tokens, Zenon DEF Whole
<1>5. QED
  BY <1>1, <1>2, <1>3, <1>4 DEF Sole, Helps, Installed

-----------------------------------------------------------------------------
(* What an action does to the windows. *)

Goes(w) == win' \in [Windows -> WinT] /\ \A v \in Windows \ {w} : win'[v] = win[v]

LEMMA SetWin ==
  ASSUME win \in [Windows -> WinT], NEW w \in Windows, NEW x \in WinT, win' = [win EXCEPT ![w] = x]
  PROVE  Goes(w) /\ win'[w] = x
BY DEF Goes

LEMMA SetPc ==
  ASSUME win \in [Windows -> WinT], NEW w \in Windows, NEW pc \in Pcs, Set(w, pc)
  PROVE  /\ Goes(w)
         /\ win'[w].pc = pc /\ win'[w].ver = win[w].ver /\ win'[w].want = win[w].want
         /\ win'[w].got = win[w].got /\ win'[w].handle = win[w].handle
BY DEF Goes, Set, WinT

LEMMA SetFound ==
  ASSUME win \in [Windows -> WinT], NEW w \in Windows, NEW b \in Builds,
         win' = [win EXCEPT ![w].pc = "found", ![w].want = b]
  PROVE  /\ Goes(w)
         /\ win'[w].pc = "found" /\ win'[w].ver = win[w].ver /\ win'[w].want = b
         /\ win'[w].got = win[w].got /\ win'[w].handle = win[w].handle
BY PcNames DEF Goes, WinT

LEMMA SetOpen ==
  ASSUME win \in [Windows -> WinT], NEW w \in Windows, NEW b \in Builds,
         win' = [win EXCEPT ![w].pc = "open", ![w].got = b, ![w].handle = "part"]
  PROVE  /\ Goes(w)
         /\ win'[w].pc = "open" /\ win'[w].ver = win[w].ver /\ win'[w].want = win[w].want
         /\ win'[w].got = b /\ win'[w].handle = "part"
BY PcNames DEF Goes, WinT, Downloading

LEMMA Booted ==
  ASSUME Typed, NEW w \in Windows, Boots(w)
  PROVE  /\ Goes(w) /\ Whole("exe")
         /\ win'[w].pc = "up" /\ win'[w].ver = file["exe"][1] /\ win'[w].handle = None
         /\ win'[w].want = None
<1>1. file["exe"][1] \in Builds /\ Whole("exe")
  BY DEF Boots, Whole
<1> DEFINE x == [Off EXCEPT !.pc = "up", !.ver = file.exe[1]]
<1>2. x \in WinT /\ x.pc = "up" /\ x.ver = file["exe"][1] /\ x.handle = None
      /\ x.want = None
  BY <1>1, OffWin, PcNames DEF WinT
<1>3. win' = [win EXCEPT ![w] = x]
  BY DEF Boots
<1> HIDE DEF x
<1>4. win \in [Windows -> WinT]
  BY Shapes DEF Typed
<1>5. QED
  BY <1>1, <1>2, <1>3, <1>4, SetWin

LEMMA Offed ==
  ASSUME win \in [Windows -> WinT], NEW w \in Windows, win' = [win EXCEPT ![w] = Off]
  PROVE  Goes(w) /\ win'[w].pc = "off" /\ win'[w].handle = None /\ win'[w].want = None
BY OffWin, SetWin

(* The other windows, when a file is renamed or removed. *)
Kept(v) ==
  /\ win'[v].pc = win[v].pc /\ win'[v].ver = win[v].ver
  /\ win'[v].want = win[v].want /\ win'[v].got = win[v].got

LEMMA UnlinkedDoes ==
  ASSUME win \in [Windows -> WinT], NEW w \in Windows, NEW paths
  PROVE  /\ Unlinked(w, paths) \in [Windows -> WinT]
         /\ Unlinked(w, paths)[w] = win[w]
         /\ \A v \in Windows \ {w} :
              LET x == Unlinked(w, paths)[v] IN
              /\ x.pc = win[v].pc /\ x.ver = win[v].ver
              /\ x.want = win[v].want /\ x.got = win[v].got
              /\ x.handle = IF win[v].handle \in paths THEN "gone" ELSE win[v].handle
BY DEF Unlinked, WinT

LEMMA RenamedDoes ==
  ASSUME win \in [Windows -> WinT], NEW w \in Windows, NEW from, NEW to \in Names
  PROVE  /\ Renamed(w, from, to) \in [Windows -> WinT]
         /\ Renamed(w, from, to)[w] = win[w]
         /\ \A v \in Windows \ {w} :
              LET x == Renamed(w, from, to)[v] IN
              /\ x.pc = win[v].pc /\ x.ver = win[v].ver
              /\ x.want = win[v].want /\ x.got = win[v].got
              /\ x.handle = IF win[v].handle = from THEN to
                            ELSE IF win[v].handle = to THEN "gone" ELSE win[v].handle
<1> DEFINE u == Unlinked(w, {to})
<1>1. /\ u \in [Windows -> WinT] /\ u[w] = win[w]
      /\ \A v \in Windows \ {w} :
           /\ u[v].pc = win[v].pc /\ u[v].ver = win[v].ver
           /\ u[v].want = win[v].want /\ u[v].got = win[v].got
           /\ u[v].handle = IF win[v].handle = to THEN "gone" ELSE win[v].handle
  BY UnlinkedDoes
<1>2. Renamed(w, from, to) = [v \in Windows |-> IF v # w /\ win[v].handle = from
                              THEN [win[v] EXCEPT !.handle = to] ELSE u[v]]
  BY DEF Renamed
<1> HIDE DEF u
<1>3. \A v \in Windows : [win[v] EXCEPT !.handle = to] \in WinT
  BY DEF WinT, Names
<1>4. \A v \in Windows : LET x == [win[v] EXCEPT !.handle = to] IN
        /\ x.pc = win[v].pc /\ x.ver = win[v].ver /\ x.want = win[v].want
        /\ x.got = win[v].got /\ x.handle = to
  BY DEF WinT
<1>5. QED
  BY <1>1, <1>2, <1>3, <1>4

Moves(w) ==
  /\ win' \in [Windows -> WinT]
  /\ \A v \in Windows \ {w} : Kept(v)
  /\ win'[w].want = win[w].want
  /\ win'[w].handle = None

LEMMA GivenUp ==
  ASSUME Typed, NEW w \in Windows, NEW paths \in SUBSET Names, GivesUp(w, paths)
  PROVE  /\ Moves(w) /\ win'[w].pc = "failed"
         /\ \A v \in Windows \ {w} : win'[v].handle = IF win[v].handle \in paths THEN "gone" ELSE win[v].handle
         /\ file' \in FileT
         /\ \A p \in Names : file'[p] = IF p \in paths THEN None ELSE file[p]
<1>1. win \in [Windows -> WinT] /\ file \in FileT
  BY Shapes DEF Typed
<1> DEFINE u == Unlinked(w, paths)
<1>2. /\ u \in [Windows -> WinT] /\ u[w] = win[w]
      /\ \A v \in Windows \ {w} :
           /\ u[v].pc = win[v].pc /\ u[v].ver = win[v].ver
           /\ u[v].want = win[v].want /\ u[v].got = win[v].got
           /\ u[v].handle = IF win[v].handle \in paths THEN "gone" ELSE win[v].handle
  BY <1>1, UnlinkedDoes
<1>3. win' = [u EXCEPT ![w].pc = "failed", ![w].got = None, ![w].handle = None]
  BY DEF GivesUp
<1> HIDE DEF u
<1> DEFINE x == [u[w] EXCEPT !.pc = "failed", !.got = None, !.handle = None]
<1>4. x \in WinT /\ x.pc = "failed" /\ x.handle = None /\ x.want = u[w].want
  BY <1>2, PcNames DEF WinT
<1>5. win' = [u EXCEPT ![w] = x]
  BY <1>2, <1>3
<1> HIDE DEF x
<1>6. win' \in [Windows -> WinT] /\ win'[w] = x /\ \A v \in Windows \ {w} : win'[v] = u[v]
  BY <1>2, <1>4, <1>5
<1>7. file' = [p \in Names |-> IF p \in paths THEN None ELSE file[p]]
  BY <1>1 DEF GivesUp, FileT
<1>8. Moves(w)
  BY <1>2, <1>4, <1>6 DEF Moves, Kept
<1>9. file' \in FileT /\ \A p \in Names : file'[p] = IF p \in paths THEN None ELSE file[p]
  BY <1>1, <1>7 DEF FileT
<1>10. QED
  BY <1>2, <1>4, <1>6, <1>8, <1>9

-----------------------------------------------------------------------------
(* What the others keep. *)

LEMMA WholeIsThere ==
  ASSUME NEW p \in Names, Whole(p)
  PROVE  file[p] # None /\ file[p] \in Parts \X Parts
BY Tokens DEF Whole, Parts

LEMMA WholeStays ==
  ASSUME NEW p \in Names, Whole(p), file'[p] = file[p]
  PROVE  Whole(p)'
BY DEF Whole

LEMMA HandledStays ==
  ASSUME NEW v \in Windows, Handled(v), win'[v] = win[v],
         \A p \in Names : file[p] # None => file'[p] # None
  PROVE  Handled(v)'
BY DEF Handled

LEMMA MachineTyped ==
  ASSUME Typed, UNCHANGED <<release, os>>,
         win' \in [Windows -> WinT], file' \in FileT, mode' \in BOOLEAN, solo' \in BOOLEAN,
         helper' \in {"none", "waiting", "deleted", "moved"},
         Handles', Helped'
  PROVE  Typed'
<1>1. assets' = assets /\ latest' = latest /\ script' = script /\ os' = os
  BY DEF release
<1>2. TypeOK'
  BY <1>1, Shapes, NextShapes DEF Typed
<1>3. Scripts'
  BY <1>1 DEF Typed, Scripts
<1>4. QED
  BY <1>2, <1>3 DEF Typed

LEMMA UnderWayStep ==
  ASSUME Sole, solo, NEW w \in Windows, UnderWay(w),
         \A v \in Windows \ {w} : win'[v].pc = win[v].pc,
         Stepped(w)', helper' # "none" => ~ UnderWay(w)'
  PROVE  Single' /\ Steps' /\ helper = "none" /\ Whole("exe")
<1>1. Single /\ Installed
  BY DEF Sole
<1>2. \A v \in Windows \ {w} : win[v].pc \in {"off", "up", "failed"}
  BY <1>1 DEF Single, UnderWay
<1>3. Single'
  BY <1>2 DEF Single, UnderWay
<1>4. Steps'
  BY <1>2 DEF Steps, Stepped, Downloading
<1>5. QED
  BY <1>1, <1>3, <1>4 DEF Single, Installed, UnderWay

-----------------------------------------------------------------------------
(* publish_client *)

LEMMA ReleaseStep ==
  ASSUME IInv, UNCHANGED machine, NEW k \in Platforms, NEW x \in ScriptT,
         assets' \in [Platforms -> Builds], latest' \in Manifest,
         script' = [script EXCEPT ![k] = x],
         x.pc # "idle" => x.version \in Builds, x.pc = "fetched" => x.sha \in Shas
  PROVE  IInv'
<1>1. /\ file' = file /\ mode' = mode /\ helper' = helper /\ os' = os /\ win' = win
      /\ solo' = solo
  BY DEF machine, files
<1>2. script' \in [Platforms -> ScriptT]
  BY Shapes DEF IInv, Typed
<1>3. TypeOK'
  BY <1>1, <1>2, Shapes, NextShapes DEF IInv, Typed
<1>4. Scripts'
  BY <1>2, Shapes DEF IInv, Typed, Scripts
<1>5. Handles' /\ Helped'
  BY <1>1 DEF IInv, Typed, Handles, Handled, Helped
<1>6. Sole'
  BY <1>1 DEF IInv, Sole, Single, UnderWay, Steps, Stepped, Helps, Installed, Whole
<1>7. QED
  BY <1>3, <1>4, <1>5, <1>6 DEF IInv, Typed

LEMMA NoScriptFacts == NoScript \in ScriptT /\ NoScript.pc = "idle"
BY DEF NoScript, ScriptT

LEMMA ScriptStep ==
  ASSUME IInv, NEW k \in Platforms,
         ScriptPutsAsset(k) \/ ScriptFetches(k) \/ ScriptPutsManifest(k) \/ ScriptFails(k)
  PROVE  IInv'
<1>1. /\ assets \in [Platforms -> Builds] /\ latest \in Manifest
      /\ script \in [Platforms -> ScriptT] /\ Scripts
  BY Shapes DEF IInv, Typed
<1>2. CASE ScriptPutsAsset(k)
  <2>1. PICK v \in Builds, b \in Builds :
          /\ script' = [script EXCEPT ![k] = [pc |-> "put", version |-> v, sha |-> None]]
          /\ assets' = [assets EXCEPT ![k] = b]
    BY <1>2 DEF ScriptPutsAsset
  <2> DEFINE x == [pc |-> "put", version |-> v, sha |-> None]
  <2>2. x \in ScriptT /\ x.pc = "put" /\ x.version \in Builds
    BY DEF ScriptT
  <2>3. UNCHANGED machine /\ latest' = latest /\ assets' \in [Platforms -> Builds]
    BY <1>1, <1>2, <2>1 DEF ScriptPutsAsset
  <2> HIDE DEF x
  <2>4. script' = [script EXCEPT ![k] = x]
    BY <2>1 DEF x
  <2>5. QED
    BY <1>1, <2>2, <2>3, <2>4, ReleaseStep
<1>3. CASE ScriptFetches(k)
  <2>1. PICK seen \in {latest.sha, [j \in Platforms |-> None]} :
          script' = [script EXCEPT ![k].pc = "fetched",
                                   ![k].sha = merge_manifest(seen, k, assets[k])]
    BY <1>3 DEF ScriptFetches
  <2> DEFINE m == merge_manifest(seen, k, assets[k])
  <2>2. m \in Shas
    BY <1>1 DEF merge_manifest, Shas, Manifest
  <2> HIDE DEF m
  <2> DEFINE x == [script[k] EXCEPT !.pc = "fetched", !.sha = m]
  <2>3. x \in ScriptT /\ x.pc = "fetched" /\ x.sha = m /\ x.version = script[k].version
    BY <1>1, <2>2 DEF ScriptT
  <2>4. script' = [script EXCEPT ![k] = x]
    BY <1>1, <2>1 DEF m
  <2> HIDE DEF x
  <2>5. script[k].version \in Builds
    BY <1>1, <1>3 DEF ScriptFetches, Scripts
  <2>6. UNCHANGED machine /\ latest' = latest /\ assets' = assets
    BY <1>3 DEF ScriptFetches
  <2>7. QED
    BY <1>1, <2>2, <2>3, <2>4, <2>5, <2>6, ReleaseStep
<1>4. CASE ScriptPutsManifest(k)
  <2>1. script[k].version \in Builds /\ script[k].sha \in Shas
    BY <1>1, <1>4 DEF ScriptPutsManifest, Scripts
  <2>2. latest' \in Manifest
    BY <1>4, <2>1 DEF ScriptPutsManifest, Manifest, Shas
  <2>3. UNCHANGED machine /\ assets' = assets /\ script' = [script EXCEPT ![k] = NoScript]
    BY <1>4 DEF ScriptPutsManifest
  <2>4. QED
    BY <1>1, <2>2, <2>3, NoScriptFacts, ReleaseStep
<1>5. CASE ScriptFails(k)
  BY <1>1, <1>5, NoScriptFacts, ReleaseStep DEF ScriptFails
<1>6. QED
  BY <1>2, <1>3, <1>4, <1>5

-----------------------------------------------------------------------------
(* A window that is closed, or starts. *)

LEMMA RestStep ==
  ASSUME IInv, NEW w \in Windows, Goes(w), win'[w].pc \in {"off", "up"}, win'[w].handle = None,
         UNCHANGED <<release, file, mode, os, solo>>, helper' \in {helper, "none"},
         Whole("exe") \/ win[w].pc # "off"
  PROVE  IInv'
<1>1. file' = file /\ mode' = mode /\ os' = os /\ solo' = solo /\ UNCHANGED <<release, os>>
  OBVIOUS
<1>2. win' \in [Windows -> WinT] /\ \A v \in Windows \ {w} : win'[v] = win[v]
  BY DEF Goes
<1>3. Handles'
  <2>1. Handled(w)'
    BY Tokens DEF Handled, Downloading
  <2>2. ASSUME NEW v \in Windows \ {w} PROVE Handled(v)'
    BY <1>1, <1>2, HandledStays DEF IInv, Typed, Handles
  <2>3. QED
    BY <2>1, <2>2 DEF Handles
<1>4. helper # "deleted"
  BY WholeIsThere DEF IInv, Typed, Helped, Names
<1>5. Helped'
  BY <1>1, <1>4 DEF IInv, Typed, Helped
<1>6. Typed'
  <2>1. file \in FileT /\ mode \in BOOLEAN /\ solo \in BOOLEAN
        /\ helper \in {"none", "waiting", "deleted", "moved"}
    BY Shapes DEF IInv, Typed
  <2>2. QED
    BY <1>1, <1>2, <1>3, <1>5, <2>1, MachineTyped DEF IInv
<1>7. ASSUME solo PROVE Single' /\ Steps' /\ Helps' /\ Installed'
  <2>1. Single /\ Steps /\ Helps /\ Installed
    BY <1>7 DEF IInv, Sole
  <2>2. Single'
    BY <1>2, <2>1 DEF Single, UnderWay
  <2>3. Steps'
    BY <1>1, <1>2, <2>1 DEF Steps, Stepped, Downloading
  <2>4. Helps'
    BY <1>1, <2>1 DEF Helps, Whole
  <2>5. Whole("exe")
    BY <2>1 DEF Installed
  <2>6. QED
    BY <1>1, <2>2, <2>3, <2>4, <2>5, WholeStays DEF Installed, Names
<1>8. QED
  BY <1>1, <1>6, <1>7 DEF IInv, Sole

LEMMA StartStep ==
  ASSUME IInv, NEW w \in Windows, Start(w) \/ Execs(w) \/ Closes(w)
  PROVE  IInv'
<1>1. win \in [Windows -> WinT] /\ Typed
  BY Shapes DEF IInv, Typed
<1>2. UNCHANGED <<release, file, mode, os, solo>> /\ helper' = helper
  BY DEF Start, Execs, Closes, files
<1>3. CASE Boots(w)
  BY <1>1, <1>2, <1>3, Booted, RestStep
<1>4. CASE Closes(w)
  BY <1>1, <1>2, <1>4, Offed, RestStep DEF Closes
<1>5. QED
  BY <1>3, <1>4 DEF Start, Execs

LEMMA FoundStep ==
  ASSUME IInv, NEW w \in Windows, CheckFinds(w) \/ Click(w)
  PROVE  IInv'
<1>1. /\ win \in [Windows -> WinT] /\ Typed /\ win[w].pc \in {"up", "failed"}
      /\ file \in FileT /\ mode \in BOOLEAN /\ solo \in BOOLEAN /\ latest \in Manifest
      /\ helper \in {"none", "waiting", "deleted", "moved"}
  BY Shapes DEF IInv, Typed, CheckFinds, Click
<1>2. /\ file' = file /\ mode' = mode /\ os' = os /\ helper' = helper
      /\ UNCHANGED <<release, os>> /\ solo' = (solo /\ Alone)
  BY DEF CheckFinds, Click, files
<1>3. win[w].handle = None
  BY <1>1 DEF Typed, Handles, Handled, Downloading
<1>4. Goes(w) /\ win'[w].pc = "found" /\ win'[w].handle = None /\ win'[w].want \in Builds
  <2>1. CASE CheckFinds(w)
    <3>1. latest.sha[Mine] \in Builds
      BY <1>1, <2>1, Tokens DEF CheckFinds, Manifest
    <3>2. QED
      BY <1>1, <1>3, <2>1, <3>1, SetFound DEF CheckFinds
  <2>2. CASE Click(w)
    <3>1. win[w].want \in Builds
      BY <2>2 DEF Click, IInv, Typed, Handles, Handled
    <3>2. QED
      BY <1>1, <1>3, <2>2, <3>1, SetPc, PcNames DEF Click
  <2>3. QED
    BY <2>1, <2>2
<1>5. win' \in [Windows -> WinT] /\ \A v \in Windows \ {w} : win'[v] = win[v]
  BY <1>4 DEF Goes
<1>6. Handles'
  <2>1. Handled(w)'
    BY <1>4, Tokens DEF Handled, Downloading
  <2>2. ASSUME NEW v \in Windows \ {w} PROVE Handled(v)'
    BY <1>2, <1>5, HandledStays DEF IInv, Typed, Handles
  <2>3. QED
    BY <2>1, <2>2 DEF Handles
<1>7. Helped'
  BY <1>1, <1>2 DEF Typed, Helped
<1>8. Typed'
  <2>1. solo' \in BOOLEAN
    BY <1>2
  <2>2. QED
    BY <1>1, <1>2, <1>5, <1>6, <1>7, <2>1, MachineTyped
<1>9. ASSUME solo' PROVE Single' /\ Steps' /\ Helps' /\ Installed'
  <2>1. solo /\ Alone
    BY <1>2, <1>9
  <2>2. Single /\ Steps /\ Helps /\ Installed
    BY <2>1 DEF IInv, Sole
  <2>3. Single'
    BY <1>2, <1>5, <2>1 DEF Single, Alone, UnderWay
  <2>4. Steps'
    BY <1>2, <1>4, <1>5, <2>2 DEF Steps, Stepped, Downloading
  <2>5. Helps'
    BY <1>2, <2>1 DEF Helps, Alone
  <2>6. Whole("exe")
    BY <1>1, <2>2 DEF Installed
  <2>7. QED
    BY <1>2, <2>3, <2>4, <2>5, <2>6, WholeStays DEF Installed, Names
<1>10. QED
  BY <1>8, <1>9 DEF IInv, Sole

-----------------------------------------------------------------------------
(* The download *)

LEMMA PartSet ==
  ASSUME file \in FileT, NEW x \in Parts \X Parts, file' = [file EXCEPT !.part = x]
  PROVE  /\ file' \in FileT /\ file'["part"] = x
         /\ file'["exe"] = file["exe"] /\ file'["staged"] = file["staged"]
BY DEF FileT, Names

LEMMA DownloadOpensStep ==
  ASSUME IInv, NEW w \in Windows, DownloadOpens(w)
  PROVE  IInv'
<1>1. /\ win \in [Windows -> WinT] /\ Typed /\ win[w].pc = "found" /\ file \in FileT
      /\ assets[Mine] \in Builds /\ mode \in BOOLEAN /\ solo \in BOOLEAN
      /\ helper \in {"none", "waiting", "deleted", "moved"}
  BY Shapes, Tokens DEF IInv, Typed, DownloadOpens
<1>2. UNCHANGED <<release, os>> /\ mode' = mode /\ helper' = helper /\ os' = os /\ solo' = solo
  BY DEF DownloadOpens
<1>3. /\ Goes(w) /\ win'[w].pc = "open" /\ win'[w].want = win[w].want
      /\ win'[w].got \in Builds /\ win'[w].handle = "part"
  BY <1>1, SetOpen DEF DownloadOpens
<1> DEFINE x == <<Hole, Hole>>
<1>4. x \in Parts \X Parts /\ x # None
  BY Tokens DEF Parts
<1>5. /\ file' \in FileT /\ file'["part"] = x
      /\ file'["exe"] = file["exe"] /\ file'["staged"] = file["staged"]
  BY <1>1, <1>4, PartSet DEF DownloadOpens
<1>6. win' \in [Windows -> WinT] /\ \A v \in Windows \ {w} : win'[v] = win[v]
  BY <1>3 DEF Goes
<1>7. Handles'
  <2>1. Handled(w)'
    BY <1>1, <1>3, <1>4, <1>5 DEF Typed, Handles, Handled, Downloading
  <2>2. \A p \in Names : file[p] # None => file'[p] # None
    BY <1>4, <1>5 DEF Names
  <2>3. ASSUME NEW v \in Windows \ {w} PROVE Handled(v)'
    BY <1>1, <1>6, <2>2, HandledStays DEF Typed, Handles
  <2>4. QED
    BY <2>1, <2>3 DEF Handles
<1>8. Helped'
  BY <1>1, <1>2 DEF Typed, Helped
<1>9. Typed'
  BY <1>1, <1>2, <1>5, <1>6, <1>7, <1>8, MachineTyped
<1>10. ASSUME solo PROVE Single' /\ Steps' /\ Helps' /\ Installed'
  <2>1. UnderWay(w) /\ Sole /\ Single
    BY <1>1, <1>10 DEF UnderWay, IInv, Sole
  <2>2. Stepped(w)'
    BY <1>3, <1>5 DEF Stepped, Downloading
  <2>3. helper' = "none"
    BY <1>2, <2>1 DEF Single
  <2>4. Single' /\ Steps' /\ helper = "none" /\ Whole("exe")
    BY <1>6, <1>10, <2>1, <2>2, <2>3, UnderWayStep
  <2>5. QED
    BY <1>5, <2>3, <2>4, WholeStays DEF Helps, Installed, Names
<1>11. QED
  BY <1>2, <1>9, <1>10 DEF IInv, Sole

LEMMA HalfSet ==
  ASSUME file \in FileT, NEW h \in Names, NEW b \in Builds, NEW half \in {1, 2},
         file[h] # None, file' = [file EXCEPT ![h][half] = b]
  PROVE  /\ file' \in FileT /\ file'[h] # None
         /\ \A p \in Names \ {h} : file'[p] = file[p]
         /\ half = 1 => file'[h] = <<b, file[h][2]>>
         /\ half = 2 => file'[h] = <<file[h][1], b>>
<1> DEFINE x == [file[h] EXCEPT ![half] = b]
<1>1. file[h] \in Parts \X Parts
  BY DEF FileT
<1>2. /\ x \in Parts \X Parts
      /\ half = 1 => x = <<b, file[h][2]>>
      /\ half = 2 => x = <<file[h][1], b>>
  BY <1>1 DEF Parts
<1>3. file' = [file EXCEPT ![h] = x]
  OBVIOUS
<1> HIDE DEF x
<1>4. file' \in FileT /\ file'[h] = x /\ \A p \in Names \ {h} : file'[p] = file[p]
  BY <1>2, <1>3 DEF FileT
<1>5. QED
  BY <1>2, <1>4, Tokens

LEMMA WritesStep ==
  ASSUME IInv, NEW w \in Windows, WritesFirst(w) \/ WritesSecond(w)
  PROVE  IInv'
<1>1. PICK from \in {"open", "half"}, to \in {"half", "full"}, half \in {1, 2} :
        /\ DownloadWrites(w, from, to, half)
        /\ from = "open" => to = "half" /\ half = 1
        /\ from = "half" => to = "full" /\ half = 2
  BY DEF WritesFirst, WritesSecond
<1>2. /\ win \in [Windows -> WinT] /\ Typed /\ win[w].pc = from /\ file \in FileT
      /\ mode \in BOOLEAN /\ solo \in BOOLEAN
      /\ helper \in {"none", "waiting", "deleted", "moved"}
  BY <1>1, Shapes DEF IInv, Typed, DownloadWrites
<1>3. UNCHANGED <<release, os>> /\ mode' = mode /\ helper' = helper /\ os' = os /\ solo' = solo
  BY <1>1 DEF DownloadWrites
<1>4. /\ Goes(w) /\ win'[w].pc = to /\ win'[w].want = win[w].want
      /\ win'[w].got = win[w].got /\ win'[w].handle = win[w].handle
  BY <1>1, <1>2, SetPc, PcNames DEF DownloadWrites, Downloading
<1>5. win[w].got \in Builds /\ win[w].want \in Builds /\ win[w].handle \in Names \cup {"gone", None}
      /\ (win[w].handle \in Names => file[win[w].handle] # None)
  BY <1>2 DEF Typed, Handles, Handled, Downloading, WinT, Names
<1>6. /\ file' \in FileT
      /\ \A p \in Names : file[p] # None => file'[p] # None
      /\ \A p \in Names : p # win[w].handle => file'[p] = file[p]
  <2>1. CASE win[w].handle \in Names
    <3>1. file' = [file EXCEPT ![win[w].handle][half] = win[w].got]
      BY <1>1, <2>1, Tokens DEF DownloadWrites, Names
    <3>2. QED
      BY <1>2, <1>5, <2>1, <3>1, HalfSet
  <2>2. CASE win[w].handle \notin Names
    <3>1. CASE win[w].handle = "gone"
      BY <1>1, <1>2, <3>1 DEF DownloadWrites
    <3>2. CASE win[w].handle = None
      <4>1. file' = [file EXCEPT ![None][half] = win[w].got]
        BY <1>1, <3>2, Tokens DEF DownloadWrites
      <4>2. file' = file
        BY <1>2, <4>1, Tokens DEF FileT
      <4>3. QED
        BY <1>2, <4>2
    <3>3. QED
      BY <1>5, <2>2, <3>1, <3>2
  <2>3. QED
    BY <2>1, <2>2
<1>7. win' \in [Windows -> WinT] /\ \A v \in Windows \ {w} : win'[v] = win[v]
  BY <1>4 DEF Goes
<1>8. Handles'
  <2>1. Handled(w)'
    BY <1>1, <1>4, <1>5, <1>6 DEF Handled, Downloading
  <2>2. ASSUME NEW v \in Windows \ {w} PROVE Handled(v)'
    BY <1>2, <1>6, <1>7, HandledStays DEF Typed, Handles
  <2>3. QED
    BY <2>1, <2>2 DEF Handles
<1>9. ASSUME solo PROVE Single' /\ Steps' /\ Helps' /\ Installed' /\ helper = "none"
  <2>1. UnderWay(w) /\ Sole /\ Single /\ Stepped(w)
    BY <1>2, <1>9 DEF UnderWay, IInv, Sole, Steps
  <2>2. win[w].handle = "part" /\ file["part"] # None
    BY <1>2, <1>5, <2>1 DEF Stepped, Downloading, Names
  <2>3. Stepped(w)'
    <3>1. file' = [file EXCEPT !["part"][half] = win[w].got]
      BY <1>1, <2>2 DEF DownloadWrites
    <3>2. /\ half = 1 => file'["part"] = <<win[w].got, file["part"][2]>>
          /\ half = 2 => file'["part"] = <<file["part"][1], win[w].got>>
      BY <1>2, <1>5, <2>2, <3>1, HalfSet DEF Names
    <3>3. CASE from = "open"
      BY <1>1, <1>2, <1>4, <2>1, <2>2, <3>2, <3>3 DEF Stepped, Downloading
    <3>4. CASE from = "half"
      BY <1>1, <1>2, <1>4, <2>1, <2>2, <3>2, <3>4 DEF Stepped, Downloading
    <3>5. QED
      BY <3>3, <3>4
  <2>4. helper' = "none"
    BY <1>3, <2>1 DEF Single
  <2>5. Single' /\ Steps' /\ helper = "none" /\ Whole("exe")
    BY <1>7, <1>9, <2>1, <2>3, <2>4, UnderWayStep
  <2>6. QED
    BY <1>6, <2>2, <2>4, <2>5, WholeStays DEF Helps, Installed, Names
<1>10. Helped'
  <2>1. helper # "deleted"
    BY <1>2 DEF Typed, Helped
  <2>2. QED
    BY <1>2, <1>3, <2>1 DEF Typed, Helped
<1>11. Typed'
  BY <1>2, <1>3, <1>6, <1>7, <1>8, <1>10, MachineTyped
<1>12. QED
  BY <1>3, <1>9, <1>11 DEF IInv, Sole

LEMMA GivesUpStep ==
  ASSUME IInv, NEW w \in Windows, UnderWay(w), NEW paths \in SUBSET {"part", "staged"},
         GivesUp(w, paths)
  PROVE  IInv'
<1>1. /\ win \in [Windows -> WinT] /\ Typed /\ mode \in BOOLEAN /\ solo \in BOOLEAN
      /\ helper \in {"none", "waiting", "deleted", "moved"} /\ paths \in SUBSET Names
      /\ win[w].pc \notin {"off", "up"}
  BY Shapes DEF IInv, Typed, Names, UnderWay
<1>2. UNCHANGED <<release, os>> /\ mode' = mode /\ helper' = helper /\ os' = os /\ solo' = solo
  BY DEF GivesUp
<1>3. /\ Moves(w) /\ win'[w].pc = "failed"
      /\ \A v \in Windows \ {w} : win'[v].handle = IF win[v].handle \in paths THEN "gone" ELSE win[v].handle
      /\ file' \in FileT
      /\ \A p \in Names : file'[p] = IF p \in paths THEN None ELSE file[p]
  BY <1>1, GivenUp
<1>4. Handles'
  <2>1. Handled(w)'
    BY <1>1, <1>3, Tokens DEF Handled, Downloading, Moves, Typed, Handles
  <2>2. ASSUME NEW v \in Windows \ {w} PROVE Handled(v)'
    <3>1. Handled(v) /\ Kept(v)
      BY <1>1, <1>3 DEF Moves, Typed, Handles
    <3>2. CASE win[v].handle \in paths
      <4>1. win'[v].handle = "gone" /\ win[v].handle # None
        BY <1>1, <1>3, <3>2, Tokens
      <4>2. "gone" \notin Names
        BY DEF Names
      <4>3. QED
        BY <3>1, <4>1, <4>2 DEF Handled, Kept
    <3>3. CASE win[v].handle \notin paths
      <4>1. win'[v].handle = win[v].handle
        BY <1>3, <3>3
      <4>2. win[v].handle \in Names => file'[win[v].handle] = file[win[v].handle]
        BY <1>3, <3>3
      <4>3. QED
        BY <3>1, <4>1, <4>2 DEF Handled, Kept
    <3>4. QED
      BY <3>2, <3>3
  <2>3. QED
    BY <2>1, <2>2 DEF Handles
<1>5. helper # "deleted"
  BY <1>1 DEF Typed, Helped
<1>6. Helped'
  BY <1>1, <1>2, <1>5 DEF Typed, Helped
<1>7. Typed'
  BY <1>1, <1>2, <1>3, <1>4, <1>6, MachineTyped DEF Moves
<1>8. ASSUME solo PROVE Single' /\ Steps' /\ Helps' /\ Installed'
  <2>1. Sole /\ Single
    BY <1>8 DEF IInv, Sole
  <2>2. Stepped(w)'
    BY <1>3 DEF Stepped, Downloading
  <2>3. helper' = "none"
    BY <1>2, <2>1 DEF Single
  <2>4. Single' /\ Steps' /\ helper = "none" /\ Whole("exe")
    BY <1>3, <1>8, <2>1, <2>2, <2>3, UnderWayStep DEF Moves, Kept
  <2>5. file'["exe"] = file["exe"]
    BY <1>3 DEF Names
  <2>6. QED
    BY <2>3, <2>4, <2>5, WholeStays DEF Helps, Installed, Names
<1>9. QED
  BY <1>2, <1>7, <1>8 DEF IInv, Sole

LEMMA DownloadFailsStep ==
  ASSUME IInv, NEW w \in Windows, DownloadFails(w)
  PROVE  IInv'
<1>1. UnderWay(w)
  BY DEF DownloadFails, UnderWay, Verifies
<1>2. GivesUp(w, {"part", "staged"}) \/ GivesUp(w, {"staged"})
  BY DEF DownloadFails
<1>3. QED
  BY <1>1, <1>2, GivesUpStep

-----------------------------------------------------------------------------
(* A file moves into the place of another. *)

LEMMA HandledMoves ==
  ASSUME NEW v \in Windows, Handled(v), Kept(v), NEW from \in Names, NEW to \in Names,
         from # to, file[from] # None, file'[to] = file[from],
         \A p \in Names \ {from, to} : file'[p] = file[p],
         win'[v].handle = IF win[v].handle = from THEN to
                          ELSE IF win[v].handle = to THEN "gone" ELSE win[v].handle
  PROVE  Handled(v)'
<1>1. "gone" \notin Names /\ None \notin Names
  BY Tokens DEF Names
<1>2. CASE win[v].handle = from
  BY <1>1, <1>2 DEF Handled, Kept
<1>3. CASE win[v].handle = to
  BY <1>1, <1>3 DEF Handled, Kept
<1>4. CASE win[v].handle \notin {from, to}
  <2>1. win'[v].handle = win[v].handle
    BY <1>4
  <2>2. win[v].handle \in Names => file'[win[v].handle] = file[win[v].handle]
    BY <1>4
  <2>3. QED
    BY <2>1, <2>2 DEF Handled, Kept
<1>5. QED
  BY <1>2, <1>3, <1>4

LEMMA MoveStep ==
  ASSUME IInv, NEW w \in Windows, UnderWay(w), NEW from \in Names, NEW to \in Names, from # to,
         file[from] # None, file' = [file EXCEPT ![to] = file[from], ![from] = None],
         NEW x \in WinT, win' = [Renamed(w, from, to) EXCEPT ![w] = x],
         x.handle = None, x.pc \notin Downloading, x.want = win[w].want,
         UNCHANGED <<release, helper, os, solo>>, mode' \in BOOLEAN,
         solo => Stepped(w)' /\ Whole("exe")'
  PROVE  IInv'
<1>1. /\ win \in [Windows -> WinT] /\ Typed /\ solo \in BOOLEAN
      /\ helper \in {"none", "waiting", "deleted", "moved"}
      /\ win[w].pc \notin {"off", "up"}
  BY Shapes DEF IInv, Typed, UnderWay
<1>2. UNCHANGED <<release, os>> /\ helper' = helper /\ os' = os /\ solo' = solo
  OBVIOUS
<1> DEFINE u == Renamed(w, from, to)
<1>3. u \in [Windows -> WinT]
  BY <1>1, RenamedDoes
<1>4. win' = [u EXCEPT ![w] = x]
  OBVIOUS
<1>5. u = Renamed(w, from, to)
  OBVIOUS
<1> HIDE DEF u
<1>6. win' \in [Windows -> WinT] /\ win'[w] = x /\ \A v \in Windows \ {w} : win'[v] = u[v]
  BY <1>3, <1>4
<1>7. /\ file' \in FileT /\ file'[to] = file[from] /\ file'[from] = None
      /\ \A p \in Names \ {from, to} : file'[p] = file[p]
      /\ \A v \in Windows \ {w} :
           /\ Kept(v)
           /\ win'[v].handle = IF win[v].handle = from THEN to
                               ELSE IF win[v].handle = to THEN "gone" ELSE win[v].handle
  <2>1. file \in FileT
    BY Shapes DEF IInv, Typed
  <2>2. /\ file' \in FileT /\ file'[to] = file[from] /\ file'[from] = None
        /\ \A p \in Names \ {from, to} : file'[p] = file[p]
    BY <2>1 DEF FileT
  <2>3. \A v \in Windows \ {w} :
           /\ u[v].pc = win[v].pc /\ u[v].ver = win[v].ver
           /\ u[v].want = win[v].want /\ u[v].got = win[v].got
           /\ u[v].handle = IF win[v].handle = from THEN to
                            ELSE IF win[v].handle = to THEN "gone" ELSE win[v].handle
    BY <1>1, <1>5, RenamedDoes
  <2>4. ASSUME NEW v \in Windows \ {w}
        PROVE  /\ Kept(v)
               /\ win'[v].handle = IF win[v].handle = from THEN to
                                   ELSE IF win[v].handle = to THEN "gone" ELSE win[v].handle
    <3>1. win'[v] = u[v]
      BY <1>6
    <3>2. QED
      BY <2>3, <3>1 DEF Kept
  <2>5. QED
    BY <2>2, <2>4
<1>8. Handles'
  <2>1. win[w].want \in Builds
    BY <1>1 DEF Typed, Handles, Handled
  <2>2. Handled(w)'
    BY <1>6, <2>1, Tokens DEF Handled
  <2>3. ASSUME NEW v \in Windows \ {w} PROVE Handled(v)'
    <3>1. Handled(v)
      BY <1>1 DEF Typed, Handles
    <3>2. QED
      BY <1>7, <3>1, HandledMoves
  <2>4. QED
    BY <2>2, <2>3 DEF Handles
<1>9. Helped'
  <2>1. helper # "deleted"
    BY <1>1 DEF Typed, Helped
  <2>2. QED
    BY <1>1, <1>2, <2>1 DEF Typed, Helped
<1>10. Typed'
  BY <1>1, <1>2, <1>6, <1>7, <1>8, <1>9, MachineTyped
<1>11. ASSUME solo PROVE Single' /\ Steps' /\ Helps' /\ Installed'
  <2>1. Sole /\ Single
    BY <1>11 DEF IInv, Sole
  <2>2. helper' = "none"
    BY <1>2, <2>1 DEF Single
  <2>3. Single' /\ Steps'
    BY <1>7, <1>11, <2>1, <2>2, UnderWayStep DEF Kept
  <2>4. QED
    BY <1>11, <2>2, <2>3 DEF Helps, Installed
<1>12. QED
  BY <1>2, <1>10, <1>11 DEF IInv, Sole

LEMMA DownloadEndsStep ==
  ASSUME IInv, NEW w \in Windows, DownloadEnds(w)
  PROVE  IInv'
<1>1. /\ win \in [Windows -> WinT] /\ file \in FileT /\ mode \in BOOLEAN
      /\ win[w].pc = "full" /\ win[w].got = win[w].want /\ file["part"] # None
  BY Shapes DEF IInv, Typed, DownloadEnds, Verifies
<1>2. file' = [file EXCEPT !["staged"] = file["part"], !["part"] = None]
  BY DEF DownloadEnds
<1>3. file'["staged"] = file["part"] /\ file'["exe"] = file["exe"]
  BY <1>1, <1>2 DEF FileT, Names
<1> DEFINE u == Renamed(w, "part", "staged")
<1>4. u \in [Windows -> WinT] /\ u[w] = win[w]
  BY <1>1, RenamedDoes DEF Names
<1>5. win' = [u EXCEPT ![w].pc = "staged", ![w].got = None, ![w].handle = None]
  BY DEF DownloadEnds
<1> HIDE DEF u
<1> DEFINE x == [win[w] EXCEPT !.pc = "staged", !.got = None, !.handle = None]
<1>6. win' = [u EXCEPT ![w] = x]
  BY <1>4, <1>5
<1>7. x \in WinT /\ x.pc = "staged" /\ x.handle = None /\ x.want = win[w].want
  BY <1>1, PcNames DEF WinT
<1> HIDE DEF x
<1>8. win'[w] = x
  BY <1>4, <1>6
<1>9. ASSUME solo PROVE Stepped(w)' /\ Whole("exe")'
  <2>1. Stepped(w) /\ Installed
    BY <1>9 DEF IInv, Sole, Steps
  <2>2. file'["staged"] = <<win[w].want, win[w].want>>
    BY <1>1, <1>3, <2>1 DEF Stepped
  <2>3. Stepped(w)'
    BY <1>7, <1>8, <2>2 DEF Stepped, Downloading
  <2>4. Whole("exe")
    BY <1>1, <2>1 DEF Installed
  <2>5. QED
    BY <1>3, <2>3, <2>4, WholeStays DEF Names
<1>10. UnderWay(w) /\ UNCHANGED <<release, helper, os, solo>> /\ mode' \in BOOLEAN
  BY <1>1 DEF UnderWay, DownloadEnds
<1>11. x.pc \notin Downloading /\ {"part", "staged"} \subseteq Names /\ "part" # "staged"
  BY <1>7 DEF Downloading, Names
<1>12. win' = [Renamed(w, "part", "staged") EXCEPT ![w] = x]
  BY <1>6 DEF u
<1>13. QED
  BY <1>1, <1>2, <1>7, <1>9, <1>10, <1>11, <1>12, MoveStep

-----------------------------------------------------------------------------
(* The swap *)

LEMMA SwapsStep ==
  ASSUME IInv, NEW w \in Windows, Swaps(w)
  PROVE  IInv'
<1>1. /\ win \in [Windows -> WinT] /\ file \in FileT
      /\ win[w].pc = "staged" /\ file["staged"] # None /\ Handled(w)
  BY Shapes DEF IInv, Typed, Handles, Swaps
<1>2. file' = [file EXCEPT !["exe"] = file["staged"], !["staged"] = None]
  BY DEF Swaps
<1>3. file'["exe"] = file["staged"]
  BY <1>1, <1>2 DEF FileT, Names
<1> DEFINE u == Renamed(w, "staged", "exe")
<1>4. u \in [Windows -> WinT] /\ u[w] = win[w]
  BY <1>1, RenamedDoes DEF Names
<1>5. win' = [u EXCEPT ![w].pc = "swapped"]
  BY DEF Swaps
<1> HIDE DEF u
<1> DEFINE x == [win[w] EXCEPT !.pc = "swapped"]
<1>6. win' = [u EXCEPT ![w] = x]
  BY <1>4, <1>5
<1>7. x \in WinT /\ x.pc = "swapped" /\ x.handle = win[w].handle /\ x.want = win[w].want
  BY <1>1, PcNames DEF WinT
<1> HIDE DEF x
<1>8. win'[w] = x /\ x.handle = None
  BY <1>1, <1>4, <1>6, <1>7 DEF Handled, Downloading
<1>9. ASSUME solo PROVE Stepped(w)' /\ Whole("exe")'
  <2>1. file'["exe"] = <<win[w].want, win[w].want>>
    BY <1>1, <1>3, <1>9 DEF IInv, Sole, Steps, Stepped
  <2>2. win[w].want \in Builds
    BY <1>1 DEF Handled
  <2>3. Stepped(w)'
    BY <1>7, <1>8, <2>1 DEF Stepped, Downloading
  <2>4. QED
    BY <2>1, <2>2, <2>3 DEF Whole
<1>10. UnderWay(w) /\ UNCHANGED <<release, helper, os, solo>> /\ mode' \in BOOLEAN
  BY <1>1 DEF UnderWay, Swaps
<1>11. x.pc \notin Downloading /\ {"staged", "exe"} \subseteq Names /\ "staged" # "exe"
  BY <1>7 DEF Downloading, Names
<1>12. win' = [Renamed(w, "staged", "exe") EXCEPT ![w] = x]
  BY <1>6 DEF u
<1>13. QED
  BY <1>1, <1>2, <1>7, <1>8, <1>9, <1>10, <1>11, <1>12, MoveStep

LEMMA MarksStep ==
  ASSUME IInv, NEW w \in Windows, Marks(w)
  PROVE  IInv'
<1>1. /\ win \in [Windows -> WinT] /\ Typed /\ win[w].pc = "swapped" /\ file \in FileT
      /\ solo \in BOOLEAN /\ helper \in {"none", "waiting", "deleted", "moved"}
  BY Shapes DEF IInv, Typed, Marks
<1>2. /\ UNCHANGED <<release, os>> /\ file' = file /\ helper' = helper /\ os' = os
      /\ solo' = solo /\ mode' \in BOOLEAN
  BY DEF Marks
<1>3. /\ Goes(w) /\ win'[w].pc = "marked" /\ win'[w].want = win[w].want
      /\ win'[w].handle = win[w].handle
  BY <1>1, SetPc, PcNames DEF Marks
<1>4. win' \in [Windows -> WinT] /\ \A v \in Windows \ {w} : win'[v] = win[v]
  BY <1>3 DEF Goes
<1>5. Handles'
  <2>1. Handled(w)'
    BY <1>1, <1>3, Tokens DEF Typed, Handles, Handled, Downloading
  <2>2. ASSUME NEW v \in Windows \ {w} PROVE Handled(v)'
    BY <1>1, <1>2, <1>4, HandledStays DEF Typed, Handles
  <2>3. QED
    BY <2>1, <2>2 DEF Handles
<1>6. Helped'
  BY <1>1, <1>2 DEF Typed, Helped
<1>7. Typed'
  BY <1>1, <1>2, <1>4, <1>5, <1>6, MachineTyped
<1>8. ASSUME solo PROVE Single' /\ Steps' /\ Helps' /\ Installed'
  <2>1. UnderWay(w) /\ Sole /\ Single /\ Stepped(w)
    BY <1>1, <1>8 DEF UnderWay, IInv, Sole, Steps
  <2>2. Stepped(w)'
    BY <1>1, <1>2, <1>3, <2>1 DEF Stepped, Downloading
  <2>3. helper' = "none"
    BY <1>2, <2>1 DEF Single
  <2>4. Single' /\ Steps' /\ Whole("exe")
    BY <1>4, <1>8, <2>1, <2>2, <2>3, UnderWayStep
  <2>5. QED
    BY <1>2, <2>3, <2>4, WholeStays DEF Helps, Installed, Names
<1>9. QED
  BY <1>2, <1>7, <1>8 DEF IInv, Sole

LEMMA ApplyFailsStep ==
  ASSUME IInv, NEW w \in Windows, ApplyFails(w)
  PROVE  IInv'
<1>1. win[w].pc \in {"staged", "swapped", "marked"} /\ UnderWay(w) /\ win \in [Windows -> WinT]
  BY Shapes DEF ApplyFails, UnderWay, IInv, Typed
<1>2. CASE GivesUp(w, {"staged"})
  BY <1>1, <1>2, GivesUpStep
<1>3. CASE win' = [win EXCEPT ![w] = Off] /\ UNCHANGED <<release, files, os, solo>>
  <2>1. UNCHANGED <<release, file, mode, os, solo>> /\ helper' = helper
    BY <1>3 DEF files
  <2>2. QED
    BY <1>1, <1>3, <2>1, Offed, RestStep
<1>4. QED
  BY <1>2, <1>3 DEF ApplyFails

-----------------------------------------------------------------------------
(* The helper *)

LEMMA LeavesStep ==
  ASSUME IInv, NEW w \in Windows, Leaves(w)
  PROVE  IInv'
<1>1. /\ win \in [Windows -> WinT] /\ Typed /\ win[w].pc = "staged" /\ file \in FileT
      /\ mode \in BOOLEAN /\ solo \in BOOLEAN /\ os = "nt"
  BY Shapes DEF IInv, Typed, Leaves
<1>2. /\ UNCHANGED <<release, os>> /\ file' = file /\ mode' = mode /\ os' = os
      /\ solo' = solo /\ helper' = "waiting"
  BY DEF Leaves
<1>3. Goes(w) /\ win'[w].pc = "off" /\ win'[w].handle = None
  BY <1>1, Offed DEF Leaves
<1>4. win' \in [Windows -> WinT] /\ \A v \in Windows \ {w} : win'[v] = win[v]
  BY <1>3 DEF Goes
<1>5. Handles'
  <2>1. Handled(w)'
    BY <1>3, Tokens DEF Handled, Downloading
  <2>2. ASSUME NEW v \in Windows \ {w} PROVE Handled(v)'
    BY <1>1, <1>2, <1>4, HandledStays DEF Typed, Handles
  <2>3. QED
    BY <2>1, <2>2 DEF Handles
<1>6. Helped'
  BY <1>1, <1>2 DEF Helped
<1>7. Typed'
  BY <1>1, <1>2, <1>4, <1>5, <1>6, MachineTyped
<1>8. ASSUME solo PROVE Single' /\ Steps' /\ Helps' /\ Installed'
  <2>1. UnderWay(w) /\ Sole /\ Stepped(w)
    BY <1>1, <1>8 DEF UnderWay, IInv, Sole, Steps
  <2>2. ~ UnderWay(w)' /\ Stepped(w)'
    BY <1>3 DEF UnderWay, Stepped, Downloading
  <2>3. Single' /\ Steps' /\ Whole("exe")
    BY <1>4, <1>8, <2>1, <2>2, UnderWayStep
  <2>4. win[w].want \in Builds /\ file["staged"] = <<win[w].want, win[w].want>>
    BY <1>1, <2>1 DEF Stepped, Typed, Handles, Handled
  <2>5. Whole("staged") /\ Whole("staged")'
    BY <1>2, <2>4 DEF Whole
  <2>6. QED
    BY <1>2, <2>3, <2>5, WholeStays DEF Helps, Installed, Names
<1>9. QED
  BY <1>2, <1>7, <1>8 DEF IInv, Sole

(* Steps that find, or leave, every window off. *)
LEMMA QuietTyped ==
  ASSUME IInv, UNCHANGED <<release, os, mode, solo>>, file' \in FileT,
         win' \in [Windows -> WinT],
         \A w \in Windows : win'[w].pc = "off" /\ win'[w].handle = None,
         helper' \in {"none", "waiting", "deleted", "moved"},
         helper' # "none" => os = "nt",
         helper' = "deleted" => file'["exe"] = None
  PROVE  Typed' /\ Single' /\ Steps'
<1>1. UNCHANGED <<release, os>> /\ os' = os
  OBVIOUS
<1>2. mode' \in BOOLEAN /\ solo' \in BOOLEAN
  BY Shapes DEF IInv, Typed
<1>3. Handles'
  BY Tokens DEF Handles, Handled, Downloading
<1>4. Helped'
  BY <1>1 DEF Helped
<1>5. Typed'
  BY <1>1, <1>2, <1>3, <1>4, MachineTyped DEF IInv
<1>6. Single' /\ Steps'
  BY DEF Single, UnderWay, Steps, Stepped, Downloading
<1>7. QED
  BY <1>5, <1>6

LEMMA OffHasNoHandle ==
  ASSUME IInv, NEW w \in Windows, win[w].pc = "off"
  PROVE  win[w].handle = None
BY DEF IInv, Typed, Handles, Handled, Downloading

LEMMA HelperDeletesStep ==
  ASSUME IInv, HelperDeletes
  PROVE  IInv'
<1>1. /\ win \in [Windows -> WinT] /\ file \in FileT /\ os = "nt" /\ os' = os
      /\ win' = win /\ helper' = "deleted" /\ solo' = solo
      /\ UNCHANGED <<release, os, mode, solo>>
  BY Shapes DEF IInv, Typed, Helped, HelperDeletes
<1>2. \A w \in Windows : win[w].pc = "off" /\ win[w].handle = None
  BY OffHasNoHandle DEF HelperDeletes
<1>3. \A w \in Windows : win'[w].pc = "off" /\ win'[w].handle = None
  BY <1>1, <1>2
<1>4. file' \in FileT /\ file'["exe"] = None /\ file'["staged"] = file["staged"]
  <2>1. file' = [file EXCEPT !["exe"] = None]
    BY DEF HelperDeletes
  <2>2. QED
    BY <1>1, <2>1 DEF FileT, Names
<1>5. Typed' /\ Single' /\ Steps'
  BY <1>1, <1>3, <1>4, QuietTyped
<1>6. ASSUME solo PROVE Helps' /\ Installed'
  <2>1. Whole("staged")
    BY <1>6 DEF IInv, Sole, Helps, HelperDeletes
  <2>2. Whole("staged")'
    BY <1>4, <2>1, WholeStays DEF Names
  <2>3. QED
    BY <1>1, <1>3, <1>4, <2>2 DEF Helps, Installed
<1>7. QED
  BY <1>1, <1>5, <1>6 DEF IInv, Sole

LEMMA HelperMovesStep ==
  ASSUME IInv, HelperMoves
  PROVE  IInv'
<1>1. /\ win \in [Windows -> WinT] /\ file \in FileT /\ os = "nt" /\ os' = os
      /\ win' = win /\ helper' = "moved" /\ solo' = solo
      /\ UNCHANGED <<release, os, mode, solo>>
  BY Shapes DEF IInv, Typed, Helped, HelperMoves
<1>2. \A w \in Windows : win[w].pc = "off" /\ win[w].handle = None
  BY OffHasNoHandle DEF HelperMoves, IInv, Typed, Helped
<1>3. \A w \in Windows : win'[w].pc = "off" /\ win'[w].handle = None
  BY <1>1, <1>2
<1>4. file' \in FileT /\ file'["exe"] = file["staged"]
  <2>1. file' = [file EXCEPT !["exe"] = file["staged"], !["staged"] = None]
    BY DEF HelperMoves
  <2>2. QED
    BY <1>1, <2>1 DEF FileT, Names
<1>5. Typed' /\ Single' /\ Steps'
  BY <1>1, <1>3, <1>4, QuietTyped
<1>6. ASSUME solo PROVE Helps' /\ Installed'
  <2>1. Whole("staged")
    BY <1>6 DEF IInv, Sole, Helps, HelperMoves
  <2>2. Whole("exe")'
    BY <1>4, <2>1 DEF Whole
  <2>3. QED
    BY <1>1, <2>2 DEF Helps, Installed
<1>7. QED
  BY <1>1, <1>5, <1>6 DEF IInv, Sole

LEMMA HelperStartsStep ==
  ASSUME IInv, HelperStarts
  PROVE  IInv'
<1>1. /\ UNCHANGED <<release, file, mode, os, solo>> /\ helper = "moved" /\ helper' = "none"
      /\ file' = file /\ mode' = mode /\ os' = os /\ solo' = solo
  BY DEF HelperStarts
<1>2. CASE UNCHANGED win
  <2>1. /\ win \in [Windows -> WinT] /\ Typed /\ file \in FileT
        /\ mode \in BOOLEAN /\ solo \in BOOLEAN
    BY Shapes DEF IInv, Typed
  <2>2. Handles' /\ Helped'
    BY <1>1, <1>2, <2>1 DEF Typed, Handles, Handled, Helped
  <2>3. Typed'
    BY <1>1, <1>2, <2>1, <2>2, MachineTyped
  <2>4. Sole'
    BY <1>1, <1>2 DEF IInv, Sole, Single, UnderWay, Steps, Stepped, Helps, Installed, Whole
  <2>5. QED
    BY <2>3, <2>4 DEF IInv
<1>3. ASSUME NEW w \in Windows, win[w].pc = "off", Boots(w) PROVE IInv'
  <2>1. Goes(w) /\ Whole("exe") /\ win'[w].pc = "up" /\ win'[w].handle = None
    BY <1>3, Booted DEF IInv
  <2>2. QED
    BY <1>1, <2>1, RestStep
<1>4. QED
  BY <1>2, <1>3 DEF HelperStarts

LEMMA PowerFailsStep ==
  ASSUME IInv, PowerFails
  PROVE  IInv'
<1>1. /\ file \in FileT /\ file' = file /\ os' = os /\ helper' = "none" /\ solo' = solo
      /\ UNCHANGED <<release, os, mode, solo>>
  BY Shapes DEF IInv, Typed, PowerFails
<1>2. /\ win' \in [Windows -> WinT]
      /\ \A w \in Windows : win'[w].pc = "off" /\ win'[w].handle = None
  BY OffWin DEF PowerFails
<1>3. Typed' /\ Single' /\ Steps'
  BY <1>1, <1>2, QuietTyped
<1>4. ASSUME solo PROVE Helps' /\ Installed'
  BY <1>1, <1>2, <1>4 DEF IInv, Sole, Installed, Helps, Whole
<1>5. QED
  BY <1>1, <1>3, <1>4 DEF IInv, Sole

LEMMA StutterStep ==
  ASSUME IInv, UNCHANGED vars
  PROVE  IInv'
BY DEF vars, release, machine, files, IInv, Typed, TypeOK, Handles, Handled, Scripts, Helped,
       Sole, Single, UnderWay, Steps, Stepped, Helps, Installed, Whole

-----------------------------------------------------------------------------
LEMMA NextStep ==
  ASSUME IInv, [Next]_vars
  PROVE  IInv'
<1>1. CASE UNCHANGED vars
  BY <1>1, StutterStep
<1>2. ASSUME NEW k \in Platforms,
             \/ ScriptPutsAsset(k) \/ ScriptFetches(k)
             \/ ScriptPutsManifest(k) \/ ScriptFails(k)
      PROVE  IInv'
  BY <1>2, ScriptStep
<1>3. ASSUME NEW w \in Windows,
             \/ Start(w) \/ CheckFinds(w) \/ Click(w) \/ Closes(w)
             \/ DownloadOpens(w) \/ WritesFirst(w) \/ WritesSecond(w)
             \/ DownloadEnds(w) \/ DownloadFails(w)
             \/ Swaps(w) \/ Marks(w) \/ Execs(w) \/ ApplyFails(w) \/ Leaves(w)
      PROVE  IInv'
  BY <1>3, StartStep, FoundStep, DownloadOpensStep, WritesStep, DownloadEndsStep,
     DownloadFailsStep, SwapsStep, MarksStep, ApplyFailsStep, LeavesStep
<1>4. CASE HelperDeletes \/ HelperMoves \/ HelperStarts \/ PowerFails
  BY <1>4, HelperDeletesStep, HelperMovesStep, HelperStartsStep, PowerFailsStep
<1>5. QED
  BY <1>1, <1>2, <1>3, <1>4 DEF Next

(* The typed state and what an update that is alone adds to it are         *)
(* inductive: the windows, the helper and the release script keep them.    *)
THEOREM Invariance == Spec => []IInv
<1>1. Init => IInv
  BY InitTyped, InitSole DEF IInv
<1>2. IInv /\ [Next]_vars => IInv'
  BY NextStep
<1>3. QED
  BY <1>1, <1>2, PTL DEF Spec

(* Every variable keeps its type, for any number of windows and platforms. *)
THEOREM TypeCorrect == Spec => []TypeOK
<1>1. IInv => TypeOK
  BY DEF IInv, Typed
<1>2. QED
  BY <1>1, Invariance, PTL

(* updater.py downloads beside the binary, verifies and renames: whatever  *)
(* step a window, the helper or the machine is stopped at, the installed   *)
(* binary is whole, or the one that the helper moves is, as long as no two *)
(* updates have overlapped.                                                *)
THEOREM BinariesAreWhole == Spec => []ExeWhole
<1>1. IInv => ExeWhole
  <2> SUFFICES ASSUME IInv, solo
               PROVE  Whole("exe") \/ (os = "nt" /\ file.exe = None /\ Whole("staged"))
    BY DEF ExeWhole
  <2>1. QED
    BY DEF IInv, Sole, Installed
<1>2. QED
  BY <1>1, Invariance, PTL

(* _apply_posix executes what was verified: the build that runs after the  *)
(* swap is the one whose hash the window read, whatever is published and   *)
(* whatever the other windows do meanwhile, short of an update.            *)
THEOREM RestartsAreVerified == Spec => RestartsVerified
<1>1. IInv /\ [Next]_vars =>
        [\A w \in Windows : solo /\ Execs(w) => win'[w].ver = win[w].want]_vars
  <2> SUFFICES ASSUME IInv, NEW w \in Windows, solo, Execs(w)
               PROVE  win'[w].ver = win[w].want
    OBVIOUS
  <2>1. win[w].pc = "marked" /\ Boots(w)
    BY DEF Execs
  <2>2. file["exe"] = <<win[w].want, win[w].want>>
    BY <2>1 DEF IInv, Sole, Steps, Stepped
  <2>3. win'[w].ver = file["exe"][1]
    BY <2>1, Booted DEF IInv
  <2>4. QED
    BY <2>2, <2>3
<1>2. QED
  BY <1>1, Invariance, PTL DEF Spec, RestartsVerified

-----------------------------------------------------------------------------
(* The refinement: with files, windows and a helper between them, the build *)
(* that is installed changes as AtomicUpdate says.                         *)

LEMMA AimingIs ==
  /\ Aiming \cap {"off", "up", "failed", "swapped", "marked"} = {}
  /\ {"found", "open", "half", "full", "staged"} = Aiming /\ Downloading \subseteq Aiming
BY DEF Aiming, Downloading

LEMMA PendingOfWindow ==
  ASSUME IInv, solo, NEW w \in Windows, win[w].pc \in Aiming
  PROVE  Pending = {win[w].want} /\ win[w].want \in Builds /\ helper = "none" /\ Whole("exe")
<1>1. UnderWay(w) /\ win[w].pc # "off" /\ Handled(w)
  BY AimingIs DEF UnderWay, IInv, Typed, Handles
<1>2. win[w].want \in Builds
  BY <1>1 DEF Handled, UnderWay
<1>3. helper = "none" /\ \A v \in Windows : win[v].pc \in Aiming => v = w
  BY <1>1, AimingIs DEF IInv, Sole, Single, UnderWay
<1>4. Whole("exe")
  BY <1>1 DEF IInv, Sole, Installed
<1>5. QED
  BY <1>2, <1>3, <1>4 DEF Pending

LEMMA PendingOfNone ==
  ASSUME solo => helper # "waiting" /\ \A w \in Windows : win[w].pc \notin Aiming
  PROVE  Pending = {}
BY DEF Pending

LEMMA PendingOfNoneNext ==
  ASSUME solo' => helper' # "waiting" /\ \A w \in Windows : win'[w].pc \notin Aiming
  PROVE  Pending' = {}
BY DEF Pending

LEMMA CurrentIs ==
  /\ ~ solo => Current = None
  /\ solo /\ Whole("exe") => Current = file["exe"][1]
  /\ solo /\ ~ Whole("exe") /\ Whole("staged") => Current = file["staged"][1]
BY DEF Current

LEMMA CurrentIsNext ==
  /\ ~ solo' => Current' = None
  /\ solo' /\ Whole("exe")' => Current' = file'["exe"][1]
  /\ solo' /\ ~ Whole("exe")' /\ Whole("staged")' => Current' = file'["staged"][1]
BY DEF Current

LEMMA CurrentStays ==
  ASSUME solo' = solo, file'["exe"] = file["exe"],
         solo => Whole("exe") \/ file'["staged"] = file["staged"]
  PROVE  Current' = Current
<1>1. CASE solo /\ Whole("exe")
  BY <1>1, CurrentIs, CurrentIsNext, WholeStays DEF Names
<1>2. CASE solo /\ ~ Whole("exe")
  BY <1>2 DEF Current, Whole
<1>3. CASE ~ solo
  BY <1>3, CurrentIs, CurrentIsNext
<1>4. QED
  BY <1>1, <1>2, <1>3

LEMMA OffersShrink ==
  ASSUME latest' = latest, \A v \in Windows : win'[v].want \in {win[v].want, None, latest.sha[Mine]}
  PROVE  Offers' \subseteq Offers
BY Tokens DEF Offers

(* A step that installs nothing and begins nothing. *)
LEMMA GiveUpMaps ==
  ASSUME IInv, latest' = latest, solo' = solo, solo => Current' = Current,
         \A v \in Windows : win'[v].want \in {win[v].want, None},
         solo => \A v \in Windows : win'[v].pc \in Aiming =>
                   win[v].pc \in Aiming /\ win'[v].want = win[v].want,
         solo /\ helper' = "waiting" =>
           \/ helper = "waiting" /\ file'["staged"] = file["staged"]
           \/ \E w \in Windows : win[w].pc \in Aiming
                                 /\ file'["staged"] = <<win[w].want, win[w].want>>
  PROVE  Update!GiveUp
<1>1. Offers' \subseteq Offers
  BY OffersShrink
<1>2. Current' = Current
  BY CurrentIs, CurrentIsNext
<1>3. Pending' \subseteq Pending
  <2> SUFFICES ASSUME NEW b \in Pending' PROVE b \in Pending
    OBVIOUS
  <2>1. b \in Builds /\ solo
    BY DEF Pending
  <2>2. CASE \E v \in Windows : win'[v].pc \in Aiming /\ win'[v].want = b
    BY <2>1, <2>2 DEF Pending
  <2>3. CASE helper' = "waiting" /\ file'["staged"] = <<b, b>>
    BY <2>1, <2>3 DEF Pending
  <2>4. QED
    BY <2>2, <2>3 DEF Pending
<1>4. QED
  BY <1>1, <1>2, <1>3 DEF Update!GiveUp

(* The one that publishes touches no file of this machine. *)
LEMMA ScriptMaps ==
  ASSUME IInv, NEW k \in Platforms,
         ScriptPutsAsset(k) \/ ScriptFetches(k) \/ ScriptPutsManifest(k) \/ ScriptFails(k)
  PROVE  Update!Next
<1>1. file' = file /\ helper' = helper /\ win' = win /\ solo' = solo
  BY DEF ScriptPutsAsset, ScriptFetches, ScriptPutsManifest, ScriptFails, machine, files
<1>2. Current' = Current
  BY <1>1, CurrentStays
<1>3. CASE latest' = latest
  BY <1>1, <1>2, <1>3, GiveUpMaps DEF Update!Next
<1>4. CASE ScriptPutsManifest(k)
  <2>1. latest'.sha = script[k].sha /\ script[k].sha \in Shas
    BY <1>4 DEF ScriptPutsManifest, IInv, Typed, Scripts
  <2>2. PICK b \in Builds : latest'.sha[Mine] \in {b, None}
    BY <2>1, Tokens DEF Shas
  <2>3. Offers' \subseteq Offers \cup {b}
    BY <1>1, <2>2, Tokens DEF Offers
  <2>4. Pending' = Pending
    BY <1>1 DEF Pending
  <2>5. QED
    BY <1>2, <2>3, <2>4 DEF Update!Next, Update!Advertise
<1>5. QED
  BY <1>3, <1>4 DEF ScriptPutsAsset, ScriptFetches, ScriptFails

(* A window is closed, or starts. *)
LEMMA RestMaps ==
  ASSUME IInv, NEW w \in Windows, Goes(w), win'[w].pc \in {"off", "up"}, win'[w].want = None,
         UNCHANGED <<release, file, solo>>, helper' \in {helper, "none"}
  PROVE  Update!Next
<1>1. latest' = latest /\ file' = file /\ solo' = solo
  BY DEF release
<1>2. Current' = Current
  BY <1>1, CurrentStays
<1>3. \A v \in Windows : win'[v].want \in {win[v].want, None}
  BY DEF Goes
<1>4. \A v \in Windows : win'[v].pc \in Aiming =>
        win[v].pc \in Aiming /\ win'[v].want = win[v].want
  BY AimingIs DEF Goes
<1>5. QED
  BY <1>1, <1>2, <1>3, <1>4, GiveUpMaps DEF Update!Next

LEMMA StartMaps ==
  ASSUME IInv, NEW w \in Windows, Start(w) \/ Execs(w) \/ Closes(w)
  PROVE  Update!Next
<1>1. UNCHANGED <<release, file, solo>> /\ helper' = helper
  BY DEF Start, Execs, Closes, files
<1>2. CASE Boots(w)
  BY <1>1, <1>2, Booted, RestMaps DEF IInv
<1>3. CASE Closes(w)
  <2>1. win \in [Windows -> WinT]
    BY Shapes DEF IInv, Typed
  <2>2. QED
    BY <1>1, <1>3, <2>1, Offed, RestMaps DEF Closes
<1>4. QED
  BY <1>2, <1>3 DEF Start, Execs

(* An update begins, or overlaps another. *)
LEMMA FoundMaps ==
  ASSUME IInv, NEW w \in Windows, CheckFinds(w) \/ Click(w)
  PROVE  Update!Next
<1>1. /\ win \in [Windows -> WinT] /\ win[w].pc \in {"up", "failed"} /\ latest \in Manifest
      /\ file \in FileT
  BY Shapes DEF IInv, Typed, CheckFinds, Click
<1>2. /\ file' = file /\ helper' = helper /\ latest' = latest /\ solo' = (solo /\ Alone)
  BY DEF CheckFinds, Click, files, release
<1>3. PICK b \in Builds : /\ Goes(w) /\ win'[w].pc = "found" /\ win'[w].want = b
                          /\ b \in {win[w].want, latest.sha[Mine]}
  <2>1. CASE CheckFinds(w)
    <3>1. latest.sha[Mine] \in Builds
      BY <1>1, <2>1, Tokens DEF CheckFinds, Manifest
    <3>2. QED
      BY <1>1, <2>1, <3>1, SetFound DEF CheckFinds
  <2>2. CASE Click(w)
    <3>1. win[w].want \in Builds
      BY <2>2 DEF Click, IInv, Typed, Handles, Handled
    <3>2. QED
      BY <1>1, <2>2, <3>1, SetPc, PcNames DEF Click
  <2>3. QED
    BY <2>1, <2>2
<1>4. b \in Offers /\ Offers' \subseteq Offers
  <2>1. \A v \in Windows : win'[v].want \in {win[v].want, None, latest.sha[Mine]}
    BY <1>3 DEF Goes
  <2>2. QED
    BY <1>2, <1>3, <2>1, OffersShrink DEF Offers
<1>5. CASE ~ solo
  <2>1. Pending = {} /\ Pending' = {} /\ Current = None /\ Current' = None
    BY <1>2, <1>5, PendingOfNone, PendingOfNoneNext, CurrentIs, CurrentIsNext
  <2>2. QED
    BY <1>4, <2>1 DEF Update!Next, Update!GiveUp
<1>6. ASSUME solo PROVE Whole("exe") /\ Current = file["exe"][1] /\ Current # None
  <2>1. Whole("exe")
    BY <1>1, <1>6 DEF IInv, Sole, Installed
  <2>2. file["exe"][1] \in Builds
    BY <2>1 DEF Whole
  <2>3. QED
    BY <1>6, <2>1, <2>2, CurrentIs, Tokens
<1>7. CASE solo /\ ~ Alone
  <2>1. Pending' = {} /\ Current' = None
    BY <1>2, <1>7, PendingOfNoneNext, CurrentIsNext
  <2>2. QED
    BY <1>4, <1>6, <1>7, <2>1 DEF Update!Next, Update!Overlap
<1>8. CASE solo /\ Alone
  <2>1. helper = "none" /\ \A v \in Windows : win[v].pc \notin Aiming
    BY <1>8, AimingIs DEF Alone, UnderWay
  <2>2. Pending = {}
    BY <2>1, PendingOfNone
  <2>3. solo' /\ helper' # "waiting" /\ win'[w].pc \in Aiming
        /\ \A v \in Windows \ {w} : win'[v].pc \notin Aiming
    BY <1>2, <1>3, <1>8, <2>1, AimingIs DEF Goes
  <2>4. Pending' = {b}
    BY <1>3, <2>3 DEF Pending
  <2>5. Current' = Current
    BY <1>2, <1>6, <1>8, CurrentStays
  <2>6. QED
    BY <1>4, <1>6, <1>8, <2>2, <2>4, <2>5 DEF Update!Next, Update!Begin
<1>9. QED
  BY <1>5, <1>7, <1>8

(* A step of the download: the binary is not touched, and what is pending  *)
(* is still that, or nothing.                                              *)
LEMMA WorkMaps ==
  ASSUME IInv, NEW w \in Windows, win[w].pc \in Aiming, win'[w].want = win[w].want,
         \A v \in Windows \ {w} : win'[v].pc = win[v].pc /\ win'[v].want = win[v].want,
         latest' = latest, solo' = solo, helper' = helper,
         solo => file'["exe"] = file["exe"]
  PROVE  Update!Next
<1>1. solo => helper = "none" /\ Whole("exe")
  BY PendingOfWindow
<1>2. solo => Current' = Current
  BY <1>1, CurrentStays
<1>3. \A v \in Windows : win'[v].want \in {win[v].want, None}
  OBVIOUS
<1>4. \A v \in Windows : win'[v].pc \in Aiming =>
        win[v].pc \in Aiming /\ win'[v].want = win[v].want
  OBVIOUS
<1>5. QED
  BY <1>1, <1>2, <1>3, <1>4, GiveUpMaps DEF Update!Next

LEMMA DownloadMaps ==
  ASSUME IInv, NEW w \in Windows, DownloadOpens(w) \/ WritesFirst(w) \/ WritesSecond(w)
  PROVE  Update!Next
<1>1. /\ win \in [Windows -> WinT] /\ file \in FileT /\ assets[Mine] \in Builds
      /\ win[w].pc \in {"found", "open", "half"}
  BY Shapes, Tokens DEF IInv, Typed, DownloadOpens, WritesFirst, WritesSecond, DownloadWrites
<1>2. latest' = latest /\ solo' = solo /\ helper' = helper
  BY DEF DownloadOpens, WritesFirst, WritesSecond, DownloadWrites, release
<1>3. Goes(w) /\ win'[w].want = win[w].want
  BY <1>1, SetOpen, SetPc, PcNames
     DEF DownloadOpens, WritesFirst, WritesSecond, DownloadWrites, Downloading
<1>4. ASSUME solo PROVE file'["exe"] = file["exe"]
  <2>1. CASE DownloadOpens(w)
    BY <1>1, <2>1 DEF DownloadOpens, FileT, Names
  <2>2. CASE WritesFirst(w) \/ WritesSecond(w)
    <3>1. win[w].handle = "part"
      BY <1>4, <2>2 DEF IInv, Sole, Steps, Stepped, WritesFirst, WritesSecond, DownloadWrites,
                        Downloading
    <3>2. PICK half \in {1, 2} : file' = [file EXCEPT !["part"][half] = win[w].got]
      BY <2>2, <3>1 DEF WritesFirst, WritesSecond, DownloadWrites
    <3>3. QED
      BY <1>1, <3>2 DEF FileT, Names
  <2>3. QED
    BY <2>1, <2>2
<1>5. win[w].pc \in Aiming
  BY <1>1, AimingIs
<1>6. QED
  BY <1>2, <1>3, <1>4, <1>5, WorkMaps DEF Goes

LEMMA DownloadEndsMaps ==
  ASSUME IInv, NEW w \in Windows, DownloadEnds(w)
  PROVE  Update!Next
<1>1. win \in [Windows -> WinT] /\ file \in FileT /\ win[w].pc = "full"
  BY Shapes DEF IInv, Typed, DownloadEnds, Verifies
<1>2. latest' = latest /\ solo' = solo /\ helper' = helper /\ file'["exe"] = file["exe"]
  BY <1>1 DEF DownloadEnds, release, FileT, Names
<1> DEFINE u == Renamed(w, "part", "staged")
<1>3. /\ u \in [Windows -> WinT] /\ u[w] = win[w]
      /\ \A v \in Windows \ {w} : u[v].pc = win[v].pc /\ u[v].want = win[v].want
  BY <1>1, RenamedDoes DEF Names
<1>4. win' = [u EXCEPT ![w].pc = "staged", ![w].got = None, ![w].handle = None]
  BY DEF DownloadEnds
<1> HIDE DEF u
<1>5. /\ win'[w].want = win[w].want
      /\ \A v \in Windows \ {w} : win'[v].pc = win[v].pc /\ win'[v].want = win[v].want
  BY <1>3, <1>4 DEF WinT
<1>6. win[w].pc \in Aiming
  BY <1>1, AimingIs
<1>7. QED
  BY <1>2, <1>5, <1>6, WorkMaps

LEMMA GivesUpMaps ==
  ASSUME IInv, NEW w \in Windows, NEW paths \in SUBSET {"part", "staged"}, GivesUp(w, paths),
         UnderWay(w)
  PROVE  Update!Next
<1>1. paths \in SUBSET Names /\ "exe" \notin paths /\ "exe" \in Names
  BY DEF Names
<1>2. latest' = latest /\ solo' = solo /\ helper' = helper
  BY DEF GivesUp, release
<1>3. /\ Moves(w) /\ win'[w].pc = "failed"
      /\ \A p \in Names : file'[p] = IF p \in paths THEN None ELSE file[p]
  BY <1>1, GivenUp DEF IInv
<1>4. \A v \in Windows : win'[v].want = win[v].want /\
                         (win'[v].pc \in Aiming => win[v].pc \in Aiming)
  BY <1>3, AimingIs DEF Moves, Kept
<1>5. ASSUME solo PROVE helper = "none" /\ Whole("exe")
  BY <1>5 DEF IInv, Sole, Single, Installed, UnderWay
<1>6. solo => Current' = Current
  BY <1>1, <1>2, <1>3, <1>5, CurrentStays
<1>7. QED
  BY <1>2, <1>4, <1>5, <1>6, GiveUpMaps DEF Update!Next

LEMMA FailsMaps ==
  ASSUME IInv, NEW w \in Windows, DownloadFails(w) \/ ApplyFails(w)
  PROVE  Update!Next
<1>1. UnderWay(w) /\ win \in [Windows -> WinT]
  BY Shapes DEF DownloadFails, ApplyFails, UnderWay, Verifies, IInv, Typed
<1>2. CASE GivesUp(w, {"part", "staged"}) \/ GivesUp(w, {"staged"})
  BY <1>1, <1>2, GivesUpMaps
<1>3. CASE win' = [win EXCEPT ![w] = Off] /\ UNCHANGED <<release, files, os, solo>>
  <2>1. UNCHANGED <<release, file, solo>> /\ helper' = helper
    BY <1>3 DEF files
  <2>2. QED
    BY <1>1, <1>3, <2>1, Offed, RestMaps
<1>4. QED
  BY <1>2, <1>3 DEF DownloadFails, ApplyFails

(* os.replace is the step that installs. *)
LEMMA SwapsMaps ==
  ASSUME IInv, NEW w \in Windows, Swaps(w)
  PROVE  Update!Next
<1>1. win \in [Windows -> WinT] /\ file \in FileT /\ win[w].pc = "staged"
  BY Shapes DEF IInv, Typed, Swaps
<1>2. latest' = latest /\ solo' = solo /\ helper' = helper /\ file'["exe"] = file["staged"]
  BY <1>1 DEF Swaps, release, FileT, Names
<1> DEFINE u == Renamed(w, "staged", "exe")
<1>3. /\ u \in [Windows -> WinT] /\ u[w] = win[w]
      /\ \A v \in Windows \ {w} : u[v].pc = win[v].pc /\ u[v].want = win[v].want
  BY <1>1, RenamedDoes DEF Names
<1>4. win' = [u EXCEPT ![w].pc = "swapped"]
  BY DEF Swaps
<1> HIDE DEF u
<1>5. /\ win'[w].pc = "swapped" /\ \A v \in Windows : win'[v].want = win[v].want
      /\ \A v \in Windows \ {w} : win'[v].pc = win[v].pc
  BY <1>3, <1>4 DEF WinT
<1>6. Offers' = Offers
  BY <1>2, <1>5 DEF Offers
<1>7. win[w].pc \in Aiming
  BY <1>1, AimingIs
<1>8. CASE ~ solo
  <2>1. Pending = {} /\ Pending' = {} /\ Current = None /\ Current' = None
    BY <1>2, <1>8, PendingOfNone, PendingOfNoneNext, CurrentIs, CurrentIsNext
  <2>2. QED
    BY <1>6, <2>1 DEF Update!Next, Update!GiveUp
<1>9. CASE solo
  <2>1. Pending = {win[w].want} /\ win[w].want \in Builds /\ helper = "none"
    BY <1>7, <1>9, PendingOfWindow
  <2>2. \A v \in Windows \ {w} : win[v].pc \notin Aiming
    BY <1>7, <1>9, AimingIs DEF IInv, Sole, Single, UnderWay
  <2>3. Pending' = {}
    BY <1>2, <1>5, <2>1, <2>2, AimingIs, PendingOfNoneNext
  <2>4. file'["exe"] = <<win[w].want, win[w].want>>
    BY <1>1, <1>2, <1>9 DEF IInv, Sole, Steps, Stepped
  <2>5. Whole("exe")'
    BY <2>1, <2>4 DEF Whole
  <2>6. Current' = win[w].want
    BY <1>2, <1>9, <2>4, <2>5, CurrentIsNext
  <2>7. QED
    BY <1>6, <2>1, <2>3, <2>6 DEF Update!Next, Update!Install
<1>10. QED
  BY <1>8, <1>9

LEMMA MarksMaps ==
  ASSUME IInv, NEW w \in Windows, Marks(w)
  PROVE  Update!Next
<1>1. win \in [Windows -> WinT] /\ win[w].pc = "swapped"
  BY Shapes DEF IInv, Typed, Marks
<1>2. latest' = latest /\ solo' = solo /\ helper' = helper /\ file' = file
  BY DEF Marks, release
<1>3. Goes(w) /\ win'[w].pc = "marked" /\ win'[w].want = win[w].want
  BY <1>1, SetPc, PcNames DEF Marks
<1>4. \A v \in Windows : win'[v].want = win[v].want /\
                         (win'[v].pc \in Aiming => win[v].pc \in Aiming)
  BY <1>3, AimingIs DEF Goes
<1>5. Current' = Current
  BY <1>2, CurrentStays
<1>6. QED
  BY <1>2, <1>4, <1>5, GiveUpMaps DEF Update!Next

(* On Windows the window leaves the update to the helper ... *)
LEMMA LeavesMaps ==
  ASSUME IInv, NEW w \in Windows, Leaves(w)
  PROVE  Update!Next
<1>1. win \in [Windows -> WinT] /\ win[w].pc = "staged"
  BY Shapes DEF IInv, Typed, Leaves
<1>2. latest' = latest /\ solo' = solo /\ file' = file
  BY DEF Leaves, release
<1>3. Goes(w) /\ win'[w].pc = "off" /\ win'[w].want = None
  BY <1>1, Offed DEF Leaves
<1>4. \A v \in Windows : /\ win'[v].want \in {win[v].want, None}
                         /\ win'[v].pc \in Aiming =>
                              win[v].pc \in Aiming /\ win'[v].want = win[v].want
  BY <1>3, AimingIs DEF Goes
<1>5. solo => win[w].pc \in Aiming /\ file'["staged"] = <<win[w].want, win[w].want>>
  BY <1>1, <1>2, AimingIs DEF IInv, Sole, Steps, Stepped
<1>6. Current' = Current
  BY <1>2, CurrentStays
<1>7. QED
  BY <1>2, <1>4, <1>5, <1>6, GiveUpMaps DEF Update!Next

(* ... whose del is the step that installs: the staged build is then the    *)
(* only one, and no window runs that could touch it.                       *)
LEMMA HelperDeletesMaps ==
  ASSUME IInv, HelperDeletes
  PROVE  Update!Next
<1>1. file \in FileT /\ helper = "waiting" /\ \A w \in Windows : win[w].pc \notin Aiming
  BY Shapes, AimingIs DEF IInv, Typed, HelperDeletes
<1>2. /\ latest' = latest /\ solo' = solo /\ win' = win /\ helper' = "deleted"
      /\ file'["exe"] = None /\ file'["staged"] = file["staged"]
  BY <1>1 DEF HelperDeletes, release, FileT, Names
<1>3. Offers' = Offers
  BY <1>2 DEF Offers
<1>4. Pending' = {}
  BY <1>1, <1>2, PendingOfNoneNext
<1>5. CASE ~ solo
  <2>1. Pending = {} /\ Current = None /\ Current' = None
    BY <1>2, <1>5, PendingOfNone, CurrentIs, CurrentIsNext
  <2>2. QED
    BY <1>3, <1>4, <2>1 DEF Update!Next, Update!GiveUp
<1>6. CASE solo
  <2>1. PICK b \in Builds : file["staged"] = <<b, b>>
    BY <1>1, <1>6 DEF IInv, Sole, Helps, Whole
  <2>2. Pending = {b}
    BY <1>1, <1>6, <2>1 DEF Pending
  <2>3. ~ Whole("exe")'
    <3>1. \A c \in Builds : <<c, c>> \in Parts \X Parts
      BY DEF Parts
    <3>2. QED
      BY <1>2, <3>1, Tokens DEF Whole
  <2>4. Whole("staged")'
    BY <1>2, <2>1 DEF Whole
  <2>5. Current' = b
    BY <1>2, <1>6, <2>1, <2>3, <2>4, CurrentIsNext
  <2>6. QED
    BY <1>3, <1>4, <2>2, <2>5 DEF Update!Next, Update!Install
<1>7. QED
  BY <1>5, <1>6

LEMMA HelperMovesMaps ==
  ASSUME IInv, HelperMoves
  PROVE  Update!Next
<1>1. /\ file \in FileT /\ file["exe"] = None /\ helper = "deleted"
      /\ latest' = latest /\ solo' = solo /\ win' = win /\ helper' = "moved"
  BY Shapes DEF IInv, Typed, Helped, HelperMoves, release
<1>2. file'["exe"] = file["staged"]
  BY <1>1 DEF HelperMoves, FileT, Names
<1>3. ASSUME solo PROVE Current' = Current
  <2>1. Whole("staged")
    BY <1>1, <1>3 DEF IInv, Sole, Helps
  <2>2. ~ Whole("exe")
    BY <1>1, WholeIsThere DEF Names
  <2>3. Whole("exe")'
    BY <1>2, <2>1 DEF Whole
  <2>4. QED
    BY <1>1, <1>2, <1>3, <2>1, <2>2, <2>3, CurrentIs, CurrentIsNext
<1>4. QED
  BY <1>1, <1>3, GiveUpMaps DEF Update!Next

LEMMA HelperStartsMaps ==
  ASSUME IInv, HelperStarts
  PROVE  Update!Next
<1>1. /\ UNCHANGED <<release, file, solo>> /\ helper' = "none"
      /\ file' = file /\ latest' = latest /\ solo' = solo
  BY DEF HelperStarts, release
<1>2. CASE UNCHANGED win
  <2>1. Current' = Current
    BY <1>1, CurrentStays
  <2>2. QED
    BY <1>1, <1>2, <2>1, GiveUpMaps DEF Update!Next
<1>3. ASSUME NEW w \in Windows, Boots(w) PROVE Update!Next
  BY <1>1, <1>3, Booted, RestMaps DEF IInv
<1>4. QED
  BY <1>2, <1>3 DEF HelperStarts

LEMMA PowerFailsMaps ==
  ASSUME IInv, PowerFails
  PROVE  Update!Next
<1>1. /\ latest' = latest /\ solo' = solo /\ file' = file /\ helper' = "none"
      /\ \A w \in Windows : win'[w].pc = "off" /\ win'[w].want = None
  BY OffWin DEF PowerFails, release
<1>2. Current' = Current
  BY <1>1, CurrentStays
<1>3. QED
  BY <1>1, <1>2, AimingIs, GiveUpMaps DEF Update!Next

LEMMA InitUpdate == Init => Update!Init
<1> SUFFICES ASSUME Init PROVE Update!Init
  OBVIOUS
<1>1. Pending = {}
  BY OpeningWins, OffWin, AimingIs, PendingOfNone DEF Init
<1>2. Whole("exe") /\ solo /\ file["exe"][1] = 1
  BY OpeningFiles, Tokens DEF Whole, Init
<1>3. Current \in Builds
  BY <1>2, CurrentIs, Tokens
<1>4. Offers \in SUBSET Builds
  BY DEF Offers
<1>5. QED
  BY <1>1, <1>3, <1>4 DEF Update!Init

LEMMA StepMaps ==
  ASSUME IInv, [Next]_vars
  PROVE  [Update!Next]_(Update!vars)
<1>1. ASSUME NEW k \in Platforms,
             \/ ScriptPutsAsset(k) \/ ScriptFetches(k)
             \/ ScriptPutsManifest(k) \/ ScriptFails(k)
      PROVE  Update!Next
  BY <1>1, ScriptMaps
<1>2. ASSUME NEW w \in Windows,
             \/ Start(w) \/ CheckFinds(w) \/ Click(w) \/ Closes(w)
             \/ DownloadOpens(w) \/ WritesFirst(w) \/ WritesSecond(w)
             \/ DownloadEnds(w) \/ DownloadFails(w)
             \/ Swaps(w) \/ Marks(w) \/ Execs(w) \/ ApplyFails(w) \/ Leaves(w)
      PROVE  Update!Next
  BY <1>2, StartMaps, FoundMaps, DownloadMaps, DownloadEndsMaps, FailsMaps, SwapsMaps,
     MarksMaps, LeavesMaps
<1>3. CASE HelperDeletes \/ HelperMoves \/ HelperStarts \/ PowerFails
  BY <1>3, HelperDeletesMaps, HelperMovesMaps, HelperStartsMaps, PowerFailsMaps
<1>4. CASE UNCHANGED vars
  <2>1. UNCHANGED <<latest, file, helper, win, solo>>
    BY <1>4 DEF vars, release, machine, files
  <2>2. QED
    BY <2>1 DEF Update!vars, Offers, Pending, Current, Whole
<1>5. QED
  BY <1>1, <1>2, <1>3, <1>4 DEF Next

(* SelfUpdate implements AtomicUpdate: in however many files and steps, and *)
(* wherever it is stopped, an update installs the build it began for in     *)
(* one step, or none; and that build is one latest.json has advertised.    *)
THEOREM UpdatesAreAtomic == Spec => ImplementsUpdate
<1>1. IInv /\ [Next]_vars => [Update!Next]_(Update!vars)
  BY StepMaps
<1>2. QED
  BY <1>1, InitUpdate, Invariance, PTL DEF Spec, ImplementsUpdate, Update!Spec
=============================================================================
