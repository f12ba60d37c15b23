------------------------- MODULE EdgePublishProofs -------------------------
(***************************************************************************)
(* Theorems of EdgePublish, for any jars, publishers and number of         *)
(* contents.                                                               *)
(*                                                                         *)
(* Both properties rest on contents being new: a jar that has left the one *)
(* an index gives never comes back to it (Fresh), so that what a publish   *)
(* has read of the directory is right for as long as the directory agrees  *)
(* with its index (Carried).  What a publish that is alone has done so far *)
(* (Uploaded), and what a purge that is alone may still do (Spared), then  *)
(* carry over from step to step.                                           *)
(***************************************************************************)
EXTENDS EdgePublish, TLAPS

OldIndex(x) ==
  x \notin {Absent, Torn} =>
    \A j \in Jars : x[j] # Absent => x[j].sha = NoSha \/ x[j].sha <= newest

Fresh ==
  /\ \A j \in Jars : mods[j] # Absent => mods[j] <= newest
  /\ OldIndex(file) /\ \A p \in Publishers : OldIndex(pub[p].index)

(* The directory still has the content that an index gives of the jar. *)
Agrees(x, j) == x # Torn /\ x[j] # Absent /\ mods[j] = x[j].sha

Carried ==
  \A p \in Publishers :
    /\ Busy(p) => pub[p].index # Absent
    /\ pub[p].pc = "put" =>
         /\ pub[p].jar \in Jars \X Versions
         /\ \A j \in Jars : Agrees(pub[p].index, j) /\ pub[p].jar[1] = j
                              => pub[p].jar[2] = mods[j]

Uploaded ==
  \A p \in Publishers : Busy(p) /\ pub[p].alone =>
    /\ purge.pc = "idle"
    /\ \A o \in Publishers : Busy(o) => pub[o].index = pub[p].index
    /\ pub[p].pc = "index" => FromEdge(pub[p].index) \subseteq pub[p].todo
    /\ pub[p].pc # "index" =>
         /\ edgeIndex = pub[p].index
         /\ \A j \in FromEdge(pub[p].index) \ pub[p].todo :
              Agrees(pub[p].index, j) =>
                \/ edgeJars[j] = mods[j]
                \/ pub[p].pc = "put" /\ pub[p].jar[1] = j

Spared ==
  purge.alone =>
    /\ \A p \in Publishers : ~ Busy(p)
    /\ edgeIndex \notin {Absent, Torn}
    /\ purge.todo \cap Kept(edgeIndex) = {}

IInv == TypeOK /\ Fresh /\ Carried /\ Uploaded /\ Spared

-----------------------------------------------------------------------------
(* Typing facts. *)

Publish == [pc : {"idle", "index", "jars", "put"}, index : Index \cup {Absent, Torn},
            todo : SUBSET Jars, jar : (Jars \X Versions) \cup {Absent}, alone : BOOLEAN]

LEMMA Marks ==
  /\ Absent # Torn /\ Absent # NoSha /\ Torn # NoSha
  /\ \A v \in Versions : v # Absent /\ v # Torn /\ v # NoSha
  /\ 1 \in Versions
BY PublishAssumption DEF PublishAssumption, Versions

LEMMA PubFacts ==
  ASSUME TypeOK
  PROVE  /\ pub \in [Publishers -> Publish]
         /\ \A p \in Publishers : FromEdge(pub[p].index) \subseteq Jars
  BY DEF TypeOK, Publish, FromEdge

LEMMA IdleFacts ==
  /\ NoPublish \in Publish /\ NoPublish.pc = "idle" /\ NoPublish.index = Absent
  /\ NoPurge.pc = "idle" /\ NoPurge.alone = FALSE /\ NoPurge.todo = {}
  /\ NoPurge \in [pc : {"idle", "purging"}, todo : SUBSET Jars, alone : BOOLEAN]
BY DEF NoPublish, NoPurge, Publish

(* Giving p another record leaves the others alone. *)
LEMMA UpdatePub ==
  ASSUME TypeOK, NEW p \in Publishers, NEW v \in Publish, pub' = [pub EXCEPT ![p] = v]
  PROVE  /\ pub' \in [Publishers -> Publish]
         /\ pub'[p] = v
         /\ \A q \in Publishers : q # p => pub'[q] = pub[q]
BY PubFacts

(* What an index says of a jar that the directory agrees with. *)
LEMMA AgreedSha ==
  ASSUME TypeOK, NEW x \in Index, NEW j \in Jars, x[j] # Absent
  PROVE  x[j].sha \in Versions \cup {NoSha} /\ x[j].sha # Absent
BY Marks DEF Index, Entry

LEMMA InitIInv == Init => IInv
<1> SUFFICES ASSUME Init PROVE IInv
  OBVIOUS
<1> USE Marks, IdleFacts DEF Init
<1>1. TypeOK
  BY DEF TypeOK, Publish
<1>2. Fresh
  BY DEF Fresh, OldIndex
<1>3. Carried /\ Uploaded /\ Spared
  BY DEF Carried, Uploaded, Spared, Busy
<1>4. QED
  BY <1>1, <1>2, <1>3 DEF IInv

-----------------------------------------------------------------------------
(* The box: the directory and its index. *)

LEMMA ModsChangeKeeps == ASSUME IInv, NEW k \in Jars, ModsChange(k) PROVE IInv'
<1> USE Marks DEF IInv
<1>1. /\ newest \in Nat /\ newest' \in Versions /\ newest <= newest'
      /\ mods' \in [Jars -> Versions \cup {Absent}]
      /\ mods' = [mods EXCEPT ![k] = mods'[k]]
      /\ mods'[k] = Absent \/ (mods'[k] = newest + 1 /\ newest' = newest + 1)
      /\ UNCHANGED <<building, file, pub, purge, edgeIndex, edgeJars>>
  <2>1. newest \in Nat /\ newest \in Versions /\ mods \in [Jars -> Versions \cup {Absent}]
    BY PublishAssumption DEF PublishAssumption, TypeOK, Versions
  <2>2. UNCHANGED <<building, file, pub, purge, edgeIndex, edgeJars>>
    BY DEF ModsChange, edge
  <2>3. CASE newest < MaxVersion /\ newest' = newest + 1 /\ mods' = [mods EXCEPT ![k] = newest']
    <3>1. newest' \in Versions /\ newest <= newest'
      BY <2>1, <2>3, PublishAssumption DEF PublishAssumption, Versions
    <3>2. QED
      BY <2>1, <2>2, <2>3, <3>1
  <2>4. CASE mods' = [mods EXCEPT ![k] = Absent] /\ UNCHANGED newest
    <3>1. mods'[k] = Absent /\ mods' = [mods EXCEPT ![k] = mods'[k]]
      BY <2>1, <2>4
    <3>2. mods' \in [Jars -> Versions \cup {Absent}]
      BY <2>1, <2>4
    <3>3. newest' \in Versions /\ newest <= newest'
      BY <2>1, <2>4
    <3>4. QED
      BY <2>1, <2>2, <3>1, <3>2, <3>3
  <2>5. QED
    BY <2>3, <2>4 DEF ModsChange
<1>2. TypeOK'
  BY <1>1 DEF TypeOK
<1>3. Fresh'
  <2>1. \A j \in Jars : mods'[j] # Absent => mods'[j] <= newest'
    BY <1>1 DEF Fresh, TypeOK, Versions
  <2>2. ASSUME NEW x \in Index \cup {Absent, Torn}, OldIndex(x) PROVE OldIndex(x)'
    <3> SUFFICES ASSUME x \in Index, NEW j \in Jars, x[j] # Absent, x[j].sha # NoSha,
                        x[j].sha <= newest
                 PROVE  x[j].sha <= newest'
      BY <2>2 DEF OldIndex
    <3> QED
      BY <1>1, AgreedSha DEF Versions, TypeOK
  <2>3. QED
    BY <1>1, <2>1, <2>2, PubFacts DEF Fresh, TypeOK, Publish
(* What agrees now did before, and with the same content. *)
<1>4. ASSUME NEW p \in Publishers, NEW j \in Jars, Busy(p), Agrees(pub[p].index, j)'
      PROVE  Agrees(pub[p].index, j) /\ mods'[j] = mods[j]
  <2> DEFINE x == pub[p].index
  <2>1. x \in Index /\ x # Torn /\ x[j] # Absent /\ mods'[j] = x[j].sha
    BY <1>1, <1>4, PubFacts DEF Agrees, Carried, Publish
  <2>2. x[j].sha \in Versions \cup {NoSha} /\ x[j].sha # Absent
    BY <2>1, AgreedSha
  <2>3. x[j].sha = NoSha \/ x[j].sha <= newest
    BY <2>1, <1>4 DEF Fresh, OldIndex, Carried
  <2>4. j # k
    BY <1>1, <2>1, <2>2, <2>3 DEF Versions, TypeOK
  <2>5. QED
    BY <1>1, <2>1, <2>4 DEF Agrees, TypeOK
<1>5. Carried'
  BY <1>1, <1>4 DEF Carried, Busy
<1>6. Uploaded'
  BY <1>1, <1>4, PubFacts DEF Uploaded, Busy, FromEdge
<1>7. Spared'
  BY <1>1 DEF Spared, Busy, Kept
<1>8. QED
  BY <1>2, <1>3, <1>5, <1>6, <1>7

LEMMA BuildKeeps == ASSUME IInv, BuildOpens \/ BuildWrites \/ BuildDies PROVE IInv'
<1> USE Marks, IdleFacts DEF IInv
<1>1. /\ UNCHANGED <<mods, newest, purge, edgeIndex, edgeJars>>
      /\ building' \in BOOLEAN
      /\ pub' = pub \/ pub' = [p \in Publishers |-> NoPublish]
  BY DEF BuildOpens, BuildWrites, BuildDies, edge
<1>2. file' \in Index \cup {Absent, Torn} /\ OldIndex(file')
  <2>1. CASE BuildWrites
    <3>1. PICK resolved \in Resolutions : file' = IndexOf(resolved)
      BY <2>1 DEF BuildWrites
    <3>2. file' \in Index
      BY <3>1 DEF IndexOf, Index, Entry, TypeOK
    <3>3. ASSUME NEW j \in Jars, file'[j] # Absent
          PROVE  file'[j].sha = NoSha \/ file'[j].sha <= newest
      BY <3>1, <3>3 DEF IndexOf, Fresh
    <3>4. QED
      BY <3>2, <3>3 DEF OldIndex
  <2>2. CASE BuildOpens
    BY <2>2 DEF BuildOpens, OldIndex
  <2>3. CASE BuildDies
    BY <2>3 DEF BuildDies, TypeOK, Fresh
  <2>4. QED
    BY <2>1, <2>2, <2>3
<1>3. TypeOK'
  BY <1>1, <1>2 DEF TypeOK, Publish
<1>4. Fresh'
  BY <1>1, <1>2 DEF Fresh, OldIndex
<1>5. Carried'
  BY <1>1 DEF Carried, Busy, Agrees
<1>6. Uploaded'
  BY <1>1 DEF Uploaded, Busy, Agrees
<1>7. Spared'
  BY <1>1 DEF Spared, Busy
<1>8. QED
  BY <1>3, <1>4, <1>5, <1>6, <1>7

-----------------------------------------------------------------------------
(* A publish. *)

LEMMA PublishReadsKeeps == ASSUME IInv, NEW p \in Publishers, PublishReads(p) PROVE IInv'
<1> USE Marks DEF IInv
<1> DEFINE new == [pc |-> "index", index |-> file, todo |-> FromEdge(file), jar |-> Absent,
                   alone |-> purge.pc = "idle"
                             /\ \A o \in Publishers : Busy(o) => pub[o].index = file]
<1>1. /\ UNCHANGED <<mods, newest, building, file, edgeIndex, edgeJars>>
      /\ ~ Busy(p) /\ file # Absent
      /\ purge' = [purge EXCEPT !.alone = FALSE]
  BY DEF PublishReads, box, edge
<1>2. file \in Index \cup {Absent, Torn} /\ FromEdge(file) \subseteq Jars
  BY DEF TypeOK, FromEdge
<1>3. new \in Publish
  BY <1>2 DEF Publish
<1>4. /\ pub' \in [Publishers -> Publish]
      /\ pub'[p] = new
      /\ \A q \in Publishers \ {p} :
           pub'[q] = [pub[q] EXCEPT !.alone = @ /\ pub[q].index = file]
  BY <1>3, PubFacts DEF PublishReads, Publish
<1>5. \A q \in Publishers \ {p} :
        /\ pub'[q].pc = pub[q].pc /\ pub'[q].index = pub[q].index
        /\ pub'[q].todo = pub[q].todo /\ pub'[q].jar = pub[q].jar
        /\ pub'[q].alone => pub[q].alone /\ pub[q].index = file
  BY <1>4, PubFacts DEF Publish
<1>6. TypeOK'
  BY <1>1, <1>4 DEF TypeOK, Publish
<1>7. Fresh'
  BY <1>1, <1>4, <1>5 DEF Fresh, OldIndex
<1>8. Carried'
  BY <1>1, <1>4, <1>5 DEF Carried, Busy, Agrees
<1>9. Uploaded'
  <2> SUFFICES ASSUME NEW q \in Publishers, Busy(q)', pub'[q].alone
               PROVE  /\ purge.pc = "idle"
                      /\ \A o \in Publishers : Busy(o)' => pub'[o].index = pub'[q].index
                      /\ pub'[q].pc = "index" => FromEdge(pub'[q].index) \subseteq pub'[q].todo
                      /\ pub'[q].pc # "index" =>
                           /\ edgeIndex = pub'[q].index
                           /\ \A j \in FromEdge(pub'[q].index) \ pub'[q].todo :
                                Agrees(pub'[q].index, j) =>
                                  \/ edgeJars[j] = mods[j]
                                  \/ pub'[q].pc = "put" /\ pub'[q].jar[1] = j
    <3>1. purge'.pc = purge.pc
      BY <1>1 DEF TypeOK
    <3>2. QED
      BY <1>1, <3>1 DEF Uploaded, Agrees, FromEdge
  <2>1. CASE q = p
    <3>1. purge.pc = "idle" /\ \A o \in Publishers : Busy(o) => pub[o].index = file
      <4>1. pub'[p] = new /\ pub'[p].alone
        BY <1>4, <2>1
      <4>2. new.alone
        BY <4>1, Zenon
      <4>3. QED
        BY <4>2, Zenon
    <3>2. pub'[p].pc = "index" /\ pub'[p].index = file /\ pub'[p].todo = FromEdge(file)
      BY <1>4
    <3>3. ASSUME NEW o \in Publishers, Busy(o)' PROVE pub'[o].index = file
      BY <1>5, <3>1, <3>2, <3>3 DEF Busy
    <3>4. QED
      BY <2>1, <3>1, <3>2, <3>3
  <2>2. CASE q # p
    <3>1. Busy(q) /\ pub[q].alone /\ pub[q].index = file
      BY <1>5, <2>2 DEF Busy
    <3>2. QED
      BY <1>4, <1>5, <2>2, <3>1 DEF Uploaded, Busy
  <2>3. QED
    BY <2>1, <2>2
<1>10. Spared'
  BY <1>1 DEF Spared, TypeOK
<1>11. QED
  BY <1>6, <1>7, <1>8, <1>9, <1>10

(* A step that only p's record changes in, and not what it publishes. *)
LEMMA PutsIndexKeeps == ASSUME IInv, NEW p \in Publishers, PublishPutsIndex(p) PROVE IInv'
<1> USE Marks DEF IInv
<1>1. /\ UNCHANGED <<mods, newest, building, file, purge, edgeJars>>
      /\ pub[p].pc = "index" /\ edgeIndex' = pub[p].index
      /\ pub' = [pub EXCEPT ![p].pc = "jars"]
  BY DEF PublishPutsIndex, box
<1>2. /\ pub' \in [Publishers -> Publish]
      /\ pub'[p].pc = "jars"
      /\ \A q \in Publishers :
           /\ q # p => pub'[q].pc = pub[q].pc
           /\ pub'[q].index = pub[q].index /\ pub'[q].todo = pub[q].todo
           /\ pub'[q].jar = pub[q].jar /\ pub'[q].alone = pub[q].alone
  BY <1>1, PubFacts DEF Publish
<1>3. TypeOK'
  BY <1>1, <1>2, PubFacts DEF TypeOK, Publish
<1>4. Fresh'
  BY <1>1, <1>2 DEF Fresh, OldIndex
<1>5. Carried'
  BY <1>1, <1>2 DEF Carried, Busy, Agrees
<1>6. Uploaded'
  BY <1>1, <1>2, PubFacts DEF Uploaded, Busy, Agrees
<1>7. Spared'
  BY <1>1, <1>2 DEF Spared, Busy
<1>8. QED
  BY <1>3, <1>4, <1>5, <1>6, <1>7

LEMMA ReadsJarKeeps ==
  ASSUME IInv, NEW p \in Publishers, NEW k \in Jars, PublishReadsJar(p, k)
  PROVE  IInv'
<1> USE Marks DEF IInv
<1>1. /\ UNCHANGED <<mods, newest, building, file, purge, edgeIndex, edgeJars>>
      /\ pub[p].pc = "jars" /\ k \in pub[p].todo
  BY DEF PublishReadsJar, box, edge
<1>2. /\ pub' \in [Publishers -> Publish]
      /\ pub'[p].todo = pub[p].todo \ {k}
      /\ mods[k] = Absent => pub'[p].pc = "jars"
      /\ mods[k] # Absent => pub'[p].pc = "put" /\ pub'[p].jar = <<k, mods[k]>>
      /\ \A q \in Publishers :
           /\ pub'[q].index = pub[q].index /\ pub'[q].alone = pub[q].alone
           /\ q # p => pub'[q] = pub[q]
  <2>1. CASE mods[k] = Absent
    <3> DEFINE v == [pub[p] EXCEPT !.todo = @ \ {k}, !.pc = "jars", !.jar = Absent]
    <3>1. pub' = [pub EXCEPT ![p] = v]
      BY <2>1, PubFacts DEF PublishReadsJar, Publish
    <3>2. /\ v \in Publish /\ v.todo = pub[p].todo \ {k} /\ v.pc = "jars"
          /\ v.index = pub[p].index /\ v.alone = pub[p].alone
      BY PubFacts DEF Publish
    <3> HIDE DEF v
    <3>3. QED
      BY <2>1, <3>1, <3>2, UpdatePub
  <2>2. CASE mods[k] # Absent
    <3> DEFINE v == [pub[p] EXCEPT !.todo = @ \ {k}, !.pc = "put", !.jar = <<k, mods[k]>>]
    <3>1. pub' = [pub EXCEPT ![p] = v]
      BY <2>2, PubFacts DEF PublishReadsJar, Publish
    <3>2. <<k, mods[k]>> \in Jars \X Versions
      BY <2>2 DEF TypeOK
    <3>3. /\ v \in Publish /\ v.todo = pub[p].todo \ {k} /\ v.pc = "put"
          /\ v.jar = <<k, mods[k]>>
          /\ v.index = pub[p].index /\ v.alone = pub[p].alone
      BY <3>2, PubFacts DEF Publish
    <3> HIDE DEF v
    <3>4. QED
      BY <2>2, <3>1, <3>3, UpdatePub
  <2>3. QED
    BY <2>1, <2>2
<1>3. TypeOK'
  BY <1>1, <1>2 DEF TypeOK, Publish
<1>4. Fresh'
  BY <1>1, <1>2 DEF Fresh, OldIndex
<1>5. Carried'
  <2>1. ASSUME NEW q \in Publishers, q # p
        PROVE  pub'[q] = pub[q]
    BY <1>2, <2>1
  <2>2. pub'[p].index # Absent
    BY <1>1, <1>2 DEF Carried, Busy
  <2>3. ASSUME pub'[p].pc = "put"
        PROVE  /\ pub'[p].jar \in Jars \X Versions
               /\ pub'[p].jar[1] = k /\ pub'[p].jar[2] = mods[k]
    <3>1. pub'[p].jar = <<k, mods[k]>> /\ mods[k] \in Versions
      BY <1>2, <2>3 DEF TypeOK
    <3>2. QED
      BY <3>1
  <2>4. QED
    BY <1>1, <2>1, <2>2, <2>3 DEF Carried, Busy, Agrees
<1>6. Uploaded'
  <2>1. Agrees(pub[p].index, k) /\ Busy(p) => mods[k] # Absent
    BY AgreedSha, PubFacts DEF Agrees, Carried, Publish
  <2>2. QED
    BY <1>1, <1>2, <2>1, PubFacts DEF Uploaded, Busy, Agrees
<1>7. Spared'
  BY <1>1, <1>2 DEF Spared, Busy
<1>8. QED
  BY <1>3, <1>4, <1>5, <1>6, <1>7

LEMMA PutsJarKeeps == ASSUME IInv, NEW p \in Publishers, PublishPutsJar(p) PROVE IInv'
<1> USE Marks DEF IInv
<1>1. /\ UNCHANGED <<mods, newest, building, file, purge, edgeIndex>>
      /\ pub[p].pc = "put" /\ edgeJars' = [edgeJars EXCEPT ![pub[p].jar[1]] = pub[p].jar[2]]
      /\ pub[p].jar[1] \in Jars /\ pub[p].jar[2] \in Versions
  BY DEF PublishPutsJar, box, Carried
<1>2. /\ pub' \in [Publishers -> Publish]
      /\ pub'[p].pc = "jars"
      /\ \A q \in Publishers :
           /\ q # p => pub'[q] = pub[q]
           /\ pub'[q].index = pub[q].index /\ pub'[q].todo = pub[q].todo
           /\ pub'[q].alone = pub[q].alone
  <2>1. pub' = [pub EXCEPT ![p] = [pub[p] EXCEPT !.pc = "jars", !.jar = Absent]]
    BY PubFacts DEF PublishPutsJar, Publish
  <2> DEFINE v == [pub[p] EXCEPT !.pc = "jars", !.jar = Absent]
  <2>2. /\ v \in Publish /\ v.pc = "jars"
        /\ v.index = pub[p].index /\ v.todo = pub[p].todo /\ v.alone = pub[p].alone
    BY PubFacts DEF Publish
  <2> HIDE DEF v
  <2>3. QED
    BY <2>1, <2>2, PubFacts DEF v
<1>3. TypeOK'
  BY <1>1, <1>2 DEF TypeOK, Publish
<1>4. Fresh'
  BY <1>1, <1>2 DEF Fresh, OldIndex
<1>5. Carried'
  BY <1>1, <1>2 DEF Carried, Busy, Agrees
<1>6. Uploaded'
  <2> SUFFICES ASSUME NEW q \in Publishers, Busy(q), pub[q].alone, pub[q].pc # "index",
                      NEW j \in FromEdge(pub[q].index) \ pub[q].todo,
                      Agrees(pub[q].index, j), edgeJars'[j] # mods[j]
               PROVE  pub'[q].pc = "put" /\ pub'[q].jar[1] = j
    BY <1>1, <1>2 DEF Uploaded, Busy, Agrees
  <2>1. pub[p].index = pub[q].index /\ j \in Jars
    BY <1>1, PubFacts DEF Uploaded, Busy
  <2>2. j # pub[p].jar[1]
    BY <1>1, <2>1 DEF Carried, TypeOK
  <2>3. edgeJars[j] # mods[j]
    BY <1>1, <2>1, <2>2 DEF TypeOK
  <2>4. pub[q].pc = "put" /\ pub[q].jar[1] = j
    BY <2>3 DEF Uploaded
  <2>5. QED
    BY <1>2, <2>2, <2>4
<1>7. Spared'
  BY <1>1, <1>2 DEF Spared, Busy
<1>8. QED
  BY <1>3, <1>4, <1>5, <1>6, <1>7

LEMMA PublishOverKeeps ==
  ASSUME IInv, NEW p \in Publishers, PublishEnds(p) \/ PublishFails(p)
  PROVE  IInv'
<1> USE Marks, IdleFacts DEF IInv
<1>1. /\ UNCHANGED <<mods, newest, building, file, purge, edgeIndex, edgeJars>>
      /\ pub' = [pub EXCEPT ![p] = NoPublish]
  BY DEF PublishEnds, PublishFails, box, edge
<1>2. /\ pub' \in [Publishers -> Publish]
      /\ pub'[p].pc = "idle" /\ pub'[p].index = Absent
      /\ \A q \in Publishers \ {p} : pub'[q] = pub[q]
  BY <1>1, PubFacts
<1>3. TypeOK'
  BY <1>1, <1>2 DEF TypeOK, Publish
<1>4. Fresh'
  BY <1>1, <1>2 DEF Fresh, OldIndex
<1>5. Carried'
  BY <1>1, <1>2 DEF Carried, Busy, Agrees
<1>6. Uploaded'
  BY <1>1, <1>2 DEF Uploaded, Busy, Agrees
<1>7. Spared'
  BY <1>1, <1>2 DEF Spared, Busy
<1>8. QED
  BY <1>3, <1>4, <1>5, <1>6, <1>7

-----------------------------------------------------------------------------
(* The purge. *)

LEMMA PurgeBeginsKeeps == ASSUME IInv, PurgeBegins PROVE IInv'
<1> USE Marks DEF IInv
<1>1. /\ UNCHANGED <<mods, newest, building, file, edgeIndex, edgeJars>>
      /\ file \notin {Absent, Torn}
      /\ purge' = [pc |-> "purging",
                   todo |-> {j \in Jars : edgeJars[j] # Absent} \ Kept(file),
                   alone |-> Quiet /\ file = edgeIndex]
      /\ pub' = [p \in Publishers |-> [pub[p] EXCEPT !.alone = FALSE]]
  BY DEF PurgeBegins, box, edge
<1>2. /\ pub' \in [Publishers -> Publish]
      /\ \A q \in Publishers :
           /\ pub'[q].pc = pub[q].pc /\ pub'[q].index = pub[q].index
           /\ pub'[q].jar = pub[q].jar /\ ~ pub'[q].alone
  <2>1. ASSUME NEW q \in Publishers
        PROVE  /\ [pub[q] EXCEPT !.alone = FALSE] \in Publish
               /\ pub'[q] = [pub[q] EXCEPT !.alone = FALSE]
               /\ pub'[q].pc = pub[q].pc /\ pub'[q].index = pub[q].index
               /\ pub'[q].jar = pub[q].jar /\ pub'[q].alone = FALSE
    BY <1>1, PubFacts DEF Publish
  <2>2. QED
    BY <1>1, <2>1
<1>3. TypeOK'
  BY <1>1, <1>2 DEF TypeOK, Publish, Quiet
<1>4. Fresh'
  BY <1>1, <1>2 DEF Fresh, OldIndex
<1>5. Carried'
  <2>1. mods' = mods
    BY <1>1
  <2>2. QED
    BY <1>2, <2>1 DEF Carried, Busy, Agrees
<1>6. Uploaded'
  BY <1>2 DEF Uploaded
<1>7. Spared'
  BY <1>1, <1>2 DEF Spared, Quiet, Busy, Kept
<1>8. QED
  BY <1>3, <1>4, <1>5, <1>6, <1>7

LEMMA PurgeDeletesKeeps == ASSUME IInv, NEW k \in Jars, PurgeDeletes(k) PROVE IInv'
<1> USE Marks DEF IInv
<1>1. /\ UNCHANGED <<mods, newest, building, file, edgeIndex, pub>>
      /\ purge.pc = "purging"
      /\ edgeJars' \in [Jars -> Versions \cup {Absent}]
      /\ purge' = [purge EXCEPT !.todo = @ \ {k}]
  BY DEF PurgeDeletes, box, TypeOK
<1>2. /\ purge' \in [pc : {"idle", "purging"}, todo : SUBSET Jars, alone : BOOLEAN]
      /\ purge'.alone = purge.alone /\ purge'.todo \subseteq purge.todo
  BY <1>1 DEF TypeOK
<1>3. TypeOK'
  BY <1>1, <1>2 DEF TypeOK
<1>4. Fresh'
  BY <1>1 DEF Fresh, OldIndex
<1>5. Carried'
  BY <1>1 DEF Carried, Busy, Agrees
<1>6. Uploaded'
  BY <1>1 DEF Uploaded, Busy
<1>7. Spared'
  BY <1>1, <1>2 DEF Spared, Busy, Kept
<1>8. QED
  BY <1>3, <1>4, <1>5, <1>6, <1>7

LEMMA PurgeEndsKeeps == ASSUME IInv, PurgeEnds PROVE IInv'
<1> USE Marks, IdleFacts DEF IInv
<1>1. UNCHANGED <<mods, newest, building, file, edgeIndex, edgeJars, pub>> /\ purge' = NoPurge
  BY DEF PurgeEnds, box, edge
<1>2. TypeOK' /\ Fresh' /\ Carried'
  BY <1>1 DEF TypeOK, Fresh, OldIndex, Carried, Busy, Agrees
<1>3. Uploaded' /\ Spared'
  BY <1>1 DEF Uploaded, Spared, Busy, Agrees
<1>4. QED
  BY <1>2, <1>3

LEMMA StutterKeeps == ASSUME IInv, UNCHANGED vars PROVE IInv'
BY DEF IInv, vars, TypeOK, Fresh, OldIndex, Carried, Uploaded, Spared, Busy, Agrees

LEMMA NextKeeps == IInv /\ [Next]_vars => IInv'
<1> SUFFICES ASSUME IInv, [Next]_vars PROVE IInv'
  OBVIOUS
<1>1. ASSUME NEW j \in Jars, ModsChange(j) \/ PurgeDeletes(j) PROVE IInv'
  BY <1>1, ModsChangeKeeps, PurgeDeletesKeeps
<1>2. CASE BuildOpens \/ BuildWrites \/ BuildDies
  BY <1>2, BuildKeeps
<1>3. ASSUME NEW p \in Publishers, PublishReads(p) \/ PublishPutsIndex(p) \/ PublishPutsJar(p)
      PROVE  IInv'
  BY <1>3, PublishReadsKeeps, PutsIndexKeeps, PutsJarKeeps
<1>4. ASSUME NEW p \in Publishers, NEW j \in Jars, PublishReadsJar(p, j) PROVE IInv'
  BY <1>4, ReadsJarKeeps
<1>5. ASSUME NEW p \in Publishers, PublishEnds(p) \/ PublishFails(p) PROVE IInv'
  BY <1>5, PublishOverKeeps
<1>6. CASE PurgeBegins \/ PurgeEnds
  BY <1>6, PurgeBeginsKeeps, PurgeEndsKeeps
<1>7. CASE UNCHANGED vars
  BY <1>7, StutterKeeps
<1>8. QED
  BY <1>1, <1>2, <1>3, <1>4, <1>5, <1>6, <1>7 DEF Next

(* However publishes, builds, purges and changes interleave, IInv holds. *)
THEOREM Invariance == Spec => []IInv
BY InitIInv, NextKeeps, PTL DEF Spec

-----------------------------------------------------------------------------
(* Every variable keeps its type. *)
THEOREM TypeCorrect == Spec => []TypeOK
<1>1. IInv => TypeOK
  BY DEF IInv
<1> QED BY <1>1, Invariance, PTL

(* A publish that no purge and no publish of another index has overlapped  *)
(* leaves at the edge every jar that its index sends clients there for,    *)
(* with the bytes of its hash, if the directory still agrees: for any      *)
(* number of jars, of publishers and of changes while it uploads.          *)
THEOREM PublishesAreComplete == Spec => []PublishedComplete
<1>1. IInv => PublishedComplete
  <2> SUFFICES ASSUME IInv, NEW p \in Publishers, pub[p].alone, AtItsEnd(p)
               PROVE  /\ edgeIndex = pub[p].index
                      /\ \A j \in Jars :
                           edgeIndex[j] # Absent /\ ~ edgeIndex[j].cdn /\ mods[j] = edgeIndex[j].sha
                             => edgeJars[j] = edgeIndex[j].sha
    BY DEF PublishedComplete
  <2>1. Busy(p) /\ pub[p].index # Torn /\ pub[p].todo = {} /\ pub[p].pc = "jars"
    BY DEF AtItsEnd, Busy
  <2>2. edgeIndex = pub[p].index
    BY <2>1 DEF IInv, Uploaded
  <2>3. ASSUME NEW j \in Jars, edgeIndex[j] # Absent, ~ edgeIndex[j].cdn,
               mods[j] = edgeIndex[j].sha
        PROVE  edgeJars[j] = edgeIndex[j].sha
    <3>1. j \in FromEdge(pub[p].index) \ pub[p].todo /\ Agrees(pub[p].index, j)
      BY <2>1, <2>2, <2>3 DEF FromEdge, Agrees
    <3>2. QED
      BY <2>1, <2>3, <3>1 DEF IInv, Uploaded
  <2>4. QED
    BY <2>2, <2>3
<1> QED BY <1>1, Invariance, PTL

(* A purge that begins with the edge up to date, and that no publish       *)
(* overlaps, never deletes a jar that clients are sent to the edge for.    *)
THEOREM PurgesKeepServed == Spec => []PurgeKeepsServed
<1>1. IInv => PurgeKeepsServed
  BY DEF IInv, TypeOK, Spared, Kept, PurgeKeepsServed
<1> QED BY <1>1, Invariance, PTL
=============================================================================
