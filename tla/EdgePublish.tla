---------------------------- MODULE EdgePublish ----------------------------
(***************************************************************************)
(* How one server's mods reach the edge: build_mods_index writes the index *)
(* of the mods directory, with what the pack's manifest resolves to the    *)
(* CDN; publish_server uploads that index and the jars it serves from the  *)
(* edge itself, in a thread beside the event loop; and the purge script    *)
(* deletes what the index does not need.                                   *)
(***************************************************************************)
EXTENDS Naturals, FiniteSets

CONSTANTS
  Jars,        \* file names in the mods directory, or in the pack's manifest
  Manifest,    \* the files of the client pack that is staged, if one is
  Publishers,  \* publishes that can be in flight together
  MaxVersion,  \* bound: contents that jars go through
  Absent, Torn, NoSha

ASSUME PublishAssumption ==
  /\ Manifest \subseteq Jars /\ MaxVersion \in Nat \ {0}
  /\ {Absent, Torn, NoSha} \cap Nat = {}
  /\ Absent \notin {Torn, NoSha} /\ Torn # NoSha

Versions == 1..MaxVersion

(* One line of mods-index.json: sha1 (null for a client-only file) and     *)
(* from_cdn.  origin_url is there exactly when sha1 is.                    *)
Entry == [sha : Versions \cup {NoSha}, cdn : BOOLEAN]
Index == [Jars -> Entry \cup {Absent}]

VARIABLES
  mods,       \* the mods directory of the box
  newest,     \* the last content there has been
  building,   \* whether write_text has opened the index and not filled it
  file,       \* mods-index.json
  pub,        \* what each publish does: [pc, index, todo, jar, alone], where alone
              \* says that no purge and no publish of another index has overlapped it
  purge,      \* what the purge script does: [pc, todo, alone]
  edgeIndex,  \* mods/index.json at the edge
  edgeJars    \* mods/<jar> at the edge

vars == <<mods, newest, building, file, pub, purge, edgeIndex, edgeJars>>
box  == <<mods, newest, building, file>>
edge == <<edgeIndex, edgeJars>>

NoPublish == [pc |-> "idle", index |-> Absent, todo |-> {}, jar |-> Absent, alone |-> FALSE]
NoPurge   == [pc |-> "idle", todo |-> {}, alone |-> FALSE]

Init ==
  /\ mods = [j \in Jars |-> 1] /\ newest = 1
  /\ building = FALSE /\ file = Absent
  /\ pub = [p \in Publishers |-> NoPublish]
  /\ purge = NoPurge
  /\ edgeIndex = Absent /\ edgeJars = [j \in Jars |-> Absent]

-----------------------------------------------------------------------------
(* An install streams its download straight into the jar, whose content is *)
(* new when it opens and when it ends, and unlinks it when its hash is      *)
(* wrong; the operator adds and removes jars by hand.  The jars are hashed  *)
(* when the index is opened: a change until it is written comes after it.  *)
ModsChange(j) ==
  /\ ~ building
  /\ \/ newest < MaxVersion /\ newest' = newest + 1 /\ mods' = [mods EXCEPT ![j] = newest']
     \/ mods[j] # Absent /\ mods' = [mods EXCEPT ![j] = Absent] /\ UNCHANGED newest
  /\ UNCHANGED <<building, file, pub, purge, edge>>

(* resolve_manifest_targets: what CurseForge names now.  A dead file drops  *)
(* out, and nothing is left when no pack is staged or its manifest is bad.  *)
Resolutions == SUBSET Manifest

(* The server's jars with their hash, and the manifest's other files        *)
(* without.                                                                *)
IndexOf(resolved) ==
  [j \in Jars |->
     IF mods[j] # Absent THEN [sha |-> mods[j], cdn |-> j \in resolved]
     ELSE IF j \in resolved THEN [sha |-> NoSha, cdn |-> TRUE] ELSE Absent]

BuildOpens ==
  /\ ~ building /\ building' = TRUE
  /\ file' = Torn
  /\ UNCHANGED <<mods, newest, pub, purge, edge>>

BuildWrites ==
  /\ building /\ building' = FALSE
  /\ \E resolved \in Resolutions : file' = IndexOf(resolved)
  /\ UNCHANGED <<mods, newest, pub, purge, edge>>

(* The manager dies with the index open. *)
BuildDies ==
  /\ building /\ building' = FALSE
  /\ pub' = [p \in Publishers |-> NoPublish]
  /\ UNCHANGED <<mods, newest, file, purge, edge>>

-----------------------------------------------------------------------------
Busy(p) == pub[p].pc # "idle"
Quiet   == purge.pc = "idle" /\ \A p \in Publishers : ~ Busy(p)

(* Mutant: every publish skips the jars that the edge already has. *)
FromEdge_BUG(index) ==
  IF index = Torn THEN {}
  ELSE {j \in Jars : index[j] # Absent /\ ~ index[j].cdn /\ edgeJars[j] = Absent}

(* The entries of an index with from_cdn false; an index that does not     *)
(* parse has none.                                                         *)
FromEdge(index) ==
  IF index = Torn THEN {} ELSE {j \in Jars : index[j] # Absent /\ ~ index[j].cdn}

(* publish_server reads the index it is about to upload. *)
PublishReads(p) ==
  /\ ~ Busy(p)
  /\ file # Absent
  /\ pub' = [q \in Publishers |->
               IF q = p
               THEN [pc |-> "index", index |-> file, todo |-> FromEdge(file), jar |-> Absent,
                     alone |-> purge.pc = "idle" /\ \A o \in Publishers : Busy(o) => pub[o].index = file]
               ELSE [pub[q] EXCEPT !.alone = @ /\ pub[q].index = file]]
  /\ purge' = [purge EXCEPT !.alone = FALSE]
  /\ UNCHANGED <<box, edge>>

PublishPutsIndex(p) ==
  /\ pub[p].pc = "index"
  /\ edgeIndex' = pub[p].index
  /\ pub' = [pub EXCEPT ![p].pc = "jars"]
  /\ UNCHANGED <<box, edgeJars, purge>>

(* Mutant: put_file does not look whether the file is there. *)
PublishReadsJar_BUG(p, j) ==
  /\ pub[p].pc = "jars" /\ j \in pub[p].todo
  /\ pub' = [pub EXCEPT ![p].todo = @ \ {j}, ![p].pc = "put", ![p].jar = <<j, mods[j]>>]
  /\ UNCHANGED <<box, edge, purge>>

(* put_file: a jar that is gone is counted and skipped. *)
PublishReadsJar(p, j) ==
  /\ pub[p].pc = "jars" /\ j \in pub[p].todo
  /\ pub' = [pub EXCEPT ![p].todo = @ \ {j},
                        ![p].pc = IF mods[j] = Absent THEN "jars" ELSE "put",
                        ![p].jar = IF mods[j] = Absent THEN Absent ELSE <<j, mods[j]>>]
  /\ UNCHANGED <<box, edge, purge>>

PublishPutsJar(p) ==
  /\ pub[p].pc = "put"
  /\ edgeJars' = [edgeJars EXCEPT ![pub[p].jar[1]] = pub[p].jar[2]]
  /\ pub' = [pub EXCEPT ![p].pc = "jars", ![p].jar = Absent]
  /\ UNCHANGED <<box, edgeIndex, purge>>

(* The bundle, the list of servers and the pages follow, and it is done. *)
PublishEnds(p) ==
  /\ pub[p].pc = "jars" /\ pub[p].todo = {}
  /\ pub' = [pub EXCEPT ![p] = NoPublish]
  /\ UNCHANGED <<box, edge, purge>>

(* A put raises: what follows it is not uploaded. *)
PublishFails(p) ==
  /\ Busy(p)
  /\ pub' = [pub EXCEPT ![p] = NoPublish]
  /\ UNCHANGED <<box, edge, purge>>

-----------------------------------------------------------------------------
(* Mutant: the script keeps what the CDN serves. *)
Kept_BUG(index) == {j \in Jars : index[j] # Absent /\ index[j].cdn}

(* --keep-index: the jars that an index serves from the edge. *)
Kept(index) == {j \in Jars : index[j] # Absent /\ ~ index[j].cdn}

(* r2_purge: read the box's index, list the edge, then delete one by one.  *)
PurgeBegins ==
  /\ purge.pc = "idle"
  /\ file \notin {Absent, Torn}
  /\ purge' = [pc |-> "purging", todo |-> {j \in Jars : edgeJars[j] # Absent} \ Kept(file),
               alone |-> Quiet /\ file = edgeIndex]
  /\ pub' = [p \in Publishers |-> [pub[p] EXCEPT !.alone = FALSE]]
  /\ UNCHANGED <<box, edge>>

PurgeDeletes(j) ==
  /\ purge.pc = "purging" /\ j \in purge.todo
  /\ edgeJars' = [edgeJars EXCEPT ![j] = Absent]
  /\ purge' = [purge EXCEPT !.todo = @ \ {j}]
  /\ UNCHANGED <<box, edgeIndex, pub>>

(* Done, or a request failed. *)
PurgeEnds ==
  /\ purge.pc = "purging"
  /\ purge' = NoPurge
  /\ UNCHANGED <<box, edge, pub>>

-----------------------------------------------------------------------------
Next ==
  \/ \E j \in Jars : ModsChange(j) \/ PurgeDeletes(j)
  \/ BuildOpens \/ BuildWrites \/ BuildDies
  \/ \E p \in Publishers :
       \/ PublishReads(p) \/ PublishPutsIndex(p) \/ PublishPutsJar(p)
       \/ \E j \in Jars : PublishReadsJar(p, j)
       \/ PublishEnds(p) \/ PublishFails(p)
  \/ PurgeBegins \/ PurgeEnds

Spec == Init /\ [][Next]_vars

-----------------------------------------------------------------------------
(* Properties *)

(* The types that the comments at the variables say. *)
TypeOK ==
  /\ mods \in [Jars -> Versions \cup {Absent}]
  /\ newest \in Versions /\ building \in BOOLEAN
  /\ file \in Index \cup {Absent, Torn}
  /\ edgeIndex \in Index \cup {Absent, Torn}
  /\ edgeJars \in [Jars -> Versions \cup {Absent}]
  /\ pub \in [Publishers ->
       [pc : {"idle", "index", "jars", "put"}, index : Index \cup {Absent, Torn},
        todo : SUBSET Jars, jar : (Jars \X Versions) \cup {Absent}, alone : BOOLEAN]]
  /\ purge \in [pc : {"idle", "purging"}, todo : SUBSET Jars, alone : BOOLEAN]

AtItsEnd(p) == pub[p].pc = "jars" /\ pub[p].todo = {} /\ pub[p].index # Torn

(* "they must exist in R2": when a publish is done, beside which there was  *)
(* no other but of the same index, every jar that this index sends clients  *)
(* to the edge for is there, with the bytes of its hash; unless the mods    *)
(* directory has changed since the index was built.                        *)
PublishedComplete ==
  \A p \in Publishers :
    pub[p].alone /\ AtItsEnd(p)
      => /\ edgeIndex = pub[p].index
         /\ \A j \in Jars :
              edgeIndex[j] # Absent /\ ~ edgeIndex[j].cdn /\ mods[j] = edgeIndex[j].sha
                => edgeJars[j] = edgeIndex[j].sha

(* A purge of an edge that is up to date never deletes a jar that clients   *)
(* are sent to the edge for.                                               *)
PurgeKeepsServed ==
  \A j \in purge.todo :
    purge.alone => edgeIndex[j] = Absent \/ edgeIndex[j].cdn
=============================================================================
