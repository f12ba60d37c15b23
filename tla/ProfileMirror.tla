--------------------------- MODULE ProfileMirror ---------------------------
(***************************************************************************)
(* What a sync promises the player, with no plan, no order and no threads: *)
(* one file at a time is brought in line with the index, each for its own  *)
(* sake.  A file that is as listed is left alone, and so are the packs     *)
(* that are there; the game is ready only when every listed jar is there,  *)
(* and, if no download has been in trouble, when nothing is amiss.         *)
(***************************************************************************)
CONSTANTS Jars, Packs, Contents, Short, Own, NoSha, Absent

VARIABLES
  profile,   \* what each file name holds
  stage,     \* "resting" between launches, "syncing", or "ready" to launch
  list,      \* the index, while there is a sync
  trouble    \* whether a download of this sync was

vars == <<profile, stage, list, trouble>>

Names   == Jars \cup Packs
Indexes == {x \in [Names -> Contents \cup {NoSha, Absent}] :
              \A n \in Packs : x[n] \in {NoSha, Absent}}
NoList  == [n \in Names |-> Absent]

Listed(n)  == list[n] # Absent
AsListed(n) == IF Listed(n) THEN profile[n] # Absent /\ list[n] \in {NoSha, profile[n]}
               ELSE profile[n] = Absent

Init ==
  /\ profile \in [Names -> {Absent, Own}]
  /\ stage = "resting" /\ list = NoList /\ trouble = FALSE

(* The player's own doing. *)
Touch(n) ==
  /\ stage = "resting"
  /\ \E c \in {Own, Absent} : profile' = [profile EXCEPT ![n] = c]
  /\ UNCHANGED <<stage, list, trouble>>

Begin ==
  /\ stage = "resting" /\ stage' = "syncing"
  /\ list' \in Indexes /\ trouble' = FALSE
  /\ UNCHANGED profile

(* A file that is not as listed becomes so, or there is trouble.           *)
Bring(n) ==
  /\ stage = "syncing" /\ Listed(n) /\ ~ AsListed(n)
  /\ \/ /\ \E c \in Contents : list[n] \in {NoSha, c} /\ profile' = [profile EXCEPT ![n] = c]
        /\ trouble' \in {trouble, TRUE}
     \/ /\ \E c \in Contents \cup {Short} : profile' = [profile EXCEPT ![n] = c]
        /\ trouble' = TRUE
     \/ trouble' = TRUE /\ UNCHANGED profile
  /\ UNCHANGED <<stage, list>>

(* A jar that is not listed goes, if the index lists any.                  *)
Drop(j) ==
  /\ stage = "syncing" /\ ~ Listed(j) /\ \E k \in Jars : Listed(k)
  /\ profile' = [profile EXCEPT ![j] = Absent]
  /\ UNCHANGED <<stage, list, trouble>>

Complete == \A j \in Jars : Listed(j) => profile[j] # Absent
Mirrored ==
  /\ \A n \in Names : Listed(n) => AsListed(n)
  /\ (\E k \in Jars : Listed(k)) => \A j \in Jars : AsListed(j)

Ready ==
  /\ stage = "syncing" /\ stage' = "ready"
  /\ Complete /\ (trouble \/ Mirrored)
  /\ UNCHANGED <<profile, list, trouble>>

(* The game starts, or the sync is given up, whatever it has done so far.  *)
End ==
  /\ stage # "resting" /\ stage' = "resting"
  /\ list' = NoList /\ trouble' = FALSE
  /\ UNCHANGED profile

Next ==
  \/ \E n \in Names : Touch(n) \/ Bring(n)
  \/ \E j \in Jars : Drop(j)
  \/ Begin \/ Ready \/ End

Spec == Init /\ [][Next]_vars
=============================================================================
