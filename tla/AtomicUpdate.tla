---------------------------- MODULE AtomicUpdate ----------------------------
(***************************************************************************)
(* What the updater promises the player, with no files, no windows and no  *)
(* helper: there is one build installed, and it changes in one step, to    *)
(* the build that an update began for, which latest.json advertised.       *)
(* Anything may end an update before that step.  The promise ends when two *)
(* updates of a machine overlap.                                           *)
(***************************************************************************)
CONSTANTS Builds, None

VARIABLES
  offers,    \* the builds an update may begin for: advertised now, or when a
             \* window that still runs looked
  pending,   \* the build that the update under way, if any, is to install
  installed  \* the build that is installed, None once updates overlap

vars == <<offers, pending, installed>>

Init ==
  /\ offers \in SUBSET Builds /\ pending = {} /\ installed \in Builds

(* latest.json changes: what no window remembers is offered no more. *)
Advertise(b) ==
  /\ offers' \subseteq offers \cup {b}
  /\ UNCHANGED <<pending, installed>>

Begin(b) ==
  /\ installed # None /\ pending = {}
  /\ b \in offers /\ pending' = {b}
  /\ offers' \subseteq offers /\ UNCHANGED installed

(* A failure, a window that is closed, a power cut: or only a window less  *)
(* that remembers an offer.                                                *)
GiveUp ==
  /\ pending' \subseteq pending /\ offers' \subseteq offers
  /\ UNCHANGED installed

Install(b) ==
  /\ pending = {b} /\ pending' = {} /\ installed' = b
  /\ UNCHANGED offers

Overlap ==
  /\ installed # None /\ installed' = None /\ pending' = {}
  /\ offers' \subseteq offers

Next ==
  \/ \E b \in Builds : Advertise(b) \/ Begin(b) \/ Install(b)
  \/ GiveUp \/ Overlap

Spec == Init /\ [][Next]_vars
=============================================================================
