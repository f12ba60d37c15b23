--------------------------- MODULE ServerRegistry ---------------------------
(***************************************************************************)
(* What the server manager promises about identity, with no docker, no     *)
(* requests and no awaits: a server id enters the table at most once, and  *)
(* a server that left it, or whose creation was given up, stays out.  The  *)
(* public client bundle exists for servers in the table only.              *)
(***************************************************************************)
CONSTANT Servers

VARIABLES
  live,     \* servers in the table
  ended,    \* servers deleted, or never completed
  bundles   \* servers with a client bundle on the public surface

vars == <<live, ended, bundles>>

Init == live = {} /\ ended = {} /\ bundles = {}

Unknown == Servers \ (live \cup ended)

Enter(s) ==
  /\ s \in Unknown
  /\ live' = live \cup {s}
  /\ bundles' \in {bundles, bundles \cup {s}}
  /\ UNCHANGED ended

Abandon(s) ==
  /\ s \in Unknown
  /\ ended' = ended \cup {s}
  /\ UNCHANGED <<live, bundles>>

Publish(s) ==
  /\ s \in live
  /\ bundles' = bundles \cup {s}
  /\ UNCHANGED <<live, ended>>

Retire(s) ==
  /\ s \in live
  /\ live' = live \ {s}
  /\ ended' = ended \cup {s}
  /\ bundles' = bundles \ {s}

(* A crash gives up the creations under way; one of them may have reached  *)
(* the table, and a delete under way may have got as far as the bundle.    *)
Interrupt ==
  /\ \E given_up \in SUBSET Unknown :
       /\ ended' = ended \cup given_up
       /\ \/ UNCHANGED live
          \/ \E s \in Unknown \ given_up : live' = live \cup {s}
  /\ \/ UNCHANGED bundles
     \/ \E s \in bundles : bundles' = bundles \ {s}

Next ==
  \/ \E s \in Servers : Enter(s) \/ Abandon(s) \/ Publish(s) \/ Retire(s)
  \/ Interrupt

Spec == Init /\ [][Next]_vars

(* Only a server in the table has a bundle on the public surface, and no   *)
(* server is both in the table and gone.                                   *)
BundlesAreLive == bundles \subseteq live /\ live \cap ended = {}
=============================================================================
