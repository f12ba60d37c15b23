------------------------- MODULE MCServerLifecycle -------------------------
EXTENDS ServerLifecycle, TLC
CONSTANTS p1, p2, p3, p4

MCPorts == {p1, p2, p3, p4}
MCRconPorts == {p2}

(* A Java server with a Bedrock bridge, and a Bedrock server. *)
TwoFamilies == {[family |-> "java", port |-> p1, bridge |-> p4],
                [family |-> "bedrock", port |-> p3, bridge |-> None]}

(* A Java server, and a Bedrock one on the one RCON port there is. *)
RconContended == {[family |-> "java", port |-> p1, bridge |-> None],
                  [family |-> "bedrock", port |-> p2, bridge |-> None]}

OneJava == {[family |-> "java", port |-> p1, bridge |-> None]}

Interchangeable == Permutations(Requests) \cup Permutations(Ids)
                   \cup Permutations(Servers)
=============================================================================
