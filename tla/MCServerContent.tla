--------------------------- MODULE MCServerContent ---------------------------
EXTENDS ServerContent, TLC
CONSTANTS e1, e2, e3, n1, n2, a, b, v, r1, r2

(* The entries and the names are as interchangeable, but to sort them costs *)
(* the plugin server's states more than it saves the pack's.               *)
Interchangeable == Permutations(Plugins) \cup Permutations(Requests)
=============================================================================
