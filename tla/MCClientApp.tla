----------------------------- MODULE MCClientApp -----------------------------
EXTENDS ClientApp, TLC

(* Threads that pin and threads that launch meet only in cfg, which a launch *)
(* reads once.                                                             *)
EitherDuty == {{"pin"}, {"launch"}}

Interchangeable == Permutations(Windows) \cup Permutations(Servers) \cup Permutations(Workers)
=============================================================================
