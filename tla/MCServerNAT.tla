----------------------------- MODULE MCServerNAT ----------------------------
(***************************************************************************)
(* ServerNAT on small instances for TLC.                                   *)
(***************************************************************************)
EXTENDS ServerNAT, TLC

Alike == Permutations(Threads) \cup Permutations(Clients)
         \cup Permutations(Flows) \cup Permutations(Ports)

=============================================================================
