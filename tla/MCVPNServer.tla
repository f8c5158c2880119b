---------------------------- MODULE MCVPNServer -----------------------------
(***************************************************************************)
(* VPNServer on small instances for TLC.                                   *)
(***************************************************************************)
EXTENDS VPNServer, TLC

Withdrawals == {-1}

Alike == Permutations(Handlers) \cup Permutations(Addresses) \cup Permutations(Users)

=============================================================================
